---------------------------- MODULE JobWorkerProofs ----------------------------
(* The protocol of attempts (JobAttempts) and the executor that follows it  *)
(* (JobWorker), for any number of jobs, calls, attempts and processes.      *)
EXTENDS JobWorker, TLAPS

-----------------------------------------------------------------------------
(* The protocol: theorems of JobAttempts, for every bound on the attempts   *)
(* of a job.                                                                *)

(* Every action but the recovery of a batch moves the rows of one attempt: *)
(* a disjunct of Next per action, named.                                   *)
USE ConstantsAssumption

LEMMA SeqsFact == /\ 1 \in Seqs /\ Seqs \subseteq Nat
                  /\ \A k \in 0 .. MaxAttempts : k < MaxAttempts => k + 1 \in Seqs
  BY DEF Seqs

LEMMA TypeInit == Init => TypeOK
  BY SeqsFact DEF Init, TypeOK, JobStatus, Attempt, NoAttempt, AttemptStatus, Settled,
     CallStatus, Reasons

LEMMA QueuedType ==
  ASSUME NEW i \in {"none", "user_message", "approval_resume", "retry"}, NEW b \in BOOLEAN
  PROVE  QueuedAttempt(i, b) \in Attempt
  BY DEF QueuedAttempt, NoAttempt, Attempt, AttemptStatus, Settled

LEMMA RunningType ==
  ASSUME NEW a \in Attempt, NEW w \in Workers
  PROVE  Running(a, w) \in Attempt
  BY DEF Running, Attempt, AttemptStatus

LEMMA SettledType ==
  ASSUME NEW a \in Attempt, NEW o \in Outcome
  PROVE  /\ SettledStatus(a, o) \in Settled \cup {"waiting_approval"}
         /\ SettleReason(a) \in Reasons \cup {"none"}
         /\ RecoveredStatus(a) \in {"cancelled", "timed_out", "outcome_unknown"}
  BY DEF SettledStatus, SettleReason, Attempt, Outcome, Settled, Reasons, RecoveredStatus

LEMMA InsertType ==
  ASSUME TypeOK, NEW j \in Jobs, NEW a \in Attempt, InsertAttempt(j, a)
  PROVE  /\ last' \in [Jobs -> 0 .. MaxAttempts]
         /\ attempt' \in [Jobs -> [Seqs -> Attempt]]
         /\ last[j] + 1 \in Seqs
  BY SeqsFact DEF TypeOK, InsertAttempt, Seqs

LEMMA CallRowType ==
  ASSUME TypeOK, NEW j \in Jobs, NEW c \in Calls,
         NEW row \in [status : CallStatus, attempt : 0 .. MaxAttempts],
         call' = [call EXCEPT ![j][c] = row]
  PROVE  call' \in [Jobs -> [Calls -> [status : CallStatus, attempt : 0 .. MaxAttempts]]]
<1> DEFINE Row == [status : CallStatus, attempt : 0 .. MaxAttempts]
<1>1. call \in [Jobs -> [Calls -> Row]] /\ row \in Row
  BY DEF TypeOK
<1> HIDE DEF Row
<1>2. call' \in [Jobs -> [Calls -> Row]]
  BY <1>1
<1> QED
  BY <1>2 DEF Row

LEMMA RecordType ==
  ASSUME TypeOK, NEW j \in Jobs, NEW n \in Seqs, NEW c \in Calls, NEW s \in Result,
         NEW g \in BOOLEAN, RecordToolResult(j, n, c, s, g)
  PROVE  call' \in [Jobs -> [Calls -> [status : CallStatus, attempt : 0 .. MaxAttempts]]]
<1>1. [status |-> s, attempt |-> n] \in [status : CallStatus, attempt : 0 .. MaxAttempts]
  BY DEF Result, CallStatus, Seqs
<1>2. call' = call \/ call' = [call EXCEPT ![j][c] = [status |-> s, attempt |-> n]]
  BY DEF RecordToolResult
<1> QED
  BY <1>1, <1>2, CallRowType DEF TypeOK

LEMMA RowTypes ==
  ASSUME TypeOK, NEW j \in Jobs, NEW n \in Seqs
  PROVE  /\ \A a \in Attempt : SetAttempt(j, n, a) => attempt' \in [Jobs -> [Seqs -> Attempt]]
         /\ \A s \in JobStatus : SetJob(j, s) => job' \in [Jobs -> JobStatus]
         /\ \A s \in Settled \cup {"waiting_approval"}, b \in BOOLEAN :
              NotifyIf(b, j, n, s) => notice' \in [Jobs -> SUBSET Notice]
         /\ \A r \in {"user", "assistant"} :
              AppendMessage(j, n, r) => message' \in [Jobs -> SUBSET Message]
<1>1. \A a \in Attempt : SetAttempt(j, n, a) => attempt' \in [Jobs -> [Seqs -> Attempt]]
  BY DEF SetAttempt, TypeOK
<1>2. \A s \in JobStatus : SetJob(j, s) => job' \in [Jobs -> JobStatus]
  BY DEF SetJob, TypeOK
<1>3. ASSUME NEW s \in Settled \cup {"waiting_approval"}, NEW b \in BOOLEAN, NotifyIf(b, j, n, s)
      PROVE  notice' \in [Jobs -> SUBSET Notice]
  <2>1. [attempt |-> n, status |-> s] \in Notice
    BY DEF Notice
  <2> QED
    BY <1>3, <2>1 DEF NotifyIf, TypeOK
<1>4. ASSUME NEW r \in {"user", "assistant"}, AppendMessage(j, n, r)
      PROVE  message' \in [Jobs -> SUBSET Message]
  <2>1. [attempt |-> n, role |-> r] \in Message
    BY DEF Message
  <2> QED
    BY <1>4, <2>1 DEF AppendMessage, TypeOK
<1> QED
  BY <1>1, <1>2, <1>3, <1>4

LEMMA ProduceType ==
  ASSUME TypeOK, NEW j \in Jobs, Produce(j)
  PROVE  TypeOK'
<1> USE SeqsFact, QueuedType, InsertType, RowTypes
<1>0. {"none", "queued", "running", "cancelling", "waiting_approval", "cancelled"}
        \subseteq JobStatus
  BY DEF JobStatus
<1>1. ASSUME NEW b \in BOOLEAN, CreateQueuedJob(j, b) PROVE TypeOK'
  BY <1>0, <1>1 DEF CreateQueuedJob, TypeOK
<1>2. ASSUME NEW p \in Jobs, NEW n \in Seqs, NEW w \in Workers, CreateClaimedChild(p, n, w, j)
      PROVE  TypeOK'
  BY <1>0, <1>2, RunningType DEF CreateClaimedChild, TypeOK
<1>3. ASSUME NEW b \in BOOLEAN, EnqueueContinuation(j, b) PROVE TypeOK'
  BY <1>0, <1>3 DEF EnqueueContinuation, TypeOK
<1>4. ASSUME EnqueueRetry(j) PROVE TypeOK'
  <2>1. attempt[j][last[j]].notify \in BOOLEAN
    BY <1>4 DEF TypeOK, EnqueueRetry, RetryEligible, Seqs, Attempt
  <2> QED
    BY <1>0, <1>4, <2>1 DEF EnqueueRetry, TypeOK
<1>5. ASSUME NEW c \in Calls, NEW b \in BOOLEAN, EnqueueApprovalResume(j, c, b)
      PROVE  TypeOK'
  <2>1. call' \in [Jobs -> [Calls -> [status : CallStatus, attempt : 0 .. MaxAttempts]]]
    <3>1. PICK s \in {"approved", "rejected"} :
            call' = [call EXCEPT ![j][c] = [call[j][c] EXCEPT !.status = s]]
      <4>1. CASE b
        BY <1>5, <4>1 DEF EnqueueApprovalResume
      <4>2. CASE ~b
        BY <1>5, <4>2 DEF EnqueueApprovalResume
      <4> QED
        BY <4>1, <4>2
    <3>2. call[j][c] \in [status : CallStatus, attempt : 0 .. MaxAttempts]
      BY DEF TypeOK
    <3>3. s \in CallStatus
      BY DEF CallStatus
    <3>4. [call[j][c] EXCEPT !.status = s] \in [status : CallStatus, attempt : 0 .. MaxAttempts]
      BY <3>2, <3>3
    <3> QED
      BY <3>1, <3>4, CallRowType
  <2>2. ResumeNotify(j) \in BOOLEAN
    BY DEF ResumeNotify
  <2> QED
    BY <1>0, <1>5, <2>1, <2>2 DEF EnqueueApprovalResume, TypeOK
<1>6. ASSUME NEW r \in Reasons, RequestJobCancellation(j, r) PROVE TypeOK'
  <2>1. PICK n \in Seqs : \/ CancelQueued(j, n, r)
                         \/ CancelRunning(j, n, r)
                         \/ CancelWaiting(j, n, r)
    BY <1>6 DEF RequestJobCancellation
  <2>3. "cancelled" \in Settled /\ "cancelled" \in AttemptStatus
    BY DEF Settled, AttemptStatus
  <2>2. /\ attempt[j][n].notify \in BOOLEAN
        /\ [attempt[j][n] EXCEPT !.status = "cancelled", !.cancel = r] \in Attempt
        /\ [attempt[j][n] EXCEPT !.cancel = r, !.leaseLive = TRUE] \in Attempt
    <3>1. attempt[j][n] \in Attempt
      BY DEF TypeOK
    <3>2. attempt[j][n].notify \in BOOLEAN
      BY <3>1 DEF Attempt
    <3>3. [attempt[j][n] EXCEPT !.status = "cancelled", !.cancel = r] \in Attempt
      BY <2>3, <3>1, r \in Reasons \cup {"none"} DEF Attempt
    <3>4. [attempt[j][n] EXCEPT !.cancel = r, !.leaseLive = TRUE] \in Attempt
      BY <3>1, r \in Reasons \cup {"none"} DEF Attempt
    <3> QED
      BY <3>2, <3>3, <3>4
  <2>4. CASE CancelQueued(j, n, r)
    BY <1>0, <2>2, <2>3, <2>4 DEF CancelQueued, CancelIdle, SetAttempt, SetJob, TypeOK
  <2>5. CASE CancelRunning(j, n, r)
    BY <1>0, <2>2, <2>5 DEF CancelRunning, BeginCancel, SetAttempt, SetJob, TypeOK
  <2>6. CASE CancelWaiting(j, n, r)
    <3>1. call' \in [Jobs -> [Calls -> [status : CallStatus, attempt : 0 .. MaxAttempts]]]
      <4> DEFINE Row == [status : CallStatus, attempt : 0 .. MaxAttempts]
                 f == [c \in Calls |-> IF call[j][c].status = "pending_approval"
                                         THEN [call[j][c] EXCEPT !.status = "cancelled"]
                                         ELSE call[j][c]]
      <4>1. \A x \in Row : [x EXCEPT !.status = "cancelled"] \in Row
        BY DEF CallStatus
      <4>2. call \in [Jobs -> [Calls -> Row]]
        BY DEF TypeOK
      <4>3. call' = [call EXCEPT ![j] = f]
        BY <2>6 DEF CancelWaiting
      <4> HIDE DEF Row
      <4>4. f \in [Calls -> Row]
        BY <4>1, <4>2
      <4> HIDE DEF f
      <4>5. call' \in [Jobs -> [Calls -> Row]]
        BY <4>2, <4>3, <4>4
      <4> QED
        BY <4>5 DEF Row
    <3> QED
      BY <1>0, <2>2, <2>3, <2>6, <3>1 DEF CancelWaiting, CancelIdle, SetAttempt, SetJob, TypeOK
  <2> QED
    BY <2>1, <2>4, <2>5, <2>6
<1> QED
  BY <1>1, <1>2, <1>3, <1>4, <1>5, <1>6 DEF Produce

LEMMA WorkType ==
  ASSUME TypeOK, NEW j \in Jobs, NEW n \in Seqs, NEW w \in Workers, Work(j, n, w)
  PROVE  TypeOK'
<1>0. /\ {"none", "queued", "running", "cancelling"} \subseteq JobStatus
      /\ attempt[j][n] \in Attempt
      /\ attempt[j][n].notify \in BOOLEAN
      /\ attempt[j][n].input \in {"none", "user_message", "approval_resume", "retry"}
  BY DEF JobStatus, TypeOK, Attempt
<1>1. ASSUME ClaimAttempt(j, n, w) PROVE TypeOK'
  <2>1. Running(attempt[j][n], w) \in Attempt
    BY <1>0, RunningType
  <2> QED
    BY <1>0, <1>1, <2>1 DEF ClaimAttempt, SetAttempt, SetJob, TypeOK
<1>2. ASSUME HeartbeatAttemptControl(j, n, w) PROVE TypeOK'
  <2>1. [attempt[j][n] EXCEPT !.cancel = "deadline", !.leaseLive = TRUE] \in Attempt
    BY <1>0 DEF Attempt, Reasons
  <2> QED
    BY <1>0, <1>2, <2>1
    DEF HeartbeatAttemptControl, BeginCancel, SetAttempt, SetJob, TypeOK
<1>3. ASSUME ReleaseUnstartedAttempt(j, n, w) PROVE TypeOK'
  <2>1. QueuedAttempt(attempt[j][n].input, attempt[j][n].notify) \in Attempt
    BY <1>0, QueuedType
  <2> QED
    BY <1>0, <1>3, <2>1 DEF ReleaseUnstartedAttempt, SetAttempt, SetJob, TypeOK
<1>4. ASSUME NEW c \in Calls, BeginExternalAttemptEffect(j, n, w, c) PROVE TypeOK'
  <2>1. [attempt[j][n] EXCEPT !.marker = c] \in Attempt
    BY <1>0 DEF Attempt
  <2> QED
    BY <1>4, <2>1 DEF BeginExternalAttemptEffect, SetAttempt, TypeOK
<1>5. ASSUME NEW c \in Calls, NEW s \in Result, NEW g \in BOOLEAN,
             CompleteExternalAttemptEffect(j, n, w, c, s, g)
      PROVE  TypeOK'
  <2>1. [attempt[j][n] EXCEPT !.marker = None] \in Attempt
    BY <1>0 DEF Attempt
  <2>2. call' \in [Jobs -> [Calls -> [status : CallStatus, attempt : 0 .. MaxAttempts]]]
    BY <1>5, RecordType DEF CompleteExternalAttemptEffect
  <2> QED
    BY <1>5, <2>1, <2>2 DEF CompleteExternalAttemptEffect, SetAttempt, TypeOK
<1>6. ASSUME NEW c \in Calls, NEW s \in Result, NEW g \in BOOLEAN, NEW d \in BOOLEAN,
             ApplyAttemptEffects(j, n, w, c, s, g, d)
      PROVE  TypeOK'
  <2>1. [attempt[j][n] EXCEPT !.marker = None] \in Attempt
    BY <1>0 DEF Attempt
  <2>2. call' \in [Jobs -> [Calls -> [status : CallStatus, attempt : 0 .. MaxAttempts]]]
    BY <1>6, RecordType DEF ApplyAttemptEffects
  <2> QED
    <3>1. \/ SetAttempt(j, n, [attempt[j][n] EXCEPT !.marker = None])
          \/ attempt' = attempt
      BY <1>6, Zenon DEF ApplyAttemptEffects
    <3>2. attempt' \in [Jobs -> [Seqs -> Attempt]]
      <4>1. CASE SetAttempt(j, n, [attempt[j][n] EXCEPT !.marker = None])
        BY <2>1, <4>1 DEF SetAttempt, TypeOK
      <4>2. CASE attempt' = attempt
        BY <4>2 DEF TypeOK
      <4> QED
        BY <3>1, <4>1, <4>2
    <3> QED
      BY <1>6, <2>2, <3>2 DEF ApplyAttemptEffects, TypeOK
<1>7. ASSUME NEW c \in Calls, NEW o \in Outcome, NEW t \in BOOLEAN,
             SettleAttempt(j, n, w, o, c, t)
      PROVE  TypeOK'
  <2> DEFINE a == attempt[j][n]
             s == SettledStatus(a, o)
  <2>1. /\ s \in Settled \cup {"waiting_approval"}
        /\ s \in AttemptStatus /\ s \in JobStatus
        /\ SettleReason(a) \in Reasons \cup {"none"}
        /\ a \in Attempt
    BY <1>0, SettledType DEF Settled, AttemptStatus, JobStatus
  <2>2. call' \in [Jobs -> [Calls -> [status : CallStatus, attempt : 0 .. MaxAttempts]]]
    <3>1. [status |-> "pending_approval", attempt |-> n]
            \in [status : CallStatus, attempt : 0 .. MaxAttempts]
      BY DEF CallStatus, Seqs
    <3>2. \/ call' = call
          \/ call' = [call EXCEPT ![j][c] = [status |-> "pending_approval", attempt |-> n]]
      BY <1>7 DEF SettleAttempt, SettleEffects
    <3> QED
      BY <3>1, <3>2, CallRowType DEF TypeOK
  <2>3. message' \in [Jobs -> SUBSET Message]
    <3>1. message' = message \/ AppendMessage(j, n, "assistant")
      BY <1>7 DEF SettleAttempt, SettleEffects
    <3> QED
      BY <3>1, RowTypes DEF TypeOK
  <2>4. notice' \in [Jobs -> SUBSET Notice]
    <3>1. (a.notify \/ s = "waiting_approval") \in BOOLEAN
      OBVIOUS
    <3>2. NotifyIf(a.notify \/ s = "waiting_approval", j, n, s)
      BY <1>7 DEF SettleAttempt
    <3> QED
      BY <2>1, <3>1, <3>2, RowTypes
  <2>5. attempt' \in [Jobs -> [Seqs -> Attempt]]
    <3>1. [a EXCEPT !.status = s, !.cancel = SettleReason(a)] \in Attempt
      BY <2>1 DEF Attempt
    <3> QED
      BY <1>7, <3>1 DEF SettleAttempt, SetAttempt, TypeOK
  <2>6. job' \in [Jobs -> JobStatus] /\ last' = last
    BY <1>7, <2>1 DEF SettleAttempt, SetJob, TypeOK
  <2> QED
    BY <2>2, <2>3, <2>4, <2>5, <2>6 DEF TypeOK
<1> QED
  BY <1>1, <1>2, <1>3, <1>4, <1>5, <1>6, <1>7 DEF Work

LEMMA ClockType ==
  ASSUME TypeOK, NEW j \in Jobs, NEW n \in Seqs, Clock(j, n)
  PROVE  TypeOK'
<1>1. attempt[j][n] \in Attempt
  BY DEF TypeOK
<1>2. ASSUME LeaseExpires(j, n) PROVE TypeOK'
  <2>1. [attempt[j][n] EXCEPT !.leaseLive = FALSE] \in Attempt
    BY <1>1 DEF Attempt
  <2> QED
    BY <1>2, <2>1 DEF LeaseExpires, SetAttempt, TypeOK
<1>3. ASSUME DeadlinePasses(j, n) PROVE TypeOK'
  <2>1. [attempt[j][n] EXCEPT !.deadlinePassed = TRUE] \in Attempt
    BY <1>1 DEF Attempt
  <2> QED
    BY <1>3, <2>1 DEF DeadlinePasses, SetAttempt, TypeOK
<1> QED
  BY <1>2, <1>3 DEF Clock

LEMMA RecoveryType ==
  ASSUME TypeOK, NEW S \in SUBSET Expired, AbandonExpiredAttempts(S)
  PROVE  TypeOK'
<1>1. \A j \in Jobs, n \in Seqs :
        /\ attempt[j][n] \in Attempt
        /\ RecoveredStatus(attempt[j][n]) \in {"cancelled", "timed_out", "outcome_unknown"}
  BY SettledType DEF TypeOK, RecoveredStatus
<1>2. {"cancelled", "timed_out", "outcome_unknown"} \subseteq JobStatus \cap AttemptStatus \cap Settled
  BY DEF JobStatus, AttemptStatus, Settled
<1>3. \A j \in Jobs, n \in Seqs :
        [attempt[j][n] EXCEPT !.status = RecoveredStatus(attempt[j][n])] \in Attempt
  <2> SUFFICES ASSUME NEW j \in Jobs, NEW n \in Seqs
               PROVE  [attempt[j][n] EXCEPT !.status = RecoveredStatus(attempt[j][n])] \in Attempt
    OBVIOUS
  <2> QED
    BY <1>1, <1>2 DEF Attempt
<1>4. attempt' \in [Jobs -> [Seqs -> Attempt]]
  BY <1>1, <1>3 DEF AbandonExpiredAttempts
<1>5. \A j \in Jobs : (\E n \in Seqs : <<j, n>> \in S) =>
        (CHOOSE n \in Seqs : <<j, n>> \in S) \in Seqs
  OBVIOUS
<1>6. job' \in [Jobs -> JobStatus]
  BY <1>1, <1>2, <1>5 DEF AbandonExpiredAttempts, TypeOK
<1>7. notice' \in [Jobs -> SUBSET Notice]
  <2>1. \A j \in Jobs, n \in Seqs :
          [attempt |-> n, status |-> RecoveredStatus(attempt[j][n])] \in Notice
    BY <1>1, <1>2 DEF Notice
  <2>2. \A j \in Jobs : notice[j] \subseteq Notice
    BY DEF TypeOK
  <2>3. \A j \in Jobs : notice'[j] \subseteq Notice
    BY <2>1, <2>2 DEF AbandonExpiredAttempts
  <2> QED
    BY <2>3 DEF AbandonExpiredAttempts
<1> QED
  BY <1>4, <1>6, <1>7 DEF AbandonExpiredAttempts, TypeOK

(* Every column keeps its type: statuses stay within the enums of          *)
(* db/schema.ts and every notice and message names an attempt of its job.  *)
THEOREM TypeCorrect == Spec => []TypeOK
<1>1. TypeOK /\ [Next]_vars => TypeOK'
  <2> SUFFICES ASSUME TypeOK, [Next]_vars PROVE TypeOK'
    OBVIOUS
  <2>1. CASE Next
    BY <2>1, ProduceType, WorkType, ClockType, RecoveryType DEF Next
  <2>2. CASE UNCHANGED vars
    BY <2>2 DEF vars, TypeOK
  <2> QED
    BY <2>1, <2>2
<1> QED
  BY <1>1, TypeInit, PTL DEF Spec

-----------------------------------------------------------------------------
(* The inductive invariant of JobAttempts.  A job and its newest attempt    *)
(* move together in every transaction, so everything is said about the      *)
(* newest row: a transaction either replaces it (OneRow) or appends a new   *)
(* one after a turn that is over (NewRow); only recovery moves several      *)
(* jobs at once, each by its newest row.  The exception is a stop that was  *)
(* overtaken: it moves an older row and the job (RowBehind).                *)
-----------------------------------------------------------------------------
(* What CancelHonoured and UncertaintyKept say of one row.                  *)
RowSafe(a) ==
  /\ a.cancel # "none" =>
       a.status \in {"running", "cancelled", "timed_out", "outcome_unknown"}
  /\ a.cancel = "user" => a.status # "timed_out"
  /\ a.marker # None => a.status \in {"running", "outcome_unknown"}

(* Exactly the rows up to the newest one have been inserted.                *)
Shape == \A j \in Jobs, n \in Seqs : attempt[j][n].status = "none" <=> n > last[j]

IInv == TypeOK /\ CancelHonoured /\ UncertaintyKept /\ Shape /\ AggregateAgrees

LEMMA RowsAreSafe ==
  (CancelHonoured /\ UncertaintyKept) <=> \A j \in Jobs, n \in Seqs : RowSafe(attempt[j][n])
  BY DEF CancelHonoured, UncertaintyKept, RowSafe

LEMMA InvInit == Init => IInv
<1> SUFFICES ASSUME Init PROVE IInv
  OBVIOUS
<1>1. TypeOK
  BY TypeInit
<1>2. CancelHonoured /\ UncertaintyKept
  BY DEF Init, CancelHonoured, UncertaintyKept, NoAttempt
<1>3. Shape /\ AggregateAgrees
  BY DEF Init, Shape, AggregateAgrees, NoAttempt, Seqs
<1> QED
  BY <1>1, <1>2, <1>3 DEF IInv

(* A turn that is queued, running, or whose pause is what its job waits for *)
(* is the newest of its job.                                                *)
LEMMA ActiveIsLatest ==
  ASSUME IInv, NEW j \in Jobs, NEW n \in Seqs
  PROVE  /\ attempt[j][n].status \in {"queued", "running"} =>
              n = last[j] /\ job[j] = AggregateOf(attempt[j][n])
         /\ last[j] \in Nat
         /\ job[j] # "none" =>
              /\ last[j] \in Seqs
              /\ job[j] # "cancelled" => job[j] = AggregateOf(Latest(j))
<1>1. last[j] \in 0 .. MaxAttempts
  BY DEF IInv, TypeOK
<1>2. attempt[j][n].status \in {"queued", "running"} => n = last[j]
  BY <1>1 DEF IInv, Shape, AggregateAgrees, Settled, Seqs
<1> QED
  BY <1>1, <1>2 DEF IInv, AggregateAgrees, StoppedBehind, Latest, Seqs

(* A transaction that replaces the newest row and sets the job to what that *)
(* row says.                                                                *)
LEMMA OneRow ==
  ASSUME IInv, TypeOK', NEW j \in Jobs, NEW n \in Seqs, NEW b \in Attempt,
         n = last[j], RowSafe(b), b.status # "none",
         attempt' = [attempt EXCEPT ![j][n] = b], last' = last,
         job'[j] = AggregateOf(b), \A k \in Jobs : k # j => job'[k] = job[k]
  PROVE  IInv'
<1>1. \A k \in Jobs, m \in Seqs :
        attempt'[k][m] = IF k = j /\ m = n THEN b ELSE attempt[k][m]
  BY DEF IInv, TypeOK
<1>2. (CancelHonoured /\ UncertaintyKept)'
  BY <1>1 DEF IInv, CancelHonoured, UncertaintyKept, RowSafe
<1>3. Shape'
  BY <1>1 DEF IInv, Shape, TypeOK, Seqs
<1>4. AggregateAgrees'
  BY <1>1 DEF IInv, AggregateAgrees, StoppedBehind, Latest, TypeOK, Seqs
<1> QED
  BY <1>2, <1>3, <1>4 DEF IInv

(* A stop of an older paused row ends that row and the job.                 *)
LEMMA RowBehind ==
  ASSUME IInv, TypeOK', NEW j \in Jobs, NEW n \in Seqs, NEW b \in Attempt,
         n < last[j], Latest(j).status = "waiting_approval",
         RowSafe(b), b.status = "cancelled", b.cancel # "none",
         attempt' = [attempt EXCEPT ![j][n] = b], last' = last,
         job'[j] = "cancelled", \A k \in Jobs : k # j => job'[k] = job[k]
  PROVE  IInv'
<1>1. \A k \in Jobs, m \in Seqs :
        attempt'[k][m] = IF k = j /\ m = n THEN b ELSE attempt[k][m]
  BY DEF IInv, TypeOK
<1>2. (CancelHonoured /\ UncertaintyKept)'
  BY <1>1 DEF IInv, CancelHonoured, UncertaintyKept, RowSafe
<1>3. Shape'
  BY <1>1 DEF IInv, Shape, TypeOK, Seqs
<1>4. \A k \in Jobs : last[k] \in 0 .. MaxAttempts
  BY DEF IInv, TypeOK
<1>5. AggregateAgrees'
  <2> SUFFICES ASSUME NEW k \in Jobs
               PROVE  /\ IF last[k] = 0 THEN job'[k] = "none"
                         ELSE job'[k] = AggregateOf(Latest(k))' \/ StoppedBehind(k)'
                      /\ \A m \in Seqs : m < last[k] => attempt'[k][m].status \in
                                                Settled \cup {"waiting_approval"}
    BY DEF AggregateAgrees
  <2>1. CASE k = j
    <3>1. last[j] # 0 /\ last[j] # n
      BY <1>4 DEF Seqs
    <3>2. Latest(j)' = Latest(j)
      BY <1>1, <1>4, <3>1 DEF Latest, Seqs
    <3>3. StoppedBehind(j)'
      BY <1>1, <3>2 DEF StoppedBehind
    <3>4. \A m \in Seqs : m < last[j] => attempt'[j][m].status \in
                                               Settled \cup {"waiting_approval"}
      BY <1>1 DEF IInv, AggregateAgrees, Settled
    <3> QED
      BY <2>1, <3>1, <3>3, <3>4
  <2>2. CASE k # j
    BY <1>1, <1>4, <2>2 DEF IInv, AggregateAgrees, StoppedBehind, Latest, Seqs
  <2> QED
    BY <2>1, <2>2
<1> QED
  BY <1>2, <1>3, <1>5 DEF IInv

(* A transaction that appends a row to a job with no turn in progress.      *)
LEMMA NewRow ==
  ASSUME IInv, TypeOK', NEW j \in Jobs, NEW b \in Attempt, RowSafe(b),
         b.status \in {"queued", "running"}, InsertAttempt(j, b),
         job[j] \in {"none", "waiting_approval"} \cup Settled,
         job'[j] = AggregateOf(b), \A k \in Jobs : k # j => job'[k] = job[k]
  PROVE  IInv'
<1>1. /\ last[j] \in 0 .. MaxAttempts /\ last[j] + 1 \in Seqs
      /\ \A k \in Jobs : last'[k] = IF k = j THEN last[j] + 1 ELSE last[k]
  BY DEF IInv, TypeOK, InsertAttempt, Seqs
<1>2. \A k \in Jobs, m \in Seqs :
        attempt'[k][m] = IF k = j /\ m = last[j] + 1 THEN b ELSE attempt[k][m]
  BY <1>1 DEF IInv, TypeOK, InsertAttempt
<1>3. last[j] # 0 => attempt[j][last[j]].status \in Settled \cup {"waiting_approval"}
  <2>1. CASE job[j] = "none"
    BY <1>1, <2>1 DEF IInv, AggregateAgrees, AggregateOf, StoppedBehind, Latest, Shape, Seqs
  <2>2. CASE job[j] # "none"
    BY <1>1, <2>2 DEF IInv, AggregateAgrees, AggregateOf, StoppedBehind, Latest, Settled
  <2> QED
    BY <2>1, <2>2
<1>4. (CancelHonoured /\ UncertaintyKept)'
  BY <1>2 DEF IInv, CancelHonoured, UncertaintyKept, RowSafe
<1>5. Shape'
  BY <1>1, <1>2 DEF IInv, Shape, Seqs
<1>6. AggregateAgrees'
  <2> SUFFICES ASSUME NEW k \in Jobs
               PROVE  /\ IF last'[k] = 0 THEN job'[k] = "none"
                         ELSE \/ job'[k] = AggregateOf(attempt'[k][last'[k]])
                              \/ StoppedBehind(k)'
                      /\ \A m \in Seqs : m < last'[k] => attempt'[k][m].status \in
                                                Settled \cup {"waiting_approval"}
    BY DEF AggregateAgrees, Latest
  <2>1. CASE k = j
    BY <1>1, <1>2, <1>3, <2>1 DEF IInv, AggregateAgrees, Seqs
  <2>2. CASE k # j
    <3>1. /\ last'[k] = last[k] /\ job'[k] = job[k]
          /\ \A m \in Seqs : attempt'[k][m] = attempt[k][m]
      BY <1>1, <1>2, <2>2
    <3>2. last[k] \in 0 .. MaxAttempts
      BY DEF IInv, TypeOK
    <3>3. last[k] # 0 => attempt'[k][last'[k]] = attempt[k][last[k]]
      BY <3>1, <3>2 DEF Seqs
    <3>4. last[k] # 0 /\ StoppedBehind(k) => StoppedBehind(k)'
      BY <3>1, <3>3 DEF StoppedBehind, Latest
    <3> QED
      BY <3>1, <3>3, <3>4 DEF IInv, AggregateAgrees, Latest
  <2> QED
    BY <2>1, <2>2
<1> QED
  BY <1>4, <1>5, <1>6 DEF IInv

(* A transaction that changes neither a row nor the job.                    *)
LEMMA SameRows ==
  ASSUME IInv, TypeOK', job' = job, last' = last, attempt' = attempt
  PROVE  IInv'
  BY DEF IInv, CancelHonoured, UncertaintyKept, Shape, AggregateAgrees, StoppedBehind, Latest

LEMMA ProduceInv ==
  ASSUME IInv, NEW j \in Jobs, Produce(j)
  PROVE  IInv'
<1>0. TypeOK'
  BY ProduceType DEF IInv
<1>q. ASSUME NEW i \in {"none", "user_message", "approval_resume", "retry"}, NEW b \in BOOLEAN
      PROVE  /\ QueuedAttempt(i, b) \in Attempt /\ RowSafe(QueuedAttempt(i, b))
             /\ QueuedAttempt(i, b).status = "queued"
             /\ AggregateOf(QueuedAttempt(i, b)) = "queued"
  BY QueuedType DEF QueuedAttempt, NoAttempt, RowSafe, AggregateOf
<1>j. \A s : SetJob(j, s) => job'[j] = s /\ \A k \in Jobs : k # j => job'[k] = job[k]
  BY DEF IInv, TypeOK, SetJob
<1>1. ASSUME NEW b \in BOOLEAN, CreateQueuedJob(j, b) PROVE IInv'
  BY <1>0, <1>q, <1>j, <1>1, NewRow DEF CreateQueuedJob
<1>2. ASSUME NEW p \in Jobs, NEW n \in Seqs, NEW w \in Workers, CreateClaimedChild(p, n, w, j)
      PROVE  IInv'
  <2> DEFINE b == Running(QueuedAttempt("user_message", FALSE), w)
  <2>1. b \in Attempt
    BY RunningType, QueuedType
  <2>2. RowSafe(b) /\ b.status = "running" /\ AggregateOf(b) = "running"
    BY DEF Running, QueuedAttempt, NoAttempt, RowSafe, AggregateOf
  <2> QED
    BY <1>0, <1>j, <1>2, <2>1, <2>2, NewRow DEF CreateClaimedChild
<1>3. ASSUME NEW b \in BOOLEAN, EnqueueContinuation(j, b) PROVE IInv'
  BY <1>0, <1>q, <1>j, <1>3, NewRow DEF EnqueueContinuation, Settled
<1>4. ASSUME EnqueueRetry(j) PROVE IInv'
  <2>1. attempt[j][last[j]].notify \in BOOLEAN
    <3>1. TypeOK /\ last[j] > 0
      BY <1>4 DEF IInv, EnqueueRetry, RetryEligible
    <3>2. last[j] \in Seqs
      BY <3>1 DEF TypeOK, Seqs
    <3>3. attempt[j][last[j]] \in Attempt
      BY <3>1, <3>2 DEF TypeOK
    <3> QED
      BY <3>3 DEF Attempt
  <2> QED
    BY <1>0, <1>q, <1>j, <1>4, <2>1, NewRow DEF EnqueueRetry, RetryEligible, Settled
<1>5. ASSUME NEW c \in Calls, NEW b \in BOOLEAN, EnqueueApprovalResume(j, c, b) PROVE IInv'
  <2>1. ResumeNotify(j) \in BOOLEAN
    BY DEF ResumeNotify
  <2> QED
    BY <1>0, <1>q, <1>j, <1>5, <2>1, NewRow DEF EnqueueApprovalResume
<1>6. ASSUME NEW r \in Reasons, RequestJobCancellation(j, r) PROVE IInv'
  <2>1. PICK n \in Seqs : /\ CancelCandidate(j, n)
                          /\ \/ CancelQueued(j, n, r)
                             \/ CancelRunning(j, n, r)
                             \/ CancelWaiting(j, n, r)
    BY <1>6 DEF RequestJobCancellation
  <2> DEFINE a == attempt[j][n]
  <2>2. /\ a \in Attempt /\ RowSafe(a)
        /\ r \in {"user", "deadline"}
    BY RowsAreSafe DEF IInv, TypeOK, Reasons
  <2>3. CASE CancelRunning(j, n, r)
    <3> DEFINE b == [a EXCEPT !.cancel = r, !.leaseLive = TRUE]
    <3>1. /\ b \in Attempt /\ RowSafe(b) /\ b.status # "none"
          /\ AggregateOf(b) = "cancelling"
      BY <2>2, <2>3 DEF CancelRunning, Attempt, Reasons, RowSafe, AggregateOf
    <3>2. n = last[j]
      BY <2>3, ActiveIsLatest DEF CancelRunning
    <3> QED
      BY <1>0, <1>j, <2>3, <3>1, <3>2, OneRow DEF CancelRunning, BeginCancel, SetAttempt
  <2>4. CASE CancelQueued(j, n, r) \/ CancelWaiting(j, n, r)
    <3> DEFINE b == [a EXCEPT !.status = "cancelled", !.cancel = r]
    <3>1. CancelIdle(j, n, r) /\ a.status \in {"queued", "waiting_approval"}
      BY <2>4 DEF CancelQueued, CancelWaiting
    <3>2. /\ b \in Attempt /\ RowSafe(b) /\ b.status = "cancelled" /\ b.cancel # "none"
          /\ AggregateOf(b) = "cancelled"
      BY <2>2, <3>1 DEF Attempt, AttemptStatus, Settled, Reasons, RowSafe, AggregateOf
    <3>3. n = last[j] \/ (n < last[j] /\ Latest(j).status = "waiting_approval")
      <4>1. CASE CancelQueued(j, n, r)
        BY <4>1, ActiveIsLatest DEF CancelQueued
      <4>2. CASE CancelWaiting(j, n, r)
        <5>1. last[j] \in Seqs /\ Latest(j).status = "waiting_approval"
          BY <4>2, ActiveIsLatest DEF CancelWaiting, AggregateOf
        <5>2. ~(n > last[j])
          BY <3>1 DEF IInv, Shape
        <5> QED
          BY <5>1, <5>2 DEF Seqs
      <4> QED
        BY <2>4, <4>1, <4>2
    <3>4. CASE n = last[j]
      BY <1>0, <1>j, <3>1, <3>2, <3>4, OneRow DEF CancelIdle, SetAttempt
    <3>5. CASE n < last[j] /\ Latest(j).status = "waiting_approval"
      BY <1>0, <1>j, <3>1, <3>2, <3>5, RowBehind DEF CancelIdle, SetAttempt
    <3> QED
      BY <3>3, <3>4, <3>5
  <2> QED
    BY <2>1, <2>3, <2>4
<1> QED
  BY <1>1, <1>2, <1>3, <1>4, <1>5, <1>6 DEF Produce

(* The worker's transactions act on a running row (or claim a queued one),  *)
(* which is therefore the newest.                                           *)
LEMMA WorkInv ==
  ASSUME IInv, NEW j \in Jobs, NEW n \in Seqs, NEW w \in Workers, Work(j, n, w)
  PROVE  IInv'
<1> DEFINE a == attempt[j][n]
<1>0. /\ TypeOK' /\ a \in Attempt /\ RowSafe(a)
      /\ a.status \in {"queued", "running"} => n = last[j] /\ job[j] = AggregateOf(a)
  BY WorkType, ActiveIsLatest, RowsAreSafe DEF IInv, TypeOK
<1>j. \A s : SetJob(j, s) => job'[j] = s /\ \A k \in Jobs : k # j => job'[k] = job[k]
  BY DEF IInv, TypeOK, SetJob
<1>1. ASSUME ClaimAttempt(j, n, w) PROVE IInv'
  <2> DEFINE b == Running(a, w)
  <2>1. /\ b \in Attempt /\ RowSafe(b) /\ b.status # "none"
        /\ AggregateOf(b) = "running"
    <3>1. b \in Attempt
      BY <1>0, RunningType
    <3> QED
      BY <1>0, <1>1, <3>1 DEF ClaimAttempt, Running, Attempt, RowSafe, AggregateOf
  <2> QED
    BY <1>0, <1>j, <1>1, <2>1, OneRow DEF ClaimAttempt, SetAttempt
<1>2. ASSUME HeartbeatAttemptControl(j, n, w) PROVE IInv'
  <2> DEFINE b == [a EXCEPT !.cancel = "deadline", !.leaseLive = TRUE]
  <2>1. /\ b \in Attempt /\ RowSafe(b) /\ b.status # "none"
        /\ AggregateOf(b) = "cancelling"
    BY <1>0, <1>2 DEF HeartbeatAttemptControl, Owned, Attempt, Reasons, RowSafe, AggregateOf
  <2> QED
    BY <1>0, <1>j, <1>2, <2>1, OneRow DEF HeartbeatAttemptControl, Owned, BeginCancel, SetAttempt
<1>3. ASSUME ReleaseUnstartedAttempt(j, n, w) PROVE IInv'
  <2> DEFINE b == QueuedAttempt(a.input, a.notify)
  <2>1. /\ b \in Attempt /\ RowSafe(b) /\ b.status # "none"
        /\ AggregateOf(b) = "queued"
    <3>1. b \in Attempt
      BY <1>0, QueuedType DEF Attempt
    <3> QED
      BY <3>1 DEF QueuedAttempt, NoAttempt, RowSafe, AggregateOf
  <2> QED
    BY <1>0, <1>j, <1>3, <2>1, OneRow DEF ReleaseUnstartedAttempt, Owned, SetAttempt
<1>m. ASSUME NEW c \in Calls \cup {None}, a.status = "running"
      PROVE  LET b == [a EXCEPT !.marker = c]
             IN  b \in Attempt /\ RowSafe(b) /\ b.status # "none" /\ AggregateOf(b) = job[j]
  BY <1>0, <1>m DEF Attempt, RowSafe, AggregateOf
<1>4. ASSUME NEW c \in Calls, BeginExternalAttemptEffect(j, n, w, c) PROVE IInv'
  <2>1. a.status = "running" /\ SetAttempt(j, n, [a EXCEPT !.marker = c])
        /\ job' = job /\ last' = last
    BY <1>4 DEF BeginExternalAttemptEffect, LiveAttempt, Owned
  <2> QED
    BY <1>0, <1>m, <2>1, OneRow DEF SetAttempt
<1>5. ASSUME NEW c \in Calls, NEW s \in Result, NEW g \in BOOLEAN,
             CompleteExternalAttemptEffect(j, n, w, c, s, g)
      PROVE  IInv'
  <2>1. a.status = "running" /\ SetAttempt(j, n, [a EXCEPT !.marker = None])
        /\ job' = job /\ last' = last
    BY <1>5 DEF CompleteExternalAttemptEffect, LiveOrCancelling, Owned
  <2> QED
    BY <1>0, <1>m, <2>1, OneRow DEF SetAttempt
<1>6. ASSUME NEW c \in Calls, NEW s \in Result, NEW g \in BOOLEAN, NEW d \in BOOLEAN,
             ApplyAttemptEffects(j, n, w, c, s, g, d)
      PROVE  IInv'
  <2>1. a.status = "running" /\ job' = job /\ last' = last
    BY <1>6 DEF ApplyAttemptEffects, LiveAttempt, Owned
  <2>2. SetAttempt(j, n, [a EXCEPT !.marker = None]) \/ attempt' = attempt
    BY <1>6, Zenon DEF ApplyAttemptEffects
  <2>3. CASE SetAttempt(j, n, [a EXCEPT !.marker = None])
    BY <1>0, <1>m, <2>1, <2>3, OneRow DEF SetAttempt
  <2>4. CASE attempt' = attempt
    BY <1>0, <2>1, <2>4, SameRows
  <2> QED
    BY <2>2, <2>3, <2>4
<1>7. ASSUME NEW c \in Calls, NEW o \in Outcome, NEW t \in BOOLEAN,
             SettleAttempt(j, n, w, o, c, t)
      PROVE  IInv'
  <2> DEFINE s == SettledStatus(a, o)
             b == [a EXCEPT !.status = s, !.cancel = SettleReason(a)]
  <2>1. /\ a.status = "running" /\ SetAttempt(j, n, b) /\ SetJob(j, s) /\ last' = last
    BY <1>7 DEF SettleAttempt, LiveOrCancelling, Owned
  <2>2. /\ s \in Settled \cup {"waiting_approval"}
        /\ SettleReason(a) \in Reasons \cup {"none"}
    BY <1>0, SettledType
  <2>3. /\ a.marker # None => s = "outcome_unknown"
        /\ SettleReason(a) = "user" => s \in {"cancelled", "outcome_unknown"}
        /\ SettleReason(a) = "deadline" => s \in {"timed_out", "outcome_unknown"}
    BY DEF SettledStatus
  <2> HIDE DEF s
  <2>4. b \in Attempt
    BY <1>0, <2>2 DEF Attempt, AttemptStatus, Settled
  <2>5. b.status = s /\ b.cancel = SettleReason(a) /\ b.marker = a.marker
    BY <1>0 DEF Attempt
  <2>6. RowSafe(b) /\ b.status # "none" /\ AggregateOf(b) = s
    BY <2>2, <2>3, <2>5 DEF RowSafe, AggregateOf, Reasons, Settled
  <2> QED
    BY <1>0, <1>j, <2>1, <2>4, <2>6, OneRow DEF SetAttempt
<1> QED
  BY <1>1, <1>2, <1>3, <1>4, <1>5, <1>6, <1>7 DEF Work

LEMMA ClockInv ==
  ASSUME IInv, NEW j \in Jobs, NEW n \in Seqs, Clock(j, n)
  PROVE  IInv'
<1> DEFINE a == attempt[j][n]
<1>0. /\ TypeOK' /\ a \in Attempt /\ RowSafe(a)
      /\ a.status \in {"queued", "running"} => n = last[j] /\ job[j] = AggregateOf(a)
  BY ClockType, ActiveIsLatest, RowsAreSafe DEF IInv, TypeOK
<1>1. PICK b \in {[a EXCEPT !.leaseLive = FALSE], [a EXCEPT !.deadlinePassed = TRUE]} :
        a.status = "running" /\ SetAttempt(j, n, b) /\ job' = job /\ last' = last
  BY DEF Clock, LeaseExpires, DeadlinePasses
<1>2. b \in Attempt /\ RowSafe(b) /\ b.status # "none" /\ AggregateOf(b) = job[j]
  BY <1>0, <1>1 DEF Attempt, RowSafe, AggregateOf
<1> QED
  BY <1>0, <1>1, <1>2, OneRow DEF SetAttempt

(* Recovery settles any number of expired turns, each the newest of its     *)
(* job; so the job it moves is always one in running or cancelling.         *)
LEMMA RecoveryInv ==
  ASSUME IInv, NEW S \in SUBSET Expired, AbandonExpiredAttempts(S)
  PROVE  IInv'
<1>0. TypeOK' /\ last' = last
  BY RecoveryType DEF IInv, AbandonExpiredAttempts
<1>1. ASSUME NEW j \in Jobs, NEW n \in Seqs
      PROVE  LET a == attempt[j][n]
                 b == attempt'[j][n]
             IN  IF <<j, n>> \in S
                   THEN /\ a.status = "running" /\ n = last[j]
                        /\ b.status = RecoveredStatus(a) /\ b.cancel = a.cancel
                        /\ b.marker = a.marker
                        /\ job[j] \in {"running", "cancelling"}
                   ELSE b = a
  <2>1. attempt[j][n] \in Attempt
    BY DEF IInv, TypeOK
  <2>2. CASE <<j, n>> \in S
    <3>1. attempt[j][n].status = "running"
      BY <2>2 DEF Expired
    <3>2. n = last[j] /\ job[j] \in {"running", "cancelling"}
      BY <3>1, ActiveIsLatest DEF AggregateOf
    <3>3. attempt'[j][n] = [attempt[j][n] EXCEPT !.status = RecoveredStatus(attempt[j][n])]
      BY <2>2 DEF AbandonExpiredAttempts
    <3> QED
      BY <2>1, <2>2, <3>1, <3>2, <3>3 DEF Attempt
  <2>3. CASE <<j, n>> \notin S
    BY <2>3 DEF AbandonExpiredAttempts
  <2> QED
    BY <2>2, <2>3
<1>2. ASSUME NEW a \in Attempt, RowSafe(a)
      PROVE  LET s == RecoveredStatus(a)
             IN  /\ s \in {"cancelled", "timed_out", "outcome_unknown"}
                 /\ a.marker # None => s = "outcome_unknown"
                 /\ a.cancel = "user" => s # "timed_out"
  BY <1>2 DEF RecoveredStatus
<1>3. \A j \in Jobs, n \in Seqs : RowSafe(attempt[j][n]) /\ attempt[j][n] \in Attempt
  BY RowsAreSafe DEF IInv, TypeOK
<1>4. ASSUME NEW j \in Jobs, NEW n \in Seqs
      PROVE  RowSafe(attempt'[j][n])
  <2>1. PICK a, b : a = attempt[j][n] /\ b = attempt'[j][n]
    OBVIOUS
  <2>2. a \in Attempt /\ RowSafe(a)
    BY <1>3, <2>1
  <2>3. CASE <<j, n>> \in S
    <3>1. b.status = RecoveredStatus(a) /\ b.cancel = a.cancel /\ b.marker = a.marker
      BY <1>1, <2>1, <2>3
    <3>2. RowSafe(b)
      BY <1>2, <2>2, <3>1 DEF RowSafe
    <3> QED
      BY <2>1, <3>2
  <2>4. CASE <<j, n>> \notin S
    BY <1>1, <2>1, <2>2, <2>4
  <2> QED
    BY <2>3, <2>4
<1>5. (CancelHonoured /\ UncertaintyKept)'
  <2>1. CancelHonoured'
    BY <1>4 DEF CancelHonoured, RowSafe
  <2>2. UncertaintyKept'
    BY <1>4 DEF UncertaintyKept, RowSafe
  <2> QED
    BY <2>1, <2>2
<1>6. Shape'
  <2> SUFFICES ASSUME NEW j \in Jobs, NEW n \in Seqs
               PROVE  attempt'[j][n].status = "none" <=> n > last[j]
    BY <1>0 DEF Shape
  <2> QED
    BY <1>1, <1>2, <1>3 DEF IInv, Shape
<1>7. AggregateAgrees'
  <2> SUFFICES ASSUME NEW j \in Jobs
               PROVE  /\ IF last[j] = 0 THEN job'[j] = "none"
                         ELSE \/ job'[j] = AggregateOf(attempt'[j][last[j]])
                              \/ StoppedBehind(j)'
                      /\ \A n \in Seqs : n < last[j] =>
                           attempt'[j][n].status \in Settled \cup {"waiting_approval"}
    BY <1>0 DEF AggregateAgrees, Latest
  <2>0. last[j] # 0 => last[j] \in Seqs
    BY DEF IInv, TypeOK, Seqs
  <2>1. \A n \in Seqs : n < last[j] =>
           attempt'[j][n].status \in Settled \cup {"waiting_approval"}
    BY <1>1, <1>2, <1>3 DEF IInv, AggregateAgrees, Settled
  <2>2. CASE \E n \in Seqs : <<j, n>> \in S
    <3>1. PICK n \in Seqs : <<j, n>> \in S
      BY <2>2
    <3>2. n = last[j] /\ (CHOOSE k \in Seqs : <<j, k>> \in S) = n
      BY <1>1, <3>1
    <3>3. job'[j] = RecoveredStatus(attempt[j][n])
      BY <1>1, <3>1, <3>2 DEF AbandonExpiredAttempts
    <3>4. attempt'[j][n].status = RecoveredStatus(attempt[j][n])
      BY <1>1, <3>1
    <3>5. RecoveredStatus(attempt[j][n]) # "running"
      BY <1>2, <1>3
    <3>6. last[j] # 0
      BY <3>2 DEF Seqs
    <3> QED
      BY <2>1, <3>2, <3>3, <3>4, <3>5, <3>6 DEF AggregateOf
  <2>3. CASE ~\E n \in Seqs : <<j, n>> \in S
    <3>1. job'[j] = job[j]
      BY <2>3 DEF AbandonExpiredAttempts
    <3>2. \A n \in Seqs : attempt'[j][n] = attempt[j][n]
      BY <1>1, <2>3
    <3> QED
      BY <1>0, <2>0, <2>1, <3>1, <3>2 DEF IInv, AggregateAgrees, StoppedBehind, Latest
  <2> QED
    BY <2>2, <2>3
<1> QED
  BY <1>0, <1>5, <1>6, <1>7 DEF IInv

LEMMA NextInv == IInv /\ [Next]_vars => IInv'
<1> SUFFICES ASSUME IInv, [Next]_vars PROVE IInv'
  OBVIOUS
<1>1. CASE Next
  BY <1>1, ProduceInv, WorkInv, ClockInv, RecoveryInv DEF Next
<1>2. CASE UNCHANGED vars
  BY <1>2 DEF vars, IInv, TypeOK, CancelHonoured, UncertaintyKept, Shape, AggregateAgrees,
     StoppedBehind, Latest
<1> QED
  BY <1>1, <1>2

LEMMA Invariant == Spec => []IInv
  BY InvInit, NextInv, PTL DEF Spec

(* A requested stop is never answered by done or failed, and a user's stop  *)
(* never by timed_out, however settlement and recovery race.                *)
THEOREM StopsAreHonoured == Spec => []CancelHonoured
<1>1. IInv => CancelHonoured
  BY DEF IInv
<1> QED
  BY <1>1, Invariant, PTL

(* A turn that ended with an external call in flight is outcome_unknown.    *)
THEOREM UncertaintyIsKept == Spec => []UncertaintyKept
<1>1. IInv => UncertaintyKept
  BY DEF IInv
<1> QED
  BY <1>1, Invariant, PTL

(* The job is what its newest attempt says, or that attempt paused behind a *)
(* stop that hit an older row; and no older attempt is in progress.         *)
THEOREM JobIsItsNewestTurn == Spec => []AggregateAgrees
<1>1. IInv => AggregateAgrees
  BY DEF IInv
<1> QED
  BY <1>1, Invariant, PTL

-----------------------------------------------------------------------------
(* JobAttempts implements JobLifecycle, and what no transaction may do to a *)
(* row or to a job.  First a step of one job.                               *)

LEMMA MoveStep ==
  ASSUME TypeOK, NEW j \in Jobs, NEW s, SetJob(j, s), NEW from, NEW to,
         job[j] \in from, s \in to
  PROVE  Lifecycle!Move(j, from, to)
  BY DEF SetJob, Lifecycle!Move

LEMMA ProduceRefines ==
  ASSUME IInv, NEW j \in Jobs, Produce(j)
  PROVE  [Lifecycle!Next]_job
<1> USE MoveStep DEF IInv
<1> DEFINE Step == \/ Lifecycle!Open(j) \/ Lifecycle!AskToStop(j) \/ Lifecycle!StopIdle(j)
                   \/ Lifecycle!Decide(j) \/ Lifecycle!Again(j)
<1>1. ASSUME NEW b \in BOOLEAN, CreateQueuedJob(j, b) PROVE Step
  BY <1>1 DEF CreateQueuedJob, Lifecycle!Open
<1>2. ASSUME NEW p \in Jobs, NEW n \in Seqs, NEW w \in Workers, CreateClaimedChild(p, n, w, j)
      PROVE  Step
  BY <1>2 DEF CreateClaimedChild, Lifecycle!Open
<1>3. ASSUME NEW b \in BOOLEAN, EnqueueContinuation(j, b) PROVE Step
  BY <1>3 DEF EnqueueContinuation, Lifecycle!Again
<1>4. ASSUME EnqueueRetry(j) PROVE Step
  BY <1>4 DEF EnqueueRetry, RetryEligible, Lifecycle!Again
<1>5. ASSUME NEW c \in Calls, NEW b \in BOOLEAN, EnqueueApprovalResume(j, c, b) PROVE Step
  BY <1>5 DEF EnqueueApprovalResume, Lifecycle!Decide
<1>6. ASSUME NEW r \in Reasons, RequestJobCancellation(j, r) PROVE Step
  <2>1. PICK n \in Seqs : \/ CancelQueued(j, n, r)
                          \/ CancelRunning(j, n, r)
                          \/ CancelWaiting(j, n, r)
    BY <1>6 DEF RequestJobCancellation
  <2>2. CASE CancelQueued(j, n, r) \/ CancelWaiting(j, n, r)
    BY <2>2 DEF CancelQueued, CancelWaiting, CancelIdle, Lifecycle!StopIdle
  <2>3. CASE CancelRunning(j, n, r)
    <3>1. job[j] = "running"
      BY <2>3, ActiveIsLatest DEF CancelRunning, AggregateOf
    <3> QED
      BY <2>3, <3>1 DEF CancelRunning, BeginCancel, Lifecycle!AskToStop
  <2> QED
    BY <2>1, <2>2, <2>3
<1>7. Step
  BY <1>1, <1>2, <1>3, <1>4, <1>5, <1>6 DEF Produce
<1> QED
  BY <1>7 DEF Lifecycle!Next

LEMMA WorkRefines ==
  ASSUME IInv, NEW j \in Jobs, NEW n \in Seqs, NEW w \in Workers, Work(j, n, w)
  PROVE  [Lifecycle!Next]_job
<1> USE MoveStep DEF IInv
<1> DEFINE a == attempt[j][n]
           Step == \/ Lifecycle!Start(j) \/ Lifecycle!Return(j) \/ Lifecycle!Finish(j)
                   \/ Lifecycle!AskToStop(j) \/ Lifecycle!Stop(j) \/ job' = job
<1>0. /\ a \in Attempt
      /\ a.status \in {"queued", "running"} => n = last[j] /\ job[j] = AggregateOf(a)
  BY ActiveIsLatest DEF TypeOK
<1>1. ASSUME ClaimAttempt(j, n, w) PROVE Step
  BY <1>1 DEF ClaimAttempt, Lifecycle!Start
<1>2. ASSUME HeartbeatAttemptControl(j, n, w) PROVE Step
  <2>1. job[j] = "running"
    BY <1>0, <1>2 DEF HeartbeatAttemptControl, Owned, AggregateOf
  <2> QED
    BY <1>2, <2>1 DEF HeartbeatAttemptControl, BeginCancel, Lifecycle!AskToStop
<1>3. ASSUME ReleaseUnstartedAttempt(j, n, w) PROVE Step
  BY <1>3 DEF ReleaseUnstartedAttempt, Lifecycle!Return
<1>4. ASSUME NEW c \in Calls,
             \/ BeginExternalAttemptEffect(j, n, w, c)
             \/ \E s \in Result, g \in BOOLEAN :
                  \/ CompleteExternalAttemptEffect(j, n, w, c, s, g)
                  \/ \E d \in BOOLEAN : ApplyAttemptEffects(j, n, w, c, s, g, d)
      PROVE  Step
  BY <1>4 DEF BeginExternalAttemptEffect, CompleteExternalAttemptEffect, ApplyAttemptEffects
<1>5. ASSUME NEW c \in Calls, NEW o \in Outcome, NEW t \in BOOLEAN,
             SettleAttempt(j, n, w, o, c, t)
      PROVE  Step
  <2> DEFINE s == SettledStatus(a, o)
  <2>1. a.status = "running" /\ SetJob(j, s)
    BY <1>5 DEF SettleAttempt, LiveOrCancelling, Owned
  <2>2. CASE a.cancel = "none"
    <3>1. job[j] = "running"
      BY <1>0, <2>1, <2>2 DEF AggregateOf
    <3>2. s \in {"done", "failed", "waiting_approval", "timed_out", "outcome_unknown"}
      BY <2>2 DEF SettledStatus, SettleReason, Outcome
    <3> HIDE DEF s
    <3> QED
      BY <2>1, <3>1, <3>2 DEF Lifecycle!Finish
  <2>3. CASE a.cancel # "none"
    <3>1. job[j] = "cancelling"
      BY <1>0, <2>1, <2>3 DEF AggregateOf
    <3>2. s \in {"cancelled", "timed_out", "outcome_unknown"}
      BY <1>0, <2>3 DEF SettledStatus, SettleReason, Attempt, Reasons
    <3> HIDE DEF s
    <3> QED
      BY <2>1, <3>1, <3>2 DEF Lifecycle!Stop
  <2> QED
    BY <2>2, <2>3
<1>6. Step
  BY <1>1, <1>2, <1>3, <1>4, <1>5 DEF Work
<1> QED
  BY <1>6 DEF Lifecycle!Next

LEMMA RecoveryRefines ==
  ASSUME IInv, NEW S \in SUBSET Expired, AbandonExpiredAttempts(S)
  PROVE  Lifecycle!Next
<1> DEFINE R  == {j \in Jobs : \E n \in Seqs : <<j, n>> \in S}
           to == [j \in R |-> RecoveredStatus(attempt[j][last[j]])]
<1>1. ASSUME NEW j \in R
      PROVE  /\ last[j] \in Seqs /\ <<j, last[j]>> \in S
             /\ \A n \in Seqs : <<j, n>> \in S => n = last[j]
             /\ attempt[j][last[j]].status = "running"
             /\ job[j] = AggregateOf(attempt[j][last[j]])
  <2>1. PICK n \in Seqs : <<j, n>> \in S
    OBVIOUS
  <2>2. ASSUME NEW m \in Seqs, <<j, m>> \in S
        PROVE  m = last[j] /\ attempt[j][m].status = "running" /\ job[j] = AggregateOf(attempt[j][m])
    <3>1. attempt[j][m].status = "running"
      BY <2>2 DEF Expired
    <3> QED
      BY <3>1, ActiveIsLatest
  <2> QED
    BY <2>1, <2>2
<1>2. ASSUME NEW j \in R PROVE job[j] \in {"running", "cancelling"}
  BY <1>1 DEF AggregateOf
<1>3. ASSUME NEW j \in R
      PROVE  /\ to[j] \in {"cancelled", "timed_out", "outcome_unknown"}
             /\ to[j] = "cancelled" => job[j] = "cancelling"
  <2> DEFINE a == attempt[j][last[j]]
  <2>1. to[j] = RecoveredStatus(a)
    OBVIOUS
  <2>2. /\ RecoveredStatus(a) \in {"cancelled", "timed_out", "outcome_unknown"}
        /\ RecoveredStatus(a) = "cancelled" => a.cancel = "user"
    BY DEF RecoveredStatus
  <2>3. a.cancel = "user" => job[j] = "cancelling"
    BY <1>1 DEF AggregateOf
  <2> QED
    BY <2>1, <2>2, <2>3
<1>4. R # {}
  <2>1. PICK x \in Expired : x \in S
    BY DEF AbandonExpiredAttempts
  <2>2. x[1] \in Jobs /\ x[2] \in Seqs /\ x = <<x[1], x[2]>>
    BY DEF Expired
  <2> QED
    BY <2>1, <2>2
<1>5. job' = [j \in Jobs |-> IF j \in R THEN to[j] ELSE job[j]]
  <2>1. ASSUME NEW j \in R PROVE (CHOOSE n \in Seqs : <<j, n>> \in S) = last[j]
    BY <1>1
  <2> QED
    BY <1>2, <2>1 DEF AbandonExpiredAttempts
<1>6. to \in [R -> {"cancelled", "timed_out", "outcome_unknown"}]
  BY <1>3
<1> HIDE DEF to
<1>7. Lifecycle!Recover(R)
  BY <1>2, <1>3, <1>4, <1>5, <1>6 DEF Lifecycle!Recover
<1> QED
  BY <1>7 DEF Lifecycle!Next

LEMMA StepRefines == IInv /\ [Next]_vars => [Lifecycle!Next]_job
<1> SUFFICES ASSUME IInv, [Next]_vars PROVE [Lifecycle!Next]_job
  OBVIOUS
<1>1. CASE Next
  <2>1. ASSUME NEW j \in Jobs, NEW n \in Seqs, Clock(j, n) PROVE job' = job
    BY <2>1 DEF Clock, LeaseExpires, DeadlinePasses
  <2> QED
    BY <1>1, <2>1, ProduceRefines, WorkRefines, RecoveryRefines DEF Next
<1>2. CASE UNCHANGED vars
  BY <1>2 DEF vars
<1> QED
  BY <1>1, <1>2

(* The job row only makes the moves the owner was promised: no crash, lost  *)
(* lease, retry or race takes a job from a status to one outside            *)
(* JobLifecycle.                                                            *)
THEOREM LifecycleIsImplemented == Spec => ImplementsLifecycle
<1>1. Init => Lifecycle!Init
  BY DEF Init, Lifecycle!Init
<1> QED
  BY <1>1, StepRefines, Invariant, PTL DEF Spec, ImplementsLifecycle, Lifecycle!Safety

-----------------------------------------------------------------------------
(* What a step may do to one row: a settled row is left alone and a reason  *)
(* to stop is never replaced.                                               *)

RowKept(a, b) ==
  /\ a.status \in Settled => b = a
  /\ a.cancel # "none" => b.cancel = a.cancel

RowsKept == \A j \in Jobs, n \in Seqs : RowKept(attempt[j][n], attempt'[j][n])

LEMMA OneRowKept ==
  ASSUME TypeOK, NEW j \in Jobs, NEW n \in Seqs, NEW b, SetAttempt(j, n, b),
         RowKept(attempt[j][n], b)
  PROVE  RowsKept
  BY DEF TypeOK, SetAttempt, RowsKept, RowKept

LEMMA NewRowKept ==
  ASSUME IInv, NEW j \in Jobs, NEW b, InsertAttempt(j, b)
  PROVE  RowsKept
<1>1. last[j] + 1 \in Seqs /\ last[j] + 1 > last[j]
  <2>1. last[j] \in 0 .. MaxAttempts
    BY DEF IInv, TypeOK
  <2>2. last[j] < MaxAttempts
    BY DEF InsertAttempt
  <2> QED
    BY <2>1, <2>2, SeqsFact DEF Seqs
<1>2. attempt[j][last[j] + 1].status = "none"
  BY <1>1 DEF IInv, Shape
<1>3. RowSafe(attempt[j][last[j] + 1])
  BY <1>1, RowsAreSafe DEF IInv
<1>4. RowKept(attempt[j][last[j] + 1], b)
  BY <1>2, <1>3 DEF RowKept, RowSafe, Settled
<1>5. SetAttempt(j, last[j] + 1, b)
  BY DEF InsertAttempt, SetAttempt
<1> QED
  BY <1>1, <1>4, <1>5, OneRowKept DEF IInv

LEMMA ProduceKeeps ==
  ASSUME IInv, NEW j \in Jobs, Produce(j)
  PROVE  RowsKept
<1>1. ASSUME NEW b \in BOOLEAN,
             \/ CreateQueuedJob(j, b)
             \/ \E p \in Jobs, n \in Seqs, w \in Workers : CreateClaimedChild(p, n, w, j)
             \/ EnqueueContinuation(j, b)
             \/ EnqueueRetry(j)
             \/ \E c \in Calls : EnqueueApprovalResume(j, c, b)
      PROVE  RowsKept
  BY <1>1, NewRowKept DEF CreateQueuedJob, CreateClaimedChild, EnqueueContinuation,
     EnqueueRetry, EnqueueApprovalResume
<1>2. ASSUME NEW r \in Reasons, RequestJobCancellation(j, r) PROVE RowsKept
  <2>1. PICK n \in Seqs : \/ CancelQueued(j, n, r)
                          \/ CancelRunning(j, n, r)
                          \/ CancelWaiting(j, n, r)
    BY <1>2 DEF RequestJobCancellation
  <2> DEFINE a == attempt[j][n]
  <2>2. a \in Attempt /\ RowSafe(a)
    BY RowsAreSafe DEF IInv, TypeOK
  <2>3. CASE CancelQueued(j, n, r) \/ CancelWaiting(j, n, r)
    <3>1. /\ a.status \in {"queued", "waiting_approval"}
          /\ SetAttempt(j, n, [a EXCEPT !.status = "cancelled", !.cancel = r])
      BY <2>3 DEF CancelQueued, CancelWaiting, CancelIdle
    <3> QED
      BY <2>2, <3>1, OneRowKept DEF IInv, RowKept, RowSafe, Settled
  <2>4. CASE CancelRunning(j, n, r)
    <3>1. /\ a.status = "running" /\ a.cancel = "none"
          /\ SetAttempt(j, n, [a EXCEPT !.cancel = r, !.leaseLive = TRUE])
      BY <2>4 DEF CancelRunning, BeginCancel
    <3> QED
      BY <3>1, OneRowKept DEF IInv, RowKept, Settled
  <2> QED
    BY <2>1, <2>3, <2>4
<1> QED
  BY <1>1, <1>2 DEF Produce

LEMMA WorkKeeps ==
  ASSUME IInv, NEW j \in Jobs, NEW n \in Seqs, NEW w \in Workers, Work(j, n, w)
  PROVE  RowsKept
<1> DEFINE a == attempt[j][n]
<1>0. a \in Attempt /\ RowSafe(a) /\ TypeOK
  BY RowsAreSafe DEF IInv, TypeOK
<1>1. ASSUME ClaimAttempt(j, n, w) PROVE RowsKept
  <2>1. RowKept(a, Running(a, w))
    BY <1>0, <1>1 DEF ClaimAttempt, RowKept, RowSafe, Settled
  <2> QED
    BY <1>0, <1>1, <2>1, OneRowKept DEF ClaimAttempt
<1>2. ASSUME HeartbeatAttemptControl(j, n, w) PROVE RowsKept
  <2>1. /\ a.status = "running" /\ a.cancel = "none"
        /\ SetAttempt(j, n, [a EXCEPT !.cancel = "deadline", !.leaseLive = TRUE])
    BY <1>2 DEF HeartbeatAttemptControl, Owned, BeginCancel
  <2> QED
    BY <1>0, <2>1, OneRowKept DEF RowKept, Settled
<1>3. ASSUME ReleaseUnstartedAttempt(j, n, w) PROVE RowsKept
  <2>1. a.status = "running" /\ SetAttempt(j, n, QueuedAttempt(a.input, a.notify))
    BY <1>3 DEF ReleaseUnstartedAttempt, Owned
  <2>2. a.cancel = "none"
    BY <1>3, <2>1, ActiveIsLatest DEF ReleaseUnstartedAttempt, AggregateOf
  <2> QED
    BY <1>0, <2>1, <2>2, OneRowKept DEF RowKept, Settled
<1>m. ASSUME NEW m, a.status = "running", SetAttempt(j, n, [a EXCEPT !.marker = m])
      PROVE  RowsKept
  BY <1>0, <1>m, OneRowKept DEF RowKept, Settled, Attempt
<1>4. ASSUME NEW c \in Calls, BeginExternalAttemptEffect(j, n, w, c) PROVE RowsKept
  BY <1>4, <1>m DEF BeginExternalAttemptEffect, LiveAttempt, Owned
<1>5. ASSUME NEW c \in Calls, NEW s \in Result, NEW g \in BOOLEAN,
             CompleteExternalAttemptEffect(j, n, w, c, s, g)
      PROVE  RowsKept
  BY <1>5, <1>m DEF CompleteExternalAttemptEffect, LiveOrCancelling, Owned
<1>6. ASSUME NEW c \in Calls, NEW s \in Result, NEW g \in BOOLEAN, NEW d \in BOOLEAN,
             ApplyAttemptEffects(j, n, w, c, s, g, d)
      PROVE  RowsKept
  <2>1. a.status = "running"
    BY <1>6 DEF ApplyAttemptEffects, LiveAttempt, Owned
  <2>2. SetAttempt(j, n, [a EXCEPT !.marker = None]) \/ attempt' = attempt
    BY <1>6, Zenon DEF ApplyAttemptEffects
  <2> QED
    BY <1>m, <2>1, <2>2 DEF RowsKept, RowKept
<1>7. ASSUME NEW c \in Calls, NEW o \in Outcome, NEW t \in BOOLEAN,
             SettleAttempt(j, n, w, o, c, t)
      PROVE  RowsKept
  <2>1. a.status = "running"
        /\ SetAttempt(j, n, [a EXCEPT !.status = SettledStatus(a, o), !.cancel = SettleReason(a)])
    BY <1>7 DEF SettleAttempt, LiveOrCancelling, Owned
  <2>2. a.cancel # "none" => SettleReason(a) = a.cancel
    BY DEF SettleReason
  <2> QED
    BY <1>0, <2>1, <2>2, OneRowKept DEF RowKept, Settled, Attempt
<1> QED
  BY <1>1, <1>2, <1>3, <1>4, <1>5, <1>6, <1>7 DEF Work

LEMMA StepKeeps == IInv /\ [Next]_vars => RowsKept
<1> SUFFICES ASSUME IInv, [Next]_vars PROVE RowsKept
  OBVIOUS
<1>1. ASSUME NEW j \in Jobs, NEW n \in Seqs, Clock(j, n) PROVE RowsKept
  <2>1. PICK b \in {[attempt[j][n] EXCEPT !.leaseLive = FALSE],
                    [attempt[j][n] EXCEPT !.deadlinePassed = TRUE]} :
          attempt[j][n].status = "running" /\ SetAttempt(j, n, b)
    BY <1>1 DEF Clock, LeaseExpires, DeadlinePasses
  <2>2. TypeOK /\ attempt[j][n] \in Attempt
    BY DEF IInv, TypeOK
  <2>3. RowKept(attempt[j][n], b)
    BY <2>1, <2>2 DEF Attempt, RowKept, Settled
  <2> QED
    BY <2>1, <2>2, <2>3, OneRowKept
<1>2. ASSUME NEW S \in SUBSET Expired, AbandonExpiredAttempts(S) PROVE RowsKept
  <2> SUFFICES ASSUME NEW j \in Jobs, NEW n \in Seqs
               PROVE  RowKept(attempt[j][n], attempt'[j][n])
    BY DEF RowsKept
  <2>1. attempt[j][n] \in Attempt
    BY DEF IInv, TypeOK
  <2>2. CASE <<j, n>> \in S
    <3>1. attempt[j][n].status = "running"
      BY <2>2 DEF Expired
    <3>2. attempt'[j][n] = [attempt[j][n] EXCEPT !.status = RecoveredStatus(attempt[j][n])]
      BY <1>2, <2>2 DEF AbandonExpiredAttempts
    <3> QED
      BY <2>1, <3>1, <3>2 DEF RowKept, Settled, Attempt
  <2>3. CASE <<j, n>> \notin S
    BY <1>2, <2>3 DEF AbandonExpiredAttempts, RowKept
  <2> QED
    BY <2>2, <2>3
<1>3. CASE Next
  BY <1>1, <1>2, <1>3, ProduceKeeps, WorkKeeps DEF Next
<1>4. CASE UNCHANGED vars
  BY <1>4 DEF vars, RowsKept, RowKept
<1> QED
  BY <1>3, <1>4

LEMMA UnknownIsKept ==
  ASSUME [Lifecycle!Next]_job, NEW j \in Jobs, job[j] = "outcome_unknown"
  PROVE  job'[j] = "outcome_unknown"
<1>1. ASSUME NEW k \in Jobs, NEW from, NEW to, Lifecycle!Move(k, from, to),
             "outcome_unknown" \notin from
      PROVE  job'[j] = job[j]
  BY <1>1 DEF Lifecycle!Move
<1>2. ASSUME NEW S \in SUBSET Jobs, Lifecycle!Recover(S)
      PROVE  job'[j] = job[j]
  BY <1>2 DEF Lifecycle!Recover
<1> QED
  BY <1>1, <1>2 DEF Lifecycle!Next, Lifecycle!Open, Lifecycle!Start, Lifecycle!Return,
     Lifecycle!Finish, Lifecycle!AskToStop, Lifecycle!Stop, Lifecycle!StopIdle,
     Lifecycle!Decide, Lifecycle!Again

(* A turn that ended never changes again, whatever a worker that lost it or *)
(* the recovery loop still tries, and an unknown outcome stays unknown.     *)
THEOREM EndedTurnsAreFinal == Spec => SettledIsFinal
<1>1. IInv /\ [Next]_vars =>
        [\A j \in Jobs :
           /\ job[j] = "outcome_unknown" => job'[j] = "outcome_unknown"
           /\ \A n \in Seqs :
                attempt[j][n].status \in Settled => attempt'[j][n] = attempt[j][n]]_vars
  BY StepKeeps, StepRefines, UnknownIsKept DEF RowsKept, RowKept
<1> QED
  BY <1>1, Invariant, PTL DEF Spec, SettledIsFinal

(* The first request to stop keeps its reason to the end.                   *)
THEOREM FirstStopDecides == Spec => FirstCancelWins
<1>1. IInv /\ [Next]_vars =>
        [\A j \in Jobs, n \in Seqs :
           attempt[j][n].cancel # "none" => attempt'[j][n].cancel = attempt[j][n].cancel]_vars
  BY StepKeeps DEF RowsKept, RowKept
<1> QED
  BY <1>1, Invariant, PTL DEF Spec, FirstCancelWins

-----------------------------------------------------------------------------
(* What a turn leaves behind: its approval request, its notices and its     *)
(* text.  Every transaction, recovery's included, does to each job at most  *)
(* one thing: it moves one row (or appends one) and writes the             *)
(* records that go with that move.  JobTurn says what such a move may be;   *)
(* the invariants and the action properties follow from it job by job.      *)

HIDE ConstantsAssumption

(* A row that no transaction inserted yet carries no input.                 *)
Unused == \A j \in Jobs, n \in Seqs :
            attempt[j][n].status = "none" => attempt[j][n].input = "none"

RInv ==
  /\ IInv /\ Unused
  /\ OnePendingApproval
  /\ NoticesTellTheOutcome
  /\ TranscriptOnlyFromStandingTurns

SameJob(j) ==
  /\ job'[j] = job[j] /\ last'[j] = last[j] /\ attempt'[j] = attempt[j]
  /\ call'[j] = call[j] /\ notice'[j] = notice[j] /\ message'[j] = message[j]

\* What a status of a tool row may become.
MayBecome(old, new) ==
  old # new =>
    CASE old = "none"             -> new \in Result \cup {"pending_approval"}
      [] old = "pending_approval" -> new \in {"approved", "rejected", "cancelled"}
      [] old = "approved"         -> new \in Result
      [] OTHER                    -> FALSE

\* The row a transaction moved, before and after it: the newest of its job, or
\* a paused one that a stop ends.
RowTurn(j, n) ==
  LET a == attempt[j][n]
      b == attempt'[j][n]
  IN  /\ \A m \in Seqs : m # n => attempt'[j][m] = attempt[j][m]
      /\ job'[j] = AggregateOf(b)
      /\ IF n <= last[j]
           THEN /\ last'[j] = last[j] /\ b.input = a.input /\ b.notify = a.notify
                /\ \/ n = last[j] /\ a.status \in {"queued", "running"}
                   \/ /\ a.status = "waiting_approval"
                      /\ b.status = "cancelled" /\ b.cancel # "none"
           ELSE /\ n = last[j] + 1 /\ last'[j] = n
                /\ b.status \in {"queued", "running"}
                /\ b.input = "approval_resume" =>
                     n > 1 /\ attempt[j][n - 1].status = "waiting_approval"

NoticeTurn(j, n) ==
  LET a == attempt[j][n]
      b == attempt'[j][n]
  IN  notice'[j] = notice[j] \cup
        IF b.status = "waiting_approval" \/ (b.notify /\ b.status \in Settled)
          THEN {[attempt |-> n, status |-> b.status]}
          ELSE {}

MessageTurn(j, n) ==
  \/ message'[j] = message[j]
  \/ message'[j] = message[j] \cup {[attempt |-> n, role |-> "user"]}
  \/ /\ message'[j] = message[j] \cup {[attempt |-> n, role |-> "assistant"]}
     /\ attempt'[j][n].status \in {"done", "waiting_approval"}

CallTurn(j, n) ==
  /\ \A c \in Calls : MayBecome(call[j][c].status, call'[j][c].status)
  /\ IF attempt'[j][n].status = "waiting_approval"
       THEN \E c \in Calls : PendingCalls(j)' = {c} /\ call'[j][c].attempt = n
       ELSE PendingCalls(j)' = {}
  /\ \A c \in Calls : job[j] = "cancelling" /\ call'[j][c] # call[j][c] =>
       attempt[j][last[j]].marker = c /\ attempt'[j][last[j]].marker = None

JobTurn(j) ==
  \E n \in Seqs : RowTurn(j, n) /\ NoticeTurn(j, n) /\ MessageTurn(j, n) /\ CallTurn(j, n)

-----------------------------------------------------------------------------
(* What follows for one job from such a move.                               *)

LEMMA RecordsInit == Init => RInv
<1> SUFFICES ASSUME Init PROVE RInv
  OBVIOUS
<1>1. IInv
  BY InvInit
<1>2. /\ \A j \in Jobs, n \in Seqs : attempt[j][n] = NoAttempt
      /\ \A j \in Jobs : job[j] = "none" /\ notice[j] = {} /\ message[j] = {}
      /\ \A j \in Jobs, c \in Calls : call[j][c].status = "none"
  BY DEF Init
<1>3. NoAttempt.status = "none" /\ NoAttempt.input = "none"
  BY DEF NoAttempt
<1>4. Unused
  BY <1>2, <1>3 DEF Unused
<1>5. OnePendingApproval
  BY <1>2, <1>3 DEF OnePendingApproval, PendingCalls, AskedBefore
<1>6. NoticesTellTheOutcome
  BY <1>2, <1>3 DEF NoticesTellTheOutcome, OutcomeNotices, Settled
<1>7. TranscriptOnlyFromStandingTurns
  BY <1>2 DEF TranscriptOnlyFromStandingTurns
<1> QED
  BY <1>1, <1>4, <1>5, <1>6, <1>7 DEF RInv

(* The row that moved, with what the invariants say of it before.           *)
LEMMA TurnFacts ==
  ASSUME RInv, IInv', NEW j \in Jobs, NEW n \in Seqs, RowTurn(j, n)
  PROVE  /\ attempt[j][n].status \in {"none", "queued", "running", "waiting_approval"}
         /\ attempt[j][n].status = "waiting_approval" =>
              attempt'[j][n].status = "cancelled" /\ attempt'[j][n].cancel # "none"
         /\ attempt[j][n].status # "none" => attempt'[j][n].input = attempt[j][n].input
         /\ attempt'[j][n].status # "none"
         /\ attempt'[j][n].status # "cancelled" => n = last'[j]
         /\ \A m \in Seqs : m > last'[j] => attempt'[j][m].status = "none"
<1>1. last[j] \in Nat /\ n \in Nat
  BY DEF RInv, IInv, TypeOK, Seqs
<1>2. \A m \in Seqs : attempt'[j][m].status = "none" <=> m > last'[j]
  BY DEF IInv, Shape
<1>3. CASE n <= last[j]
  <2>1. attempt[j][n].status # "none" /\ ~(n > last[j])
    BY <1>1, <1>3 DEF RInv, IInv, Shape
  <2>2. last'[j] = last[j]
    BY <1>3 DEF RowTurn
  <2> QED
    BY <1>2, <1>3, <2>1, <2>2 DEF RowTurn
<1>4. CASE ~(n <= last[j])
  <2>1. n > last[j] /\ n = last'[j] /\ ~(n > n)
    BY <1>1, <1>4 DEF RowTurn
  <2>2. attempt[j][n].status = "none"
    BY <2>1 DEF RInv, IInv, Shape
  <2> QED
    BY <1>2, <2>1, <2>2
<1> QED
  BY <1>3, <1>4

LEMMA UnusedKept ==
  ASSUME RInv, IInv', NEW j \in Jobs, SameJob(j) \/ JobTurn(j), NEW m \in Seqs,
         attempt'[j][m].status = "none"
  PROVE  attempt'[j][m].input = "none"
<1>1. CASE SameJob(j)
  BY <1>1 DEF SameJob, RInv, Unused
<1>2. ASSUME NEW n \in Seqs, RowTurn(j, n) PROVE attempt'[j][m].input = "none"
  <2>1. m # n
    BY <1>2, TurnFacts
  <2> QED
    BY <1>2, <2>1 DEF RowTurn, RInv, Unused
<1> QED
  BY <1>1, <1>2 DEF JobTurn

LEMMA ApprovalKept ==
  ASSUME RInv, IInv', NEW j \in Jobs, SameJob(j) \/ JobTurn(j)
  PROVE  /\ IF job'[j] = "waiting_approval"
              THEN \E c \in Calls : PendingCalls(j)' = {c} /\ call'[j][c].attempt = last'[j]
              ELSE PendingCalls(j)' = {}
         /\ \A m \in Seqs : attempt'[j][m].input = "approval_resume" =>
              m > 1 /\ AskedBefore(j, m)'
<1>1. CASE SameJob(j)
  BY <1>1 DEF SameJob, RInv, OnePendingApproval, PendingCalls, AskedBefore
<1>2. ASSUME NEW n \in Seqs, RowTurn(j, n), NoticeTurn(j, n), CallTurn(j, n)
      PROVE  /\ IF job'[j] = "waiting_approval"
                  THEN \E c \in Calls : PendingCalls(j)' = {c} /\ call'[j][c].attempt = last'[j]
                  ELSE PendingCalls(j)' = {}
             /\ \A m \in Seqs : attempt'[j][m].input = "approval_resume" =>
                  m > 1 /\ AskedBefore(j, m)'
  <2>1. /\ job'[j] = "waiting_approval" <=> attempt'[j][n].status = "waiting_approval"
        /\ attempt'[j][n].status = "waiting_approval" => n = last'[j]
    BY <1>2, TurnFacts DEF AggregateOf, RowTurn
  <2>2. IF job'[j] = "waiting_approval"
          THEN \E c \in Calls : PendingCalls(j)' = {c} /\ call'[j][c].attempt = last'[j]
          ELSE PendingCalls(j)' = {}
    BY <1>2, <2>1 DEF CallTurn
  <2>3. ASSUME NEW m \in Seqs, attempt'[j][m].input = "approval_resume"
        PROVE  m > 1 /\ AskedBefore(j, m)'
    <3>1. /\ m \in Nat /\ n \in Nat /\ last[j] \in Nat /\ (m > 1 => m - 1 \in Seqs)
      BY ConstantsAssumption DEF Seqs, RInv, IInv, TypeOK
    <3>2. notice[j] \subseteq notice'[j]
      BY <1>2 DEF NoticeTurn
    <3>3. m > 1 /\ AskedBefore(j, m)
      <4>1. CASE m # n \/ n <= last[j]
        <5>1. attempt[j][m].input = "approval_resume"
          BY <1>2, <2>3, <4>1 DEF RowTurn
        <5> QED
          BY <5>1 DEF RInv, OnePendingApproval, AskedBefore
      <4>2. CASE m = n /\ ~(n <= last[j])
        BY <1>2, <2>3, <4>2 DEF RowTurn, AskedBefore
      <4> QED
        BY <4>1, <4>2
    <3>4. CASE m - 1 # n
      <4>1. attempt'[j][m - 1] = attempt[j][m - 1]
        BY <1>2, <3>1, <3>3, <3>4 DEF RowTurn
      <4> QED
        BY <3>2, <3>3, <4>1 DEF AskedBefore
    <3>5. CASE m - 1 = n
      <4>1. attempt[j][n].status = "waiting_approval"
        BY <1>2, <3>3, <3>5, TurnFacts DEF AskedBefore
      <4>2. attempt'[j][n].status = "cancelled" /\ attempt'[j][n].cancel # "none"
        BY <1>2, <4>1, TurnFacts
      <4>3. [attempt |-> n, status |-> "waiting_approval"] \in notice[j]
        BY <4>1 DEF RInv, NoticesTellTheOutcome
      <4> QED
        BY <3>2, <3>3, <3>5, <4>2, <4>3 DEF AskedBefore
    <3> QED
      BY <3>4, <3>5
  <2> QED
    BY <2>2, <2>3
<1> QED
  BY <1>1, <1>2 DEF JobTurn

LEMMA NoticesKept ==
  ASSUME RInv, IInv', NEW j \in Jobs, SameJob(j) \/ JobTurn(j), NEW m \in Seqs
  PROVE  /\ OutcomeNotices(j, m)' =
              IF attempt'[j][m].notify /\ attempt'[j][m].status \in Settled
                THEN {[attempt |-> m, status |-> attempt'[j][m].status]}
                ELSE {}
         /\ attempt'[j][m].status = "waiting_approval" =>
              [attempt |-> m, status |-> "waiting_approval"] \in notice'[j]
<1> DEFINE Told(b) == IF b.notify /\ b.status \in Settled
                        THEN {[attempt |-> m, status |-> b.status]} ELSE {}
           Goal == /\ OutcomeNotices(j, m)' = Told(attempt'[j][m])
                   /\ attempt'[j][m].status = "waiting_approval" =>
                        [attempt |-> m, status |-> "waiting_approval"] \in notice'[j]
<1>0. /\ OutcomeNotices(j, m) = Told(attempt[j][m])
      /\ attempt[j][m].status = "waiting_approval" =>
           [attempt |-> m, status |-> "waiting_approval"] \in notice[j]
  BY DEF RInv, NoticesTellTheOutcome
<1>1. CASE SameJob(j)
  <2>1. attempt'[j][m] = attempt[j][m] /\ notice'[j] = notice[j]
    BY <1>1 DEF SameJob
  <2>2. OutcomeNotices(j, m)' = OutcomeNotices(j, m)
    BY <2>1 DEF OutcomeNotices
  <2> QED
    BY <1>0, <2>1, <2>2
<1>2. ASSUME NEW n \in Seqs, RowTurn(j, n), NoticeTurn(j, n) PROVE Goal
  <2> DEFINE b == attempt'[j][n]
             new == {[attempt |-> n, status |-> b.status]}
  <2>1. CASE m # n
    <3>1. attempt'[j][m] = attempt[j][m]
      BY <1>2, <2>1 DEF RowTurn
    <3>2. OutcomeNotices(j, m)' = OutcomeNotices(j, m) /\ notice[j] \subseteq notice'[j]
      BY <1>2, <2>1 DEF NoticeTurn, OutcomeNotices
    <3> QED
      BY <1>0, <3>1, <3>2
  <2>2. CASE m = n
    <3>1. OutcomeNotices(j, n) = {}
      BY <1>0, <1>2, <2>2, TurnFacts DEF Settled
    <3>2. CASE b.status = "waiting_approval"
      <4>1. notice'[j] = notice[j] \cup new
        BY <1>2, <3>2 DEF NoticeTurn
      <4>2. OutcomeNotices(j, n)' = {}
        BY <3>1, <3>2, <4>1 DEF OutcomeNotices
      <4> QED
        BY <2>2, <3>2, <4>1, <4>2 DEF Settled
    <3>3. CASE b.notify /\ b.status \in Settled
      <4>1. notice'[j] = notice[j] \cup new
        BY <1>2, <3>3 DEF NoticeTurn
      <4>2. OutcomeNotices(j, n)' = new
        BY <3>1, <3>3, <4>1 DEF OutcomeNotices, Settled
      <4> QED
        BY <2>2, <3>3, <4>1, <4>2 DEF Settled
    <3>4. CASE b.status # "waiting_approval" /\ ~(b.notify /\ b.status \in Settled)
      <4>1. notice'[j] = notice[j]
        BY <1>2, <3>4 DEF NoticeTurn
      <4>2. OutcomeNotices(j, n)' = {}
        BY <3>1, <4>1 DEF OutcomeNotices
      <4> QED
        BY <2>2, <3>4, <4>2
    <3> QED
      BY <3>2, <3>3, <3>4
  <2> QED
    BY <2>1, <2>2
<1>3. Goal
  BY <1>1, <1>2 DEF JobTurn
<1> QED
  BY <1>3

LEMMA TranscriptKept ==
  ASSUME RInv, IInv', NEW j \in Jobs, SameJob(j) \/ JobTurn(j),
         NEW m \in message'[j], m.role = "assistant"
  PROVE  \/ attempt'[j][m.attempt].status \in {"done", "waiting_approval"}
         \/ /\ attempt'[j][m.attempt].status = "cancelled"
            /\ [attempt |-> m.attempt, status |-> "waiting_approval"] \in notice'[j]
<1> DEFINE k == m.attempt
           Goal == \/ attempt'[j][k].status \in {"done", "waiting_approval"}
                   \/ /\ attempt'[j][k].status = "cancelled"
                      /\ [attempt |-> k, status |-> "waiting_approval"] \in notice'[j]
<1>0. k \in Seqs
  BY DEF IInv, TypeOK, Message
<1>1. ASSUME m \in message[j]
      PROVE  \/ attempt[j][k].status \in {"done", "waiting_approval"}
             \/ /\ attempt[j][k].status = "cancelled"
                /\ [attempt |-> k, status |-> "waiting_approval"] \in notice[j]
  BY <1>1 DEF RInv, TranscriptOnlyFromStandingTurns
<1>2. CASE SameJob(j)
  BY <1>1, <1>2 DEF SameJob
<1>3. ASSUME NEW n \in Seqs, RowTurn(j, n), NoticeTurn(j, n), MessageTurn(j, n) PROVE Goal
  <2>0. notice[j] \subseteq notice'[j]
    BY <1>3 DEF NoticeTurn
  <2>1. CASE m \in message[j] /\ k # n
    <3>1. attempt'[j][k] = attempt[j][k]
      BY <1>0, <1>3, <2>1 DEF RowTurn
    <3> QED
      BY <1>1, <2>0, <2>1, <3>1
  <2>2. CASE m \in message[j] /\ k = n
    <3>1. attempt[j][n].status = "waiting_approval"
      BY <1>1, <1>3, <2>2, TurnFacts
    <3>2. attempt'[j][n].status = "cancelled"
      BY <1>3, <3>1, TurnFacts
    <3>3. [attempt |-> n, status |-> "waiting_approval"] \in notice[j]
      BY <3>1 DEF RInv, NoticesTellTheOutcome
    <3> QED
      BY <2>0, <2>2, <3>2, <3>3
  <2>3. CASE m \notin message[j]
    BY <1>3, <2>3 DEF MessageTurn
  <2> QED
    BY <2>1, <2>2, <2>3
<1>4. Goal
  BY <1>2, <1>3 DEF JobTurn
<1> QED
  BY <1>4

LEMMA TurnsKeep ==
  ASSUME RInv, IInv', \A j \in Jobs : SameJob(j) \/ JobTurn(j)
  PROVE  RInv'
<1>1. Unused'
  BY UnusedKept DEF Unused
<1>2. OnePendingApproval'
  BY ApprovalKept DEF OnePendingApproval, AskedBefore
<1>3. NoticesTellTheOutcome'
  BY NoticesKept DEF NoticesTellTheOutcome
<1>4. TranscriptOnlyFromStandingTurns'
  BY TranscriptKept DEF TranscriptOnlyFromStandingTurns
<1> QED
  BY <1>1, <1>2, <1>3, <1>4 DEF RInv

-----------------------------------------------------------------------------
(* Every transaction is such a move of one job.                             *)

Alone(j) == \A k \in Jobs : k # j => SameJob(k)

LEMMA ReplacedRow ==
  ASSUME RInv, NEW j \in Jobs, NEW n \in Seqs, last' = last,
         NEW b, SetAttempt(j, n, b), job'[j] = AggregateOf(b),
         b.input = attempt[j][n].input, b.notify = attempt[j][n].notify,
         \/ n = last[j] /\ attempt[j][n].status \in {"queued", "running"}
         \/ /\ n <= last[j] /\ attempt[j][n].status = "waiting_approval"
            /\ b.status = "cancelled" /\ b.cancel # "none"
  PROVE  /\ RowTurn(j, n) /\ attempt'[j][n] = b
         /\ \A k \in Jobs : k # j => attempt'[k] = attempt[k]
<1>1. /\ attempt'[j][n] = b
      /\ \A m \in Seqs : m # n => attempt'[j][m] = attempt[j][m]
      /\ \A k \in Jobs : k # j => attempt'[k] = attempt[k]
  BY DEF RInv, IInv, TypeOK, SetAttempt
<1>2. n <= last[j] /\ last'[j] = last[j]
  BY DEF Seqs
<1> QED
  BY <1>1, <1>2 DEF RowTurn

LEMMA AppendedRow ==
  ASSUME RInv, NEW j \in Jobs, NEW b, InsertAttempt(j, b), b.status \in {"queued", "running"},
         job'[j] = AggregateOf(b),
         b.input = "approval_resume" => job[j] = "waiting_approval"
  PROVE  /\ RowTurn(j, last[j] + 1) /\ attempt'[j][last[j] + 1] = b
         /\ last[j] + 1 \in Seqs
         /\ \A k \in Jobs : k # j => attempt'[k] = attempt[k] /\ last'[k] = last[k]
<1>1. last[j] \in Nat /\ last[j] + 1 \in Seqs /\ ~(last[j] + 1 <= last[j])
  BY ConstantsAssumption, SeqsFact DEF RInv, IInv, TypeOK, InsertAttempt
<1>2. /\ attempt'[j][last[j] + 1] = b
      /\ \A m \in Seqs : m # last[j] + 1 => attempt'[j][m] = attempt[j][m]
      /\ \A k \in Jobs : k # j => attempt'[k] = attempt[k]
  BY <1>1 DEF RInv, IInv, TypeOK, InsertAttempt
<1>3. last'[j] = last[j] + 1 /\ \A k \in Jobs : k # j => last'[k] = last[k]
  BY DEF RInv, IInv, TypeOK, InsertAttempt
<1>4. ASSUME b.input = "approval_resume"
      PROVE  last[j] + 1 > 1 /\ attempt[j][(last[j] + 1) - 1].status = "waiting_approval"
  <2>1. job[j] = "waiting_approval" /\ (last[j] + 1) - 1 = last[j]
    BY <1>1, <1>4
  <2>2. last[j] \in Seqs /\ job[j] = AggregateOf(Latest(j))
    BY <1>1, <2>1, ActiveIsLatest DEF RInv
  <2>3. attempt[j][last[j]].status = "waiting_approval"
    BY <2>1, <2>2 DEF AggregateOf, Latest
  <2> QED
    BY <1>1, <2>1, <2>2, <2>3 DEF Seqs
<1> QED
  BY <1>1, <1>2, <1>3, <1>4 DEF RowTurn

(* A move that leaves the tool rows alone, away from a pause.               *)
LEMMA QuietCalls ==
  ASSUME RInv, NEW j \in Jobs, NEW n \in Seqs, call'[j] = call[j],
         job[j] # "waiting_approval", attempt'[j][n].status # "waiting_approval"
  PROVE  CallTurn(j, n)
  BY DEF RInv, OnePendingApproval, PendingCalls, CallTurn, MayBecome

LEMMA QuietNotices ==
  ASSUME NEW j \in Jobs, NEW n \in Seqs, notice'[j] = notice[j],
         attempt'[j][n].status \in {"queued", "running"}
  PROVE  NoticeTurn(j, n)
  BY DEF NoticeTurn, Settled

LEMMA TurnRecords ==
  ASSUME RInv, NEW j \in Jobs, NEW n
  PROVE  /\ \A s : SetJob(j, s) => \A k \in Jobs : k # j => job'[k] = job[k]
         /\ \A r : AppendMessage(j, n, r) =>
              /\ message'[j] = message[j] \cup {[attempt |-> n, role |-> r]}
              /\ \A k \in Jobs : k # j => message'[k] = message[k]
         /\ \A s, b : NotifyIf(b, j, n, s) =>
              /\ notice'[j] = notice[j] \cup IF b THEN {[attempt |-> n, status |-> s]} ELSE {}
              /\ \A k \in Jobs : k # j => notice'[k] = notice[k]
<1>1. \A s : SetJob(j, s) => \A k \in Jobs : k # j => job'[k] = job[k]
  BY DEF RInv, IInv, TypeOK, SetJob
<1>2. ASSUME NEW r, AppendMessage(j, n, r)
      PROVE  /\ message'[j] = message[j] \cup {[attempt |-> n, role |-> r]}
             /\ \A k \in Jobs : k # j => message'[k] = message[k]
  BY <1>2 DEF RInv, IInv, TypeOK, AppendMessage
<1>3. ASSUME NEW s, NEW b, NotifyIf(b, j, n, s)
      PROVE  /\ notice'[j] = notice[j] \cup IF b THEN {[attempt |-> n, status |-> s]} ELSE {}
             /\ \A k \in Jobs : k # j => notice'[k] = notice[k]
  BY <1>3 DEF RInv, IInv, TypeOK, NotifyIf
<1> QED
  BY <1>1, <1>2, <1>3

LEMMA WrittenCall ==
  ASSUME RInv, NEW j \in Jobs, NEW c \in Calls, NEW row,
         call' = [call EXCEPT ![j][c] = row]
  PROVE  /\ call'[j][c] = row
         /\ \A d \in Calls : d # c => call'[j][d] = call[j][d]
         /\ \A k \in Jobs : k # j => call'[k] = call[k]
<1> DEFINE Row == [status : CallStatus, attempt : 0 .. MaxAttempts]
<1>1. call \in [Jobs -> [Calls -> Row]]
  BY DEF RInv, IInv, TypeOK
<1> HIDE DEF Row
<1> QED
  BY <1>1

(* A new turn of a job that waits for no decision.                          *)
LEMMA NewTurn ==
  ASSUME RInv, NEW j \in Jobs, NEW b, NEW s, InsertAttempt(j, b), SetJob(j, s),
         b.status \in {"queued", "running"}, b.cancel = "none", s = b.status,
         b.input # "approval_resume", job[j] # "waiting_approval", call' = call, notice' = notice,
         message' = message \/ AppendMessage(j, last[j] + 1, "user")
  PROVE  JobTurn(j) /\ Alone(j)
<1> DEFINE n == last[j] + 1
<1>0. job'[j] = AggregateOf(b)
  BY DEF RInv, IInv, TypeOK, SetJob, AggregateOf
<1>1. /\ RowTurn(j, n) /\ attempt'[j][n] = b /\ n \in Seqs
      /\ \A k \in Jobs : k # j => attempt'[k] = attempt[k] /\ last'[k] = last[k]
  BY <1>0, AppendedRow
<1> HIDE DEF n
<1>2. NoticeTurn(j, n) /\ CallTurn(j, n)
  BY <1>1, QuietCalls, QuietNotices
<1>3. MessageTurn(j, n) /\ \A k \in Jobs : k # j => message'[k] = message[k]
  BY TurnRecords DEF MessageTurn, n
<1>4. Alone(j)
  BY <1>1, <1>3, TurnRecords DEF Alone, SameJob
<1> QED
  BY <1>1, <1>2, <1>3, <1>4 DEF JobTurn

LEMMA ResumeTurn ==
  ASSUME RInv, NEW j \in Jobs, NEW c \in Calls, NEW y \in BOOLEAN,
         EnqueueApprovalResume(j, c, y)
  PROVE  JobTurn(j) /\ Alone(j)
<1> DEFINE n == last[j] + 1
           b == QueuedAttempt("approval_resume", ResumeNotify(j))
<1>0. /\ b.status = "queued" /\ b.input = "approval_resume" /\ job[j] = "waiting_approval"
      /\ job'[j] = AggregateOf(b)
  BY DEF QueuedAttempt, NoAttempt, EnqueueApprovalResume, RInv, IInv, TypeOK, SetJob, AggregateOf
<1>1. /\ RowTurn(j, n) /\ attempt'[j][n] = b /\ n \in Seqs
      /\ \A k \in Jobs : k # j => attempt'[k] = attempt[k] /\ last'[k] = last[k]
  BY <1>0, AppendedRow DEF EnqueueApprovalResume
<1> HIDE DEF n, b
<1>2. NoticeTurn(j, n) /\ MessageTurn(j, n)
  BY <1>0, <1>1, QuietNotices DEF EnqueueApprovalResume, MessageTurn
<1>3. PICK s \in {"approved", "rejected"} :
        call' = [call EXCEPT ![j][c] = [call[j][c] EXCEPT !.status = s]]
  <2>1. CASE y
    BY <2>1 DEF EnqueueApprovalResume
  <2>2. CASE ~y
    BY <2>2 DEF EnqueueApprovalResume
  <2> QED
    BY <2>1, <2>2
<1>4. /\ call'[j][c].status = s /\ call[j][c].status = "pending_approval"
      /\ \A d \in Calls : d # c => call'[j][d] = call[j][d]
      /\ \A k \in Jobs : k # j => call'[k] = call[k]
  <2> DEFINE row == [call[j][c] EXCEPT !.status = s]
  <2>0. call[j][c] \in [status : CallStatus, attempt : 0 .. MaxAttempts]
    BY DEF RInv, IInv, TypeOK
  <2>1. row.status = s /\ call' = [call EXCEPT ![j][c] = row]
    BY <1>3, <2>0
  <2>2. call[j][c].status = "pending_approval"
    BY DEF EnqueueApprovalResume
  <2> HIDE DEF row
  <2>3. /\ call'[j][c] = row
        /\ \A d \in Calls : d # c => call'[j][d] = call[j][d]
        /\ \A k \in Jobs : k # j => call'[k] = call[k]
    BY <2>1, WrittenCall
  <2> QED
    BY <2>1, <2>2, <2>3
<1>5. PendingCalls(j)' = {}
  <2>1. PICK d \in Calls : PendingCalls(j) = {d}
    BY <1>0 DEF RInv, OnePendingApproval
  <2> QED
    BY <1>4, <2>1 DEF PendingCalls
<1>6. CallTurn(j, n)
  BY <1>0, <1>1, <1>4, <1>5 DEF CallTurn, MayBecome
<1>7. Alone(j)
  BY <1>1, <1>4, TurnRecords DEF Alone, SameJob, EnqueueApprovalResume
<1> QED
  BY <1>1, <1>2, <1>6, <1>7 DEF JobTurn

(* A stop: of an idle turn at once, of a running one as a request.          *)
LEMMA StopTurn ==
  ASSUME RInv, NEW j \in Jobs, NEW r \in Reasons, RequestJobCancellation(j, r)
  PROVE  JobTurn(j) /\ Alone(j)
<1>1. PICK n \in Seqs : /\ CancelCandidate(j, n)
                        /\ \/ CancelQueued(j, n, r)
                           \/ CancelRunning(j, n, r)
                           \/ CancelWaiting(j, n, r)
  BY DEF RequestJobCancellation
<1> DEFINE a == attempt[j][n]
<1>2. a \in Attempt /\ IInv
  BY DEF RInv, IInv, TypeOK
<1>3. CASE CancelRunning(j, n, r)
  <2> DEFINE b == [a EXCEPT !.cancel = r, !.leaseLive = TRUE]
  <2>1. /\ b.input = a.input /\ b.notify = a.notify /\ b.status = "running"
        /\ SetAttempt(j, n, b) /\ a.status = "running"
    BY <1>2, <1>3 DEF CancelRunning, BeginCancel, Attempt
  <2>2. n = last[j] /\ last' = last /\ job[j] # "waiting_approval"
    BY <1>2, <1>3, ActiveIsLatest DEF CancelRunning, BeginCancel
  <2>j. job'[j] = AggregateOf(b)
    BY <1>2, <1>3 DEF CancelRunning, BeginCancel, SetJob, IInv, TypeOK, Attempt, Reasons, AggregateOf
  <2> HIDE DEF b
  <2>3. /\ RowTurn(j, n) /\ attempt'[j][n] = b
        /\ \A k \in Jobs : k # j => attempt'[k] = attempt[k]
    BY <2>1, <2>2, <2>j, ReplacedRow
  <2>4. NoticeTurn(j, n) /\ MessageTurn(j, n) /\ CallTurn(j, n)
    BY <1>3, <2>1, <2>2, <2>3, QuietCalls, QuietNotices
    DEF CancelRunning, BeginCancel, MessageTurn
  <2>5. Alone(j)
    BY <1>3, <2>3, TurnRecords DEF CancelRunning, BeginCancel, Alone, SameJob
  <2> QED
    BY <2>3, <2>4, <2>5 DEF JobTurn
<1>4. CASE CancelQueued(j, n, r) \/ CancelWaiting(j, n, r)
  <2> DEFINE b == [a EXCEPT !.status = "cancelled", !.cancel = r]
  <2>1. /\ CancelIdle(j, n, r)
        /\ \/ a.status = "queued" /\ job[j] = "queued" /\ call' = call
           \/ a.status = "waiting_approval" /\ job[j] = "waiting_approval"
    BY <1>4 DEF CancelQueued, CancelWaiting
  <2>2. /\ b.input = a.input /\ b.notify = a.notify /\ b.status = "cancelled"
        /\ b.cancel # "none" /\ job'[j] = AggregateOf(b)
        /\ SetAttempt(j, n, b) /\ last' = last
    BY <1>2, <2>1 DEF CancelIdle, SetJob, IInv, TypeOK, Attempt, Reasons, AggregateOf
  <2>3. n <= last[j] /\ (a.status = "queued" => n = last[j])
    <3>1. ~(n > last[j])
      BY <1>2, <2>1 DEF IInv, Shape
    <3>2. n \in Nat /\ last[j] \in Nat
      BY <1>2 DEF IInv, TypeOK, Seqs
    <3> QED
      BY <1>2, <3>1, <3>2, ActiveIsLatest
  <2> HIDE DEF b
  <2>4. /\ RowTurn(j, n) /\ attempt'[j][n] = b
        /\ \A k \in Jobs : k # j => attempt'[k] = attempt[k]
    BY <2>1, <2>2, <2>3, ReplacedRow
  <2>5. NoticeTurn(j, n) /\ \A k \in Jobs : k # j => notice'[k] = notice[k]
    <3>1. NotifyIf(b.notify, j, n, "cancelled")
      BY <2>1, <2>2 DEF CancelIdle
    <3>2. /\ notice'[j] = notice[j] \cup
               IF b.notify THEN {[attempt |-> n, status |-> "cancelled"]} ELSE {}
          /\ \A k \in Jobs : k # j => notice'[k] = notice[k]
      BY <3>1, TurnRecords
    <3> QED
      BY <2>2, <2>4, <3>2 DEF NoticeTurn, Settled
  <2>6. CallTurn(j, n) /\ \A k \in Jobs : k # j => call'[k] = call[k]
    <3>1. CASE job[j] = "queued" /\ call' = call
      BY <2>2, <2>4, <3>1, QuietCalls
    <3>2. CASE CancelWaiting(j, n, r)
      <4> DEFINE Row == [status : CallStatus, attempt : 0 .. MaxAttempts]
                 f == [c \in Calls |-> IF call[j][c].status = "pending_approval"
                                         THEN [call[j][c] EXCEPT !.status = "cancelled"]
                                         ELSE call[j][c]]
      <4>1. call \in [Jobs -> [Calls -> Row]] /\ \A d \in Calls : call[j][d] \in Row
        BY <1>2 DEF IInv, TypeOK
      <4>2. \A d \in Calls : call[j][d].status = "pending_approval" =>
                               f[d].status = "cancelled"
        BY <4>1
      <4>3. \A d \in Calls : call[j][d].status # "pending_approval" => f[d] = call[j][d]
        OBVIOUS
      <4>4. call' = [call EXCEPT ![j] = f]
        BY <3>2 DEF CancelWaiting
      <4> HIDE DEF Row, f
      <4>5. call'[j] = f /\ \A k \in Jobs : k # j => call'[k] = call[k]
        BY <4>1, <4>4
      <4>6. PendingCalls(j)' = {}
        BY <4>2, <4>3, <4>5 DEF PendingCalls
      <4>7. job[j] = "waiting_approval"
        BY <3>2 DEF CancelWaiting
      <4> QED
        BY <2>2, <2>4, <4>2, <4>3, <4>5, <4>6, <4>7 DEF CallTurn, MayBecome
    <3> QED
      BY <1>4, <3>1, <3>2 DEF CancelQueued
  <2>7. MessageTurn(j, n) /\ Alone(j)
    BY <2>1, <2>4, <2>5, <2>6, TurnRecords DEF CancelIdle, MessageTurn, Alone, SameJob
  <2> QED
    BY <2>4, <2>5, <2>6, <2>7 DEF JobTurn
<1> QED
  BY <1>1, <1>3, <1>4

LEMMA ProduceTurn ==
  ASSUME RInv, NEW j \in Jobs, Produce(j)
  PROVE  JobTurn(j) /\ Alone(j)
<1>q. ASSUME NEW i \in {"user_message", "retry"}, NEW b
      PROVE  /\ QueuedAttempt(i, b).status = "queued" /\ QueuedAttempt(i, b).input = i
             /\ QueuedAttempt(i, b).cancel = "none" /\ i # "approval_resume"
  BY DEF QueuedAttempt, NoAttempt
<1>0. job[j] = "none" => last[j] + 1 = 1
  <2> SUFFICES ASSUME job[j] = "none", last[j] # 0 PROVE FALSE
    OBVIOUS
  <2>1. last[j] \in Seqs /\ ~(last[j] > last[j])
    BY DEF RInv, IInv, TypeOK, Seqs
  <2>2. attempt[j][last[j]].status = "none"
    BY DEF RInv, IInv, AggregateAgrees, AggregateOf, StoppedBehind, Latest
  <2> QED
    BY <2>1, <2>2 DEF RInv, IInv, Shape
<1>1. ASSUME NEW b \in BOOLEAN, CreateQueuedJob(j, b) PROVE JobTurn(j) /\ Alone(j)
  BY <1>q, <1>0, <1>1, NewTurn DEF CreateQueuedJob
<1>2. ASSUME NEW p \in Jobs, NEW n \in Seqs, NEW w \in Workers, CreateClaimedChild(p, n, w, j)
      PROVE  JobTurn(j) /\ Alone(j)
  <2> DEFINE b == Running(QueuedAttempt("user_message", FALSE), w)
  <2>1. b.status = "running" /\ b.input = "user_message" /\ b.cancel = "none"
    BY DEF Running, QueuedAttempt, NoAttempt
  <2>2. /\ InsertAttempt(j, b) /\ SetJob(j, "running") /\ job[j] = "none"
        /\ AppendMessage(j, last[j] + 1, "user") /\ call' = call /\ notice' = notice
    BY <1>0, <1>2 DEF CreateClaimedChild
  <2> HIDE DEF b
  <2> QED
    BY <2>1, <2>2, NewTurn
<1>3. ASSUME NEW b \in BOOLEAN, EnqueueContinuation(j, b) PROVE JobTurn(j) /\ Alone(j)
  BY <1>q, <1>3, NewTurn DEF EnqueueContinuation
<1>4. ASSUME EnqueueRetry(j) PROVE JobTurn(j) /\ Alone(j)
  BY <1>q, <1>4, NewTurn DEF EnqueueRetry, RetryEligible
<1> QED
  BY <1>1, <1>2, <1>3, <1>4, ResumeTurn, StopTurn DEF Produce

-----------------------------------------------------------------------------

(* A worker's transaction that keeps its turn in progress.                  *)
LEMMA InProgressTurn ==
  ASSUME RInv, NEW j \in Jobs, NEW n \in Seqs, NEW b, SetAttempt(j, n, b), last' = last,
         attempt[j][n].status \in {"queued", "running"}, b.status \in {"queued", "running"},
         b.input = attempt[j][n].input, b.notify = attempt[j][n].notify,
         job'[j] = AggregateOf(b), \A k \in Jobs : k # j => job'[k] = job[k],
         notice' = notice, message' = message, CallTurn(j, n),
         \A k \in Jobs : k # j => call'[k] = call[k]
  PROVE  JobTurn(j) /\ Alone(j)
<1>1. n = last[j]
  BY ActiveIsLatest DEF RInv
<1>2. /\ RowTurn(j, n) /\ attempt'[j][n] = b
      /\ \A k \in Jobs : k # j => attempt'[k] = attempt[k]
  BY <1>1, ReplacedRow
<1>3. NoticeTurn(j, n) /\ MessageTurn(j, n)
  BY <1>2, QuietNotices DEF MessageTurn
<1>4. Alone(j)
  BY <1>2 DEF Alone, SameJob
<1> QED
  BY <1>2, <1>3, <1>4 DEF JobTurn

(* The result of a call: the row of a call that was approved, of one that   *)
(* needed no approval, or the same row again.                               *)
LEMMA ResultCalls ==
  ASSUME RInv, NEW j \in Jobs, NEW n \in Seqs, NEW c \in Calls, NEW s \in Result,
         NEW g \in BOOLEAN, RecordToolResult(j, n, c, s, g),
         attempt[j][n].status = "running", attempt'[j][n].status = "running",
         job[j] = "cancelling" =>
           attempt[j][n].marker = c /\ attempt'[j][n].marker = None
  PROVE  CallTurn(j, n) /\ \A k \in Jobs : k # j => call'[k] = call[k]
<1>1. n = last[j] /\ job[j] # "waiting_approval"
  BY ActiveIsLatest DEF RInv, AggregateOf
<1>2. CASE call' = call
  BY <1>1, <1>2, QuietCalls
<1>3. CASE /\ call[j][c].status \in {"none", "approved"}
           /\ call' = [call EXCEPT ![j][c] = [status |-> s, attempt |-> n]]
  <2>0. /\ call'[j][c] = [status |-> s, attempt |-> n]
        /\ \A d \in Calls : d # c => call'[j][d] = call[j][d]
        /\ \A k \in Jobs : k # j => call'[k] = call[k]
    BY <1>3, WrittenCall
  <2>1. /\ call'[j][c].status = s
        /\ \A d \in Calls : d # c => call'[j][d] = call[j][d]
        /\ \A k \in Jobs : k # j => call'[k] = call[k]
    BY <2>0
  <2>2. \A d \in Calls : MayBecome(call[j][d].status, call'[j][d].status)
    BY <1>3, <2>1 DEF MayBecome
  <2>3. PendingCalls(j)' = {}
    <3>1. PendingCalls(j) = {}
      BY <1>1 DEF RInv, OnePendingApproval
    <3> QED
      BY <2>1, <3>1 DEF PendingCalls, Result
  <2>4. \A d \in Calls : job[j] = "cancelling" /\ call'[j][d] # call[j][d] =>
          attempt[j][last[j]].marker = d /\ attempt'[j][last[j]].marker = None
    BY <1>1, <2>1
  <2> QED
    BY <2>1, <2>2, <2>3, <2>4 DEF CallTurn
<1> QED
  BY <1>2, <1>3 DEF RecordToolResult

LEMMA SettleTurn ==
  ASSUME RInv, NEW j \in Jobs, NEW n \in Seqs, NEW w \in Workers,
         NEW c \in Calls, NEW o \in Outcome, NEW t \in BOOLEAN,
         SettleAttempt(j, n, w, o, c, t)
  PROVE  JobTurn(j) /\ Alone(j)
<1> DEFINE a == attempt[j][n]
           s == SettledStatus(a, o)
           b == [a EXCEPT !.status = s, !.cancel = SettleReason(a)]
<1>1. /\ a \in Attempt /\ a.status = "running" /\ n = last[j] /\ last' = last
      /\ job[j] = AggregateOf(a) /\ SetAttempt(j, n, b) /\ SetJob(j, s)
      /\ NotifyIf(a.notify \/ s = "waiting_approval", j, n, s)
      /\ IF s = o THEN SettleEffects(j, n, s, c, t) ELSE UNCHANGED <<call, message>>
  BY ActiveIsLatest DEF RInv, IInv, TypeOK, SettleAttempt, LiveOrCancelling, Owned
<1>2. b.input = a.input /\ b.notify = a.notify /\ b.status = s
  BY <1>1 DEF Attempt
<1>3. s \in Settled \cup {"waiting_approval"} /\ (s = "waiting_approval" => s = o)
  BY <1>1, SettledType DEF SettledStatus
<1>j. job'[j] = AggregateOf(b)
  BY <1>1, <1>2, <1>3 DEF RInv, IInv, TypeOK, SetJob, AggregateOf, Settled
<1>4. job[j] # "waiting_approval" /\ (job[j] = "cancelling" => s # o)
  <2>1. job[j] = "cancelling" => a.cancel # "none"
    BY <1>1 DEF AggregateOf
  <2>2. a.cancel # "none" => s # o
    BY <1>1 DEF SettledStatus, SettleReason, Outcome, Attempt, Reasons
  <2> QED
    BY <1>1, <2>1, <2>2 DEF AggregateOf
<1> HIDE DEF b, s
<1>5. /\ RowTurn(j, n) /\ attempt'[j][n] = b
      /\ \A k \in Jobs : k # j => attempt'[k] = attempt[k]
  BY <1>1, <1>2, <1>j, ReplacedRow
<1>6. NoticeTurn(j, n) /\ \A k \in Jobs : k # j => notice'[k] = notice[k]
  <2>1. /\ notice'[j] = notice[j] \cup IF a.notify \/ s = "waiting_approval"
                                          THEN {[attempt |-> n, status |-> s]} ELSE {}
        /\ \A k \in Jobs : k # j => notice'[k] = notice[k]
    BY <1>1, TurnRecords
  <2> QED
    BY <1>2, <1>3, <1>5, <2>1 DEF NoticeTurn
<1>7. MessageTurn(j, n) /\ \A k \in Jobs : k # j => message'[k] = message[k]
  <2>1. \/ message' = message
        \/ s \in {"done", "waiting_approval"} /\ AppendMessage(j, n, "assistant")
    BY <1>1 DEF SettleEffects
  <2> QED
    BY <1>2, <1>5, <2>1, TurnRecords DEF MessageTurn
<1>8. CallTurn(j, n) /\ \A k \in Jobs : k # j => call'[k] = call[k]
  <2>1. CASE s # "waiting_approval"
    <3>1. call' = call
      BY <1>1, <2>1 DEF SettleEffects
    <3> QED
      BY <1>2, <1>4, <1>5, <2>1, <3>1, QuietCalls
  <2>2. CASE s = "waiting_approval"
    <3>1. PendingCalls(j) = {}
      BY <1>4 DEF RInv, OnePendingApproval
    <3>2. /\ call[j][c].status = "none"
          /\ call' = [call EXCEPT ![j][c] = [status |-> "pending_approval", attempt |-> n]]
      BY <1>1, <1>3, <2>2, <3>1 DEF SettleEffects, PendingCalls
    <3>3. /\ call'[j][c] = [status |-> "pending_approval", attempt |-> n]
          /\ \A d \in Calls : d # c => call'[j][d] = call[j][d]
          /\ \A k \in Jobs : k # j => call'[k] = call[k]
      BY <3>2, WrittenCall
    <3>4. PendingCalls(j)' = {c}
      BY <3>1, <3>3 DEF PendingCalls
    <3>5. \A d \in Calls : MayBecome(call[j][d].status, call'[j][d].status)
      BY <3>2, <3>3 DEF MayBecome
    <3>6. job[j] # "cancelling"
      BY <1>3, <1>4, <2>2
    <3> QED
      BY <1>2, <1>5, <2>2, <3>3, <3>4, <3>5, <3>6 DEF CallTurn
  <2> QED
    BY <2>1, <2>2
<1>9. Alone(j)
  BY <1>1, <1>5, <1>6, <1>7, <1>8, TurnRecords DEF Alone, SameJob
<1> QED
  BY <1>5, <1>6, <1>7, <1>8, <1>9 DEF JobTurn

LEMMA WorkTurn ==
  ASSUME RInv, NEW j \in Jobs, NEW n \in Seqs, NEW w \in Workers, Work(j, n, w)
  PROVE  JobTurn(j) /\ Alone(j)
<1> DEFINE a == attempt[j][n]
           Goal == JobTurn(j) /\ Alone(j)
<1>0. /\ a \in Attempt /\ IInv /\ RowSafe(a)
      /\ a.status \in {"queued", "running"} => n = last[j] /\ job[j] = AggregateOf(a)
  BY ActiveIsLatest, RowsAreSafe DEF RInv, IInv, TypeOK
<1>j. \A s : SetJob(j, s) => job'[j] = s /\ \A k \in Jobs : k # j => job'[k] = job[k]
  BY DEF RInv, IInv, TypeOK, SetJob
(* A transaction that touches no tool row.                                  *)
<1>q. ASSUME NEW b, SetAttempt(j, n, b), UNCHANGED <<last, call, notice, message>>,
             a.status \in {"queued", "running"}, b.status \in {"queued", "running"},
             b.input = a.input, b.notify = a.notify,
             job'[j] = AggregateOf(b), \A k \in Jobs : k # j => job'[k] = job[k]
      PROVE  Goal
  <2>1. attempt'[j][n] = b /\ job[j] # "waiting_approval"
    BY <1>0, <1>q DEF IInv, TypeOK, SetAttempt, AggregateOf
  <2>2. CallTurn(j, n)
    BY <1>q, <2>1, QuietCalls
  <2> QED
    BY <1>q, <2>2, InProgressTurn
<1>1. ASSUME ClaimAttempt(j, n, w) PROVE Goal
  <2> DEFINE b == Running(a, w)
  <2>1. /\ b.status = "running" /\ b.input = a.input /\ b.notify = a.notify
        /\ SetAttempt(j, n, b) /\ SetJob(j, AggregateOf(b))
        /\ a.status = "queued" /\ UNCHANGED <<last, call, notice, message>>
    BY <1>0, <1>1 DEF ClaimAttempt, Running, Attempt, RowSafe, AggregateOf
  <2> HIDE DEF b
  <2> QED
    BY <1>j, <1>q, <2>1
<1>2. ASSUME HeartbeatAttemptControl(j, n, w) PROVE Goal
  <2> DEFINE b == [a EXCEPT !.cancel = "deadline", !.leaseLive = TRUE]
  <2>1. /\ b.status = "running" /\ b.input = a.input /\ b.notify = a.notify
        /\ SetAttempt(j, n, b) /\ SetJob(j, AggregateOf(b))
        /\ a.status = "running" /\ UNCHANGED <<last, call, notice, message>>
    BY <1>0, <1>2 DEF HeartbeatAttemptControl, Owned, BeginCancel, Attempt, AggregateOf
  <2> HIDE DEF b
  <2> QED
    BY <1>j, <1>q, <2>1
<1>3. ASSUME ReleaseUnstartedAttempt(j, n, w) PROVE Goal
  <2> DEFINE b == QueuedAttempt(a.input, a.notify)
  <2>1. /\ b.status = "queued" /\ b.input = a.input /\ b.notify = a.notify
        /\ SetAttempt(j, n, b) /\ SetJob(j, AggregateOf(b))
        /\ a.status = "running" /\ UNCHANGED <<last, call, notice, message>>
    BY <1>0, <1>3 DEF ReleaseUnstartedAttempt, Owned, QueuedAttempt, NoAttempt, AggregateOf
  <2> HIDE DEF b
  <2> QED
    BY <1>j, <1>q, <2>1
<1>4. ASSUME NEW c \in Calls, BeginExternalAttemptEffect(j, n, w, c) PROVE Goal
  <2> DEFINE b == [a EXCEPT !.marker = c]
  <2>1. /\ b.status = "running" /\ b.input = a.input /\ b.notify = a.notify
        /\ SetAttempt(j, n, b) /\ job' = job /\ AggregateOf(b) = job[j]
        /\ a.status = "running" /\ UNCHANGED <<last, call, notice, message>>
    BY <1>0, <1>4 DEF BeginExternalAttemptEffect, LiveAttempt, Owned, Attempt, AggregateOf
  <2> HIDE DEF b
  <2> QED
    BY <1>q, <2>1
(* A transaction that records a result, with or without its marker.         *)
<1>r. ASSUME NEW c \in Calls, NEW s \in Result, NEW g \in BOOLEAN,
             RecordToolResult(j, n, c, s, g),
             SetAttempt(j, n, [a EXCEPT !.marker = None]),
             a.status = "running", a.marker = c, UNCHANGED <<job, last, notice, message>>
      PROVE  Goal
  <2> DEFINE b == [a EXCEPT !.marker = None]
  <2>1. /\ b.status = "running" /\ b.input = a.input /\ b.notify = a.notify
        /\ b.marker = None /\ job'[j] = AggregateOf(b)
    BY <1>0, <1>r DEF Attempt, AggregateOf
  <2> HIDE DEF b
  <2>2. attempt'[j][n] = b
    BY <1>0, <1>r DEF IInv, TypeOK, SetAttempt, b
  <2>3. CallTurn(j, n) /\ \A k \in Jobs : k # j => call'[k] = call[k]
    BY <1>r, <2>1, <2>2, ResultCalls
  <2>4. SetAttempt(j, n, b)
    BY <1>r DEF b
  <2> QED
    BY <1>r, <2>1, <2>3, <2>4, InProgressTurn
<1>5. ASSUME NEW c \in Calls, NEW s \in Result, NEW g \in BOOLEAN,
             CompleteExternalAttemptEffect(j, n, w, c, s, g)
      PROVE  Goal
  BY <1>5, <1>r DEF CompleteExternalAttemptEffect, LiveOrCancelling, Owned
<1>6. ASSUME NEW c \in Calls, NEW s \in Result, NEW g \in BOOLEAN, NEW d \in BOOLEAN,
             ApplyAttemptEffects(j, n, w, c, s, g, d)
      PROVE  Goal
  <2>1. /\ a.status = "running" /\ job[j] = "running" /\ RecordToolResult(j, n, c, s, g)
        /\ UNCHANGED <<job, last, notice, message>>
    BY <1>6 DEF ApplyAttemptEffects, LiveAttempt, Owned
  <2>2. CASE d
    <3>1. a.marker = c /\ SetAttempt(j, n, [a EXCEPT !.marker = None])
      BY <1>6, <2>2, Zenon DEF ApplyAttemptEffects
    <3> QED
      BY <1>r, <2>1, <3>1
  <2>3. CASE ~d
    <3>1. attempt' = attempt
      BY <1>6, <2>3, Zenon DEF ApplyAttemptEffects
    <3>2. SetAttempt(j, n, a)
      BY <1>0, <3>1 DEF IInv, TypeOK, SetAttempt
    <3>3. CallTurn(j, n) /\ \A k \in Jobs : k # j => call'[k] = call[k]
      BY <2>1, <3>1, ResultCalls
    <3>4. job'[j] = AggregateOf(a)
      BY <1>0, <2>1
    <3> QED
      BY <2>1, <3>2, <3>3, <3>4, InProgressTurn
  <2> QED
    BY <2>2, <2>3
<1> QED
  BY <1>1, <1>2, <1>3, <1>4, <1>5, <1>6, SettleTurn DEF Work

LEMMA ClockTurn ==
  ASSUME RInv, NEW j \in Jobs, NEW n \in Seqs, Clock(j, n)
  PROVE  JobTurn(j) /\ Alone(j)
<1> DEFINE a == attempt[j][n]
<1>1. /\ a \in Attempt /\ (a.status = "running" => job[j] # "waiting_approval")
      /\ a.status = "running" => job[j] = AggregateOf(a)
  BY ActiveIsLatest DEF RInv, IInv, TypeOK, AggregateOf
<1>2. PICK b \in {[a EXCEPT !.leaseLive = FALSE], [a EXCEPT !.deadlinePassed = TRUE]} :
        /\ a.status = "running" /\ SetAttempt(j, n, b)
        /\ UNCHANGED <<job, last, call, notice, message>>
  BY DEF Clock, LeaseExpires, DeadlinePasses
<1>3. /\ b.status = "running" /\ b.input = a.input /\ b.notify = a.notify
      /\ job'[j] = AggregateOf(b)
  BY <1>1, <1>2 DEF Attempt, AggregateOf
<1>4. attempt'[j][n] = b
  BY <1>2 DEF RInv, IInv, TypeOK, SetAttempt
<1>5. CallTurn(j, n)
  BY <1>1, <1>2, <1>3, <1>4, QuietCalls
<1> QED
  BY <1>2, <1>3, <1>5, InProgressTurn

(* Recovery moves every job of its batch by its newest row, which was       *)
(* running, and writes that row's notice; the tool rows stay.               *)
LEMMA RecoveryTurn ==
  ASSUME RInv, NEW S \in SUBSET Expired, AbandonExpiredAttempts(S), NEW j \in Jobs
  PROVE  SameJob(j) \/ JobTurn(j)
<1> DEFINE n == last[j]
           a == attempt[j][n]
           s == RecoveredStatus(a)
<1>0. IInv /\ last' = last /\ call' = call /\ message' = message
  BY DEF RInv, AbandonExpiredAttempts
<1>1. \A m \in Seqs : <<j, m>> \in S =>
        m = last[j] /\ attempt[j][m].status = "running" /\ job[j] = AggregateOf(attempt[j][m])
  <2> SUFFICES ASSUME NEW m \in Seqs, <<j, m>> \in S
               PROVE  m = last[j] /\ attempt[j][m].status = "running"
                      /\ job[j] = AggregateOf(attempt[j][m])
    OBVIOUS
  <2>1. attempt[j][m].status = "running"
    BY DEF Expired
  <2> QED
    BY <1>0, <2>1, ActiveIsLatest
<1>2. CASE \A m \in Seqs : <<j, m>> \notin S
  <2>1. attempt'[j] = attempt[j]
    <3>1. \A m \in Seqs : attempt'[j][m] = attempt[j][m]
      BY <1>2 DEF AbandonExpiredAttempts
    <3>2. attempt'[j] = [m \in Seqs |-> attempt'[j][m]]
      BY DEF AbandonExpiredAttempts
    <3>3. attempt[j] = [m \in Seqs |-> attempt[j][m]]
      BY <1>0 DEF IInv, TypeOK
    <3> QED
      BY <3>1, <3>2, <3>3
  <2>2. job'[j] = job[j]
    BY <1>2 DEF AbandonExpiredAttempts
  <2>3. notice'[j] = notice[j]
    BY <1>2 DEF AbandonExpiredAttempts
  <2> QED
    BY <1>0, <2>1, <2>2, <2>3 DEF SameJob
<1>3. CASE \E m \in Seqs : <<j, m>> \in S
  <2>1. /\ n \in Seqs /\ <<j, n>> \in S /\ a \in Attempt /\ a.status = "running"
        /\ job[j] \in {"running", "cancelling"}
    BY <1>0, <1>1, <1>3 DEF IInv, TypeOK, AggregateOf
  <2>2. attempt'[j][n] = [a EXCEPT !.status = s]
        /\ \A m \in Seqs : m # n => attempt'[j][m] = attempt[j][m]
    BY <1>1, <2>1 DEF AbandonExpiredAttempts
  <2>3. /\ attempt'[j][n].status = s /\ attempt'[j][n].notify = a.notify
        /\ attempt'[j][n].input = a.input
    BY <2>1, <2>2 DEF Attempt
  <2>4. s \in {"cancelled", "timed_out", "outcome_unknown"}
    BY DEF RecoveredStatus
  <2>j. job'[j] = AggregateOf(attempt'[j][n])
    <3>1. (CHOOSE m \in Seqs : <<j, m>> \in S) = n
      BY <1>1, <2>1
    <3>2. job'[j] = s
      BY <2>1, <3>1 DEF AbandonExpiredAttempts
    <3> QED
      BY <2>3, <2>4, <3>2 DEF AggregateOf
  <2>5. RowTurn(j, n)
    <3>1. n <= last[j]
      BY <2>1 DEF Seqs
    <3> QED
      BY <1>0, <2>1, <2>2, <2>3, <2>j, <3>1 DEF RowTurn
  <2>6. MessageTurn(j, n) /\ CallTurn(j, n)
    BY <1>0, <2>1, <2>3, <2>4, QuietCalls DEF MessageTurn
  <2>7. NoticeTurn(j, n)
    <3>1. notice'[j] = notice[j] \cup
            {[attempt |-> m, status |-> RecoveredStatus(attempt[j][m])] :
               m \in {k \in Seqs : <<j, k>> \in S /\ attempt[j][k].notify}}
      BY <2>1 DEF AbandonExpiredAttempts
    <3>2. {k \in Seqs : <<j, k>> \in S /\ attempt[j][k].notify} =
            IF a.notify THEN {n} ELSE {}
      BY <1>1, <2>1
    <3>3. notice'[j] = notice[j] \cup
            IF a.notify THEN {[attempt |-> n, status |-> s]} ELSE {}
      BY <3>1, <3>2
    <3> QED
      BY <2>3, <2>4, <3>3 DEF NoticeTurn, Settled
  <2> QED
    BY <2>1, <2>5, <2>6, <2>7 DEF JobTurn
<1> QED
  BY <1>2, <1>3

LEMMA StepTurns == RInv /\ [Next]_vars => \A j \in Jobs : SameJob(j) \/ JobTurn(j)
<1> SUFFICES ASSUME RInv, [Next]_vars, NEW k \in Jobs
             PROVE  SameJob(k) \/ JobTurn(k)
  OBVIOUS
<1>1. ASSUME NEW j \in Jobs,
             \/ Produce(j)
             \/ \E n \in Seqs, w \in Workers : Work(j, n, w)
             \/ \E n \in Seqs : Clock(j, n)
      PROVE  SameJob(k) \/ JobTurn(k)
  <2>1. JobTurn(j) /\ Alone(j)
    BY <1>1, ProduceTurn, WorkTurn, ClockTurn
  <2> QED
    BY <2>1 DEF Alone
<1>2. CASE Next
  BY <1>1, <1>2, RecoveryTurn DEF Next
<1>3. CASE UNCHANGED vars
  BY <1>3 DEF vars, SameJob
<1> QED
  BY <1>2, <1>3

LEMMA RecordsInvariant == Spec => []RInv
<1>1. RInv /\ [Next]_vars => RInv'
  <2> SUFFICES ASSUME RInv, [Next]_vars PROVE RInv'
    OBVIOUS
  <2>1. IInv'
    BY NextInv DEF RInv
  <2> QED
    BY <2>1, StepTurns, TurnsKeep
<1> QED
  BY <1>1, RecordsInit, PTL DEF Spec

-----------------------------------------------------------------------------

(* A job waits for approval exactly while one request of its newest turn is *)
(* pending, and the turn that resumes directly follows the paused one.      *)
THEOREM OneRequestIsPending == Spec => []OnePendingApproval
<1>1. RInv => OnePendingApproval
  BY DEF RInv
<1> QED
  BY <1>1, RecordsInvariant, PTL

(* The owner who opted in is told the outcome of every turn once, and the   *)
(* status the turn really ended in, whoever ended it.                       *)
THEOREM NoticesAreTrue == Spec => []NoticesTellTheOutcome
<1>1. RInv => NoticesTellTheOutcome
  BY DEF RInv
<1> QED
  BY <1>1, RecordsInvariant, PTL

(* No turn that was stopped, timed out, failed or got lost leaves a reply   *)
(* in the chat.                                                             *)
THEOREM RepliesAreOfStandingTurns == Spec => []TranscriptOnlyFromStandingTurns
<1>1. RInv => TranscriptOnlyFromStandingTurns
  BY DEF RInv
<1> QED
  BY <1>1, RecordsInvariant, PTL

(* No step reopens a decision or rewrites a completed tool row, and after a *)
(* stop only the row of the call that was in flight is still written.       *)
THEOREM DecisionsAreFinal == Spec => DecisionsStand
<1>1. RInv /\ [Next]_vars =>
        [\A j \in Jobs, c \in Calls :
           LET old == call[j][c].status
               new == call'[j][c].status
           IN  /\ old # new =>
                    CASE old = "none"             -> new \in Result \cup {"pending_approval"}
                      [] old = "pending_approval" -> new \in {"approved", "rejected", "cancelled"}
                      [] old = "approved"         -> new \in Result
                      [] OTHER                    -> FALSE
               /\ job[j] = "cancelling" /\ call'[j][c] # call[j][c] =>
                    attempt[j][last[j]].marker = c /\ attempt'[j][last[j]].marker = None]_vars
  <2> SUFFICES ASSUME RInv, [Next]_vars, NEW j \in Jobs, NEW c \in Calls
               PROVE  /\ MayBecome(call[j][c].status, call'[j][c].status)
                      /\ job[j] = "cancelling" /\ call'[j][c] # call[j][c] =>
                           attempt[j][last[j]].marker = c /\ attempt'[j][last[j]].marker = None
    BY DEF MayBecome
  <2>1. SameJob(j) \/ JobTurn(j)
    BY StepTurns
  <2>2. CASE SameJob(j)
    BY <2>2 DEF SameJob, MayBecome
  <2>3. CASE JobTurn(j)
    BY <2>3 DEF JobTurn, CallTurn
  <2> QED
    BY <2>1, <2>2, <2>3
<1> QED
  BY <1>1, RecordsInvariant, PTL DEF Spec, DecisionsStand

-----------------------------------------------------------------------------
(* What the executor of JobWorker keeps, for any number of chats, turns,    *)
(* calls and processes.  Each of its steps is a transaction of JobAttempts  *)
(* or leaves the database alone, so what is proved of the protocol holds of *)
(* the worker.  The provider's side is tied to it by the marker: a frame    *)
(* that has a call at the provider is of the newest turn, which carries     *)
(* that call's marker, and only the record of the call's result clears it.  *)

FrameTypes == frame \in [Jobs -> [Seqs -> Frame]] /\ up \subseteq Workers

ActTypes == acts \in [Jobs -> [Calls -> Nat]]

(* Only the newest turn of a job carries a marker.                          *)
MarkerIsNewest ==
  \A j \in Jobs, n \in Seqs : attempt[j][n].marker # None => n = last[j]

(* What a frame knows of the call it is at: the marker of a call it sent is *)
(* on its turn, and the provider has not performed it before; a claim that  *)
(* was not started has sent nothing; a pause asks about a call.             *)
Fits(f, mark, done) ==
  /\ f.pc \in {"calling", "acted"} => f.target \in Calls /\ mark = f.target
  /\ f.pc = "calling" => done[f.target] = 0
  /\ f.pc = "claimed" => mark = None
  /\ f.pc = "finish" /\ f.outcome = "waiting_approval" => f.target \in Calls

FramesFit ==
  \A j \in Jobs, n \in Seqs : Fits(F(j, n), attempt[j][n].marker, acts[j])

WInv ==
  /\ RInv
  /\ FrameTypes /\ ActTypes
  /\ MarkerIsNewest /\ FramesFit
  /\ EffectsAreAccountedFor

-----------------------------------------------------------------------------
(* Frames.                                                                  *)

LEMMA FrameFields ==
  ASSUME NEW f \in Frame
  PROVE  /\ f.pc \in Pcs /\ f.worker \in Workers \cup {None} /\ f.aborted \in Aborts
         /\ f.leaseLost \in BOOLEAN /\ f.outcome \in Outcome /\ f.target \in Calls \cup {None}
         /\ f.parent \in (Jobs \X Seqs) \cup {None} /\ f.cascaded \in BOOLEAN
  BY DEF Frame

LEMMA FrameSet ==
  ASSUME FrameTypes, NEW j \in Jobs, NEW n \in Seqs, NEW f \in Frame, SetFrame(j, n, f)
  PROVE  /\ frame' \in [Jobs -> [Seqs -> Frame]]
         /\ \A k \in Jobs, m \in Seqs : frame'[k][m] = IF k = j /\ m = n THEN f ELSE F(k, m)
  BY DEF FrameTypes, SetFrame, F

LEMMA FrameMoves ==
  ASSUME NEW f \in Frame, NEW p \in Pcs, NEW o \in Outcome, NEW t \in Calls \cup {None},
         NEW a \in Aborts, NEW b \in BOOLEAN
  PROVE  /\ [f EXCEPT !.pc = p] \in Frame
         /\ [f EXCEPT !.pc = p, !.target = t] \in Frame
         /\ [f EXCEPT !.pc = p, !.outcome = o, !.target = t] \in Frame
         /\ [f EXCEPT !.pc = p, !.outcome = o, !.target = t, !.leaseLost = @ \/ b] \in Frame
         /\ [f EXCEPT !.aborted = a] \in Frame
         /\ [f EXCEPT !.leaseLost = b] \in Frame
         /\ [f EXCEPT !.cascaded = b] \in Frame
  BY DEF Frame

LEMMA NoFrameIsFrame ==
  /\ NoFrame \in Frame
  /\ \A w \in Workers : [NoFrame EXCEPT !.pc = "claimed", !.worker = w] \in Frame
  /\ \A w \in Workers, p \in Jobs \X Seqs :
       [NoFrame EXCEPT !.pc = "run", !.worker = w, !.parent = p] \in Frame
  BY DEF NoFrame, Frame, Pcs, Outcome, Aborts

(* A frame as a timer leaves it.                                            *)
Kept(f, g) == g.pc = f.pc /\ g.target = f.target /\ g.outcome = f.outcome

(* A frame that has no call out and no claim to give back.                  *)
Calm(f) ==
  /\ f.pc \notin {"calling", "acted", "claimed"}
  /\ f.pc = "finish" /\ f.outcome = "waiting_approval" => f.target \in Calls

LEMMA TimersKeep ==
  ASSUME NEW f \in Frame, NEW a \in {"user", "deadline"}
  PROVE  /\ Aborted(f, a) \in Frame /\ Kept(f, Aborted(f, a))
         /\ LoseLease(f) \in Frame /\ Kept(f, LoseLease(f))
         /\ [Aborted(f, a) EXCEPT !.cascaded = TRUE] \in Frame
         /\ Kept(f, [Aborted(f, a) EXCEPT !.cascaded = TRUE])
         /\ [f EXCEPT !.cascaded = TRUE] \in Frame
         /\ Kept(f, [f EXCEPT !.cascaded = TRUE])
         /\ [LoseLease(f) EXCEPT !.cascaded = TRUE] \in Frame
         /\ Kept(f, [LoseLease(f) EXCEPT !.cascaded = TRUE])
  BY DEF Aborted, LoseLease, Kept, Frame, Aborts

LEMMA Landed ==
  ASSUME NEW f \in Frame, NEW b \in BOOLEAN
  PROVE  /\ LET g == [f EXCEPT !.pc = "finish", !.outcome = "failed", !.target = None,
                              !.leaseLost = @ \/ b]
            IN  g \in Frame /\ Calm(g)
         /\ LET g == [f EXCEPT !.pc = "run", !.target = None] IN g \in Frame /\ Calm(g)
         /\ LET g == [f EXCEPT !.pc = "run"] IN g \in Frame /\ Calm(g)
         /\ LET g == [f EXCEPT !.pc = "live"] IN g \in Frame /\ Calm(g)
         /\ LET g == [f EXCEPT !.pc = "child"] IN g \in Frame /\ Calm(g)
  BY DEF Frame, Calm, Pcs, Outcome

LEMMA ThrowKeeps ==
  ASSUME FrameTypes, NEW j \in Jobs, NEW n \in Seqs, NEW b \in BOOLEAN, Throw(j, n, b)
  PROVE  \E g \in Frame : SetFrame(j, n, g) /\ Calm(g)
<1>1. F(j, n) \in Frame
  BY DEF FrameTypes, F
<1> QED
  BY <1>1, Landed DEF Throw

LEMMA GotoKeeps ==
  ASSUME FrameTypes, NEW j \in Jobs, NEW n \in Seqs, Goto(j, n, "run")
  PROVE  \E g \in Frame : SetFrame(j, n, g) /\ Calm(g)
<1>1. F(j, n) \in Frame
  BY DEF FrameTypes, F
<1> QED
  BY <1>1, Landed DEF Goto

-----------------------------------------------------------------------------
(* The protocol's side of a step.                                           *)

LEMMA ProtocolKeeps ==
  ASSUME RInv, [Next]_vars
  PROVE  /\ RInv'
         /\ \A j \in Jobs, c \in Calls :
              call[j][c].status \in Result => call'[j][c].status = call[j][c].status
<1>1. IInv'
  BY NextInv DEF RInv
<1>2. \A j \in Jobs : SameJob(j) \/ JobTurn(j)
  BY StepTurns
<1>3. RInv'
  BY <1>1, <1>2, TurnsKeep
<1>4. \A j \in Jobs, c \in Calls :
        call[j][c].status \in Result => call'[j][c].status = call[j][c].status
  BY <1>2 DEF SameJob, JobTurn, CallTurn, MayBecome, Result
<1> QED
  BY <1>3, <1>4

(* A turn with a marker stays the newest: nothing follows an unknown outcome.*)
LEMMA NewestKept ==
  ASSUME RInv, [Next]_vars, NEW j \in Jobs, NEW n \in Seqs, n = last[j],
         attempt[j][n].marker # None, attempt'[j][n].marker # None
  PROVE  n = last'[j]
<1>1. RInv' /\ (SameJob(j) \/ JobTurn(j)) /\ [Lifecycle!Next]_job
  BY ProtocolKeeps, StepTurns, StepRefines DEF RInv
<1>2. CASE SameJob(j)
  BY <1>2 DEF SameJob
<1>3. ASSUME NEW m \in Seqs, RowTurn(j, m), last'[j] # last[j] PROVE FALSE
  <2>1. /\ m = last'[j] /\ m = n + 1 /\ m # n /\ n \in Nat \ {0} /\ n < last'[j]
        /\ attempt'[j][m].status \in {"queued", "running"}
        /\ job'[j] = AggregateOf(attempt'[j][m])
    BY <1>3 DEF RowTurn, Seqs
  <2>2. attempt[j][n].status \in {"running", "outcome_unknown"}
        /\ attempt'[j][n] = attempt[j][n]
    BY <1>3, <2>1 DEF RowTurn, RInv, IInv, UncertaintyKept
  <2>3. attempt'[j][n].status \in Settled \cup {"waiting_approval"}
    BY <1>1, <2>1 DEF RInv, IInv, AggregateAgrees
  <2>4. attempt[j][n].status = "outcome_unknown"
    BY <2>2, <2>3 DEF Settled
  <2>5. job[j] = "outcome_unknown"
    BY <2>1, <2>4 DEF RInv, IInv, AggregateAgrees, AggregateOf, StoppedBehind, Latest
  <2>6. job'[j] = "outcome_unknown"
    BY <1>1, <2>5, UnknownIsKept
  <2> QED
    BY <2>1, <2>6 DEF AggregateOf
<1> QED
  BY <1>1, <1>2, <1>3 DEF JobTurn

(* A step that leaves the markers and the provider alone.                   *)
LEMMA KeptStep ==
  ASSUME WInv, [Next]_vars, FrameTypes', acts' = acts,
         \A j \in Jobs, n \in Seqs : attempt'[j][n].marker = attempt[j][n].marker,
         \A j \in Jobs, n \in Seqs :
           \/ Kept(F(j, n), frame'[j][n]) \/ Calm(frame'[j][n])
           \/ frame'[j][n].pc = "claimed" /\ attempt[j][n].marker = None
  PROVE  WInv'
<1>1. RInv' /\ \A j \in Jobs, c \in Calls :
        call[j][c].status \in Result => call'[j][c].status = call[j][c].status
  BY ProtocolKeeps DEF WInv
<1>2. MarkerIsNewest'
  BY NewestKept DEF WInv, MarkerIsNewest
<1>3. ASSUME NEW j \in Jobs, NEW n \in Seqs
      PROVE  Fits(frame'[j][n], attempt'[j][n].marker, acts'[j])
  <2>1. Fits(F(j, n), attempt[j][n].marker, acts[j])
    BY DEF WInv, FramesFit
  <2>2. CASE Kept(F(j, n), frame'[j][n])
    BY <2>1, <2>2 DEF Kept, Fits
  <2>3. CASE Calm(frame'[j][n])
    BY <2>3 DEF Calm, Fits
  <2>4. CASE frame'[j][n].pc = "claimed" /\ attempt[j][n].marker = None
    BY <2>4 DEF Fits
  <2> QED
    BY <2>2, <2>3, <2>4
<1>4. FramesFit'
  BY <1>3 DEF FramesFit, F
<1>5. EffectsAreAccountedFor'
  <2> SUFFICES ASSUME NEW j \in Jobs, NEW c \in Calls
               PROVE  /\ acts'[j][c] <= 1
                      /\ acts'[j][c] = 1 =>
                           \/ call'[j][c].status \in Result
                           \/ \E n \in Seqs : /\ attempt'[j][n].marker = c
                                              /\ attempt'[j][n].status \in {"running", "outcome_unknown"}
    BY DEF EffectsAreAccountedFor
  <2>1. /\ acts[j][c] <= 1
        /\ acts[j][c] = 1 =>
             call[j][c].status \in Result \/ \E n \in Seqs : attempt[j][n].marker = c
    BY DEF WInv, EffectsAreAccountedFor
  <2>2. ASSUME NEW n \in Seqs, attempt[j][n].marker = c
        PROVE  attempt'[j][n].marker = c /\ attempt'[j][n].status \in {"running", "outcome_unknown"}
    <3>1. attempt'[j][n].marker = c /\ c # None
      BY <2>2, ConstantsAssumption
    <3> QED
      BY <1>1, <3>1 DEF RInv, IInv, UncertaintyKept
  <2> QED
    BY <1>1, <2>1, <2>2
<1> QED
  BY <1>1, <1>2, <1>4, <1>5 DEF WInv, ActTypes

-----------------------------------------------------------------------------
(* Which transactions leave the markers alone.                              *)

Marks == \A j \in Jobs, n \in Seqs : attempt'[j][n].marker = attempt[j][n].marker

LEMMA MarkOfWrite ==
  ASSUME RInv, NEW j \in Jobs, NEW n \in Seqs, NEW b, SetAttempt(j, n, b),
         b.marker = attempt[j][n].marker
  PROVE  Marks
  BY DEF RInv, IInv, TypeOK, SetAttempt, Marks

LEMMA MarkOfInsert ==
  ASSUME RInv, MarkerIsNewest, NEW j \in Jobs, NEW b, InsertAttempt(j, b), b.marker = None
  PROVE  Marks
<1>1. last[j] \in Nat /\ last[j] + 1 # last[j]
  BY DEF RInv, IInv, TypeOK
<1>2. last[j] + 1 \in Seqs => attempt[j][last[j] + 1].marker = None
  BY <1>1 DEF MarkerIsNewest
<1> QED
  BY <1>2 DEF RInv, IInv, TypeOK, InsertAttempt, Marks

LEMMA StoppedMarks ==
  ASSUME RInv, NEW j \in Jobs, NEW r \in Reasons, RequestJobCancellation(j, r)
  PROVE  Marks
<1>1. PICK n \in Seqs : CancelQueued(j, n, r) \/ CancelRunning(j, n, r) \/ CancelWaiting(j, n, r)
  BY DEF RequestJobCancellation
<1>2. PICK b : SetAttempt(j, n, b) /\ b.marker = attempt[j][n].marker
  <2>1. attempt[j][n] \in Attempt
    BY DEF RInv, IInv, TypeOK
  <2>2. [attempt[j][n] EXCEPT !.status = "cancelled", !.cancel = r].marker = attempt[j][n].marker
    BY <2>1 DEF Attempt
  <2>3. [attempt[j][n] EXCEPT !.cancel = r, !.leaseLive = TRUE].marker = attempt[j][n].marker
    BY <2>1 DEF Attempt
  <2> QED
    BY <1>1, <2>2, <2>3 DEF CancelQueued, CancelRunning, CancelWaiting, CancelIdle, BeginCancel
<1> QED
  BY <1>2, MarkOfWrite

LEMMA ProducedMarks ==
  ASSUME RInv, MarkerIsNewest, NEW j \in Jobs, Produce(j)
  PROVE  Marks
<1>1. \A i, b : QueuedAttempt(i, b).marker = None
  BY DEF QueuedAttempt, NoAttempt
<1>2. \A i, b, w : Running(QueuedAttempt(i, b), w).marker = None
  BY DEF Running, QueuedAttempt, NoAttempt
<1>3. ASSUME NEW r \in Reasons, RequestJobCancellation(j, r) PROVE Marks
  BY <1>3, StoppedMarks
<1>4. CASE \/ \E b \in BOOLEAN : CreateQueuedJob(j, b) \/ EnqueueContinuation(j, b)
           \/ \E p \in Jobs, n \in Seqs, w \in Workers : CreateClaimedChild(p, n, w, j)
           \/ EnqueueRetry(j)
           \/ \E c \in Calls, b \in BOOLEAN : EnqueueApprovalResume(j, c, b)
  BY <1>1, <1>2, <1>4, MarkOfInsert DEF CreateQueuedJob, EnqueueContinuation, CreateClaimedChild,
     EnqueueRetry, EnqueueApprovalResume
<1> QED
  BY <1>3, <1>4 DEF Produce

LEMMA HeldMarks ==
  ASSUME RInv, NEW j \in Jobs, NEW n \in Seqs, NEW w \in Workers,
         \/ ClaimAttempt(j, n, w) \/ HeartbeatAttemptControl(j, n, w)
         \/ \E o \in Outcome, c \in Calls, b \in BOOLEAN : SettleAttempt(j, n, w, o, c, b)
  PROVE  Marks
<1>1. attempt[j][n] \in Attempt
  BY DEF RInv, IInv, TypeOK
<1>2. ASSUME NEW a \in Attempt
      PROVE  /\ Running(a, w).marker = a.marker
             /\ [a EXCEPT !.cancel = "deadline", !.leaseLive = TRUE].marker = a.marker
             /\ \A s, r : [a EXCEPT !.status = s, !.cancel = r].marker = a.marker
  BY DEF Running, Attempt
<1>3. CASE ClaimAttempt(j, n, w)
  BY <1>1, <1>2, <1>3, MarkOfWrite DEF ClaimAttempt
<1>4. CASE HeartbeatAttemptControl(j, n, w)
  BY <1>1, <1>2, <1>4, MarkOfWrite DEF HeartbeatAttemptControl, BeginCancel
<1>5. ASSUME NEW o \in Outcome, NEW c \in Calls, NEW b \in BOOLEAN, SettleAttempt(j, n, w, o, c, b)
      PROVE  Marks
  <2>1. PICK s, r : SetAttempt(j, n, [attempt[j][n] EXCEPT !.status = s, !.cancel = r])
    BY <1>5 DEF SettleAttempt
  <2>2. [attempt[j][n] EXCEPT !.status = s, !.cancel = r].marker = attempt[j][n].marker
    BY <1>1, <1>2
  <2> QED
    BY <2>1, <2>2, MarkOfWrite
<1> QED
  BY <1>3, <1>4, <1>5

LEMMA RecoveredMarks ==
  ASSUME RInv, NEW S \in SUBSET Expired, AbandonExpiredAttempts(S)
  PROVE  Marks
<1> SUFFICES ASSUME NEW j \in Jobs, NEW n \in Seqs
             PROVE  attempt'[j][n].marker = attempt[j][n].marker
  BY DEF Marks
<1>1. attempt[j][n] \in Attempt
  BY DEF RInv, IInv, TypeOK
<1>2. \A s : [attempt[j][n] EXCEPT !.status = s].marker = attempt[j][n].marker
  BY <1>1 DEF Attempt
<1>3. attempt'[j][n] = IF <<j, n>> \in S
                         THEN [attempt[j][n] EXCEPT !.status = RecoveredStatus(attempt[j][n])]
                         ELSE attempt[j][n]
  BY DEF AbandonExpiredAttempts
<1> QED
  BY <1>2, <1>3

-----------------------------------------------------------------------------
(* The steps of the worker.                                                 *)

\* One frame is kept or comes to rest, and no marker moves.
LEMMA FrameStep ==
  ASSUME WInv, [Next]_vars, Marks, acts' = acts, up' = up,
         NEW j \in Jobs, NEW n \in Seqs, NEW g \in Frame, SetFrame(j, n, g),
         \/ Kept(F(j, n), g) \/ Calm(g)
         \/ g.pc = "claimed" /\ attempt[j][n].marker = None
  PROVE  WInv'
<1>1. /\ frame' \in [Jobs -> [Seqs -> Frame]]
      /\ \A k \in Jobs, m \in Seqs : frame'[k][m] = IF k = j /\ m = n THEN g ELSE F(k, m)
  BY FrameSet DEF WInv
<1>2. FrameTypes'
  BY <1>1 DEF WInv, FrameTypes
<1>3. \A k \in Jobs, m \in Seqs :
        \/ Kept(F(k, m), frame'[k][m]) \/ Calm(frame'[k][m])
        \/ frame'[k][m].pc = "claimed" /\ attempt[k][m].marker = None
  BY <1>1 DEF Kept
<1> QED
  BY <1>2, <1>3, KeptStep DEF Marks

LEMMA NoMarksMoved ==
  ASSUME UNCHANGED vars
  PROVE  Marks /\ [Next]_vars
  BY DEF vars, Marks

LEMMA LiveWorker ==
  ASSUME FrameTypes, NEW j \in Jobs, NEW n \in Seqs
  PROVE  /\ F(j, n) \in Frame
         /\ \A p : At(j, n, p) => F(j, n).worker \in Workers
         /\ TimersOn(j, n) => F(j, n).worker \in Workers
  BY DEF FrameTypes, F, At, TimersOn

LEMMA WorkIsNext ==
  ASSUME NEW j \in Jobs, NEW n \in Seqs, NEW w \in Workers, Work(j, n, w)
  PROVE  [Next]_vars
  BY DEF Next

LEMMA ProduceIsNext ==
  ASSUME NEW j \in Jobs, Produce(j)
  PROVE  [Next]_vars
  BY DEF Next

LEMMA ClaimStep ==
  ASSUME WInv, NEW j \in Jobs, NEW n \in Seqs, NEW w \in Workers, Claim(j, n, w)
  PROVE  [Next]_vars /\ WInv'
<1>1. ClaimAttempt(j, n, w) /\ acts' = acts /\ up' = up
  BY DEF Claim
<1>2. [Next]_vars /\ Marks
  BY <1>1, WorkIsNext, HeldMarks DEF Work, WInv
<1>3. PICK g : g = [NoFrame EXCEPT !.pc = "claimed", !.worker = w]
  OBVIOUS
<1>4. g \in Frame /\ g.pc = "claimed"
  BY <1>3, NoFrameIsFrame DEF NoFrame
<1>5. attempt[j][n].marker = None
  BY <1>1 DEF ClaimAttempt, WInv, RInv, IInv, UncertaintyKept
<1>6. SetFrame(j, n, g)
  BY <1>3 DEF Claim
<1> QED
  BY <1>1, <1>2, <1>4, <1>5, <1>6, FrameStep

LEMMA StartStep ==
  ASSUME WInv, NEW j \in Jobs, NEW n \in Seqs, StartClaimed(j, n)
  PROVE  [Next]_vars /\ WInv'
<1>1. UNCHANGED vars /\ acts' = acts /\ up' = up /\ Goto(j, n, "run")
  BY DEF StartClaimed
<1> QED
  BY <1>1, GotoKeeps, NoMarksMoved, FrameStep DEF WInv

LEMMA ReleaseStep ==
  ASSUME WInv, NEW j \in Jobs, NEW n \in Seqs, ReleaseClaimed(j, n)
  PROVE  [Next]_vars /\ WInv'
<1> DEFINE w == F(j, n).worker
<1>1. /\ At(j, n, "claimed") /\ acts' = acts /\ up' = up /\ SetFrame(j, n, NoFrame)
      /\ ReleaseUnstartedAttempt(j, n, w) \/ UNCHANGED vars
  BY DEF ReleaseClaimed
<1>2. w \in Workers /\ attempt[j][n].marker = None
  BY <1>1, LiveWorker DEF WInv, FramesFit, Fits, At
<1>3. [Next]_vars /\ Marks
  <2>1. CASE ReleaseUnstartedAttempt(j, n, w)
    <3>1. Work(j, n, w)
      BY <2>1 DEF Work
    <3>2. \A i, b : QueuedAttempt(i, b).marker = None
      BY DEF QueuedAttempt, NoAttempt
    <3>3. Marks
      BY <1>2, <2>1, <3>2, MarkOfWrite DEF ReleaseUnstartedAttempt, WInv
    <3> QED
      BY <1>2, <3>1, <3>3, WorkIsNext
  <2>2. CASE UNCHANGED vars
    BY <2>2, NoMarksMoved
  <2> QED
    BY <1>1, <2>1, <2>2
<1>4. NoFrame \in Frame /\ Calm(NoFrame)
  BY NoFrameIsFrame DEF NoFrame, Calm
<1> QED
  BY <1>1, <1>3, <1>4, FrameStep

\* The timers and the listener.
LEMMA TimerStep ==
  ASSUME WInv, NEW j \in Jobs, NEW n \in Seqs, Timer(j, n)
  PROVE  [Next]_vars /\ WInv'
<1> DEFINE f == F(j, n)
           w == f.worker
<1>1. f \in Frame /\ w \in Workers /\ acts' = acts /\ up' = up
  BY LiveWorker DEF WInv, Timer, PollControl, HeartbeatFails, AbortAttempt,
     CascadeParentCancellation
<1>2. CASE PollControl(j, n)
  <2>1. \/ HeartbeatAttemptControl(j, n, w) /\ SetFrame(j, n, Aborted(f, "deadline"))
        \/ /\ attempt[j][n].cancel # "none" /\ UNCHANGED vars
           /\ SetFrame(j, n, Aborted(f, attempt[j][n].cancel))
        \/ UNCHANGED vars /\ SetFrame(j, n, LoseLease(f))
    BY <1>2 DEF PollControl
  <2>2. attempt[j][n].cancel # "none" => attempt[j][n].cancel \in {"user", "deadline"}
    BY DEF WInv, RInv, IInv, TypeOK, Attempt, Reasons
  <2>3. \E g \in Frame : SetFrame(j, n, g) /\ Kept(f, g)
    BY <1>1, <2>1, <2>2, TimersKeep
  <2>4. [Next]_vars /\ Marks
    <3>1. CASE HeartbeatAttemptControl(j, n, w)
      BY <1>1, <3>1, WorkIsNext, HeldMarks DEF Work, WInv
    <3> QED
      BY <2>1, <3>1, NoMarksMoved
  <2> QED
    BY <1>1, <2>3, <2>4, FrameStep
<1>3. CASE HeartbeatFails(j, n) \/ AbortAttempt(j, n)
  <2>1. UNCHANGED vars /\ (SetFrame(j, n, LoseLease(f)) \/ SetFrame(j, n, Aborted(f, "user")))
    BY <1>3 DEF HeartbeatFails, AbortAttempt
  <2>2. \E g \in Frame : SetFrame(j, n, g) /\ Kept(f, g)
    BY <1>1, <2>1, TimersKeep
  <2> QED
    BY <1>1, <2>1, <2>2, NoMarksMoved, FrameStep
<1>4. CASE CascadeParentCancellation(j, n)
  <2>1. PICK r : r = IF ParentFrame(j, n).aborted = "lease" THEN "user" ELSE ParentFrame(j, n).aborted
    OBVIOUS
  <2>2. r \in {"user", "deadline"}
    <3>1. f.parent \in Jobs \X Seqs
      BY <1>1, <1>4, FrameFields DEF CascadeParentCancellation
    <3>2. ParentFrame(j, n) \in Frame
      BY <3>1, LiveWorker DEF ParentFrame, WInv
    <3>3. ParentFrame(j, n).aborted \in {"user", "deadline", "lease"}
      BY <1>4, <3>2, FrameFields DEF CascadeParentCancellation, Aborts
    <3> QED
      BY <2>1, <3>3
  <2>3. /\ RequestJobCancellation(j, r) \/ UNCHANGED vars
        /\ \/ SetFrame(j, n, [Aborted(f, r) EXCEPT !.cascaded = TRUE])
           \/ SetFrame(j, n, [f EXCEPT !.cascaded = TRUE])
           \/ SetFrame(j, n, [LoseLease(f) EXCEPT !.cascaded = TRUE])
    BY <1>4, <2>1 DEF CascadeParentCancellation
  <2>4. \E g \in Frame : SetFrame(j, n, g) /\ Kept(f, g)
    BY <1>1, <2>2, <2>3, TimersKeep
  <2>5. [Next]_vars /\ Marks
    <3>1. CASE RequestJobCancellation(j, r)
      BY <2>2, <3>1, ProduceIsNext, StoppedMarks DEF Produce, Reasons, WInv
    <3> QED
      BY <2>3, <3>1, NoMarksMoved
  <2> QED
    BY <1>1, <2>4, <2>5, FrameStep
<1> QED
  BY <1>2, <1>3, <1>4 DEF Timer

\* The execution goes back to its loop, or falls through to its end.
LEMMA RestStep ==
  ASSUME WInv, [Next]_vars, Marks, acts' = acts, up' = up,
         NEW j \in Jobs, NEW n \in Seqs,
         Goto(j, n, "run") \/ \E lost \in BOOLEAN : Throw(j, n, lost)
  PROVE  WInv'
<1>1. \E g \in Frame : SetFrame(j, n, g) /\ Calm(g)
  BY GotoKeeps, ThrowKeeps DEF WInv
<1> QED
  BY <1>1, FrameStep

LEMMA NotRecordedStep ==
  ASSUME WInv, NEW j \in Jobs, NEW n \in Seqs, NEW live, NotRecorded(j, n, live),
         acts' = acts, up' = up
  PROVE  [Next]_vars /\ WInv'
<1>1. UNCHANGED vars /\ \E lost \in BOOLEAN : Throw(j, n, lost)
  BY DEF NotRecorded
<1> QED
  BY <1>1, NoMarksMoved, RestStep

\* A result that is on record, with the marker as it was.
LEMMA RecordedStep ==
  ASSUME WInv, NEW j \in Jobs, NEW n \in Seqs, NEW w \in Workers,
         NEW c \in Calls, NEW s \in Result, NEW g \in BOOLEAN,
         ApplyAttemptEffects(j, n, w, c, s, g, FALSE), Goto(j, n, "run"),
         acts' = acts, up' = up
  PROVE  [Next]_vars /\ WInv'
<1>1. Work(j, n, w)
  BY DEF Work
<1>2. [Next]_vars
  BY <1>1, WorkIsNext
<1>3. Marks
  BY DEF ApplyAttemptEffects, Marks
<1> QED
  BY <1>2, <1>3, RestStep

LEMMA AssertStep ==
  ASSUME WInv, NEW j \in Jobs, NEW n \in Seqs, AssertLive(j, n)
  PROVE  [Next]_vars /\ WInv'
<1> DEFINE f == F(j, n)
<1>1. f \in Frame /\ UNCHANGED vars /\ acts' = acts /\ up' = up
  BY LiveWorker DEF AssertLive, WInv
<1>2. SetFrame(j, n, [f EXCEPT !.pc = "live"]) \/ Throw(j, n, f.aborted = "no")
  BY DEF AssertLive
<1>3. CASE SetFrame(j, n, [f EXCEPT !.pc = "live"])
  <2>1. \E g \in Frame : SetFrame(j, n, g) /\ Calm(g)
    BY <1>1, <1>3, Landed
  <2> QED
    BY <1>1, <2>1, NoMarksMoved, FrameStep
<1>4. CASE Throw(j, n, f.aborted = "no")
  <2>1. \E lost \in BOOLEAN : Throw(j, n, lost)
    BY <1>4
  <2> QED
    BY <1>1, <2>1, NoMarksMoved, RestStep
<1> QED
  BY <1>2, <1>3, <1>4

LEMMA ToolStep ==
  ASSUME WInv, NEW j \in Jobs, NEW n \in Seqs, NEW c \in Calls, NEW s \in Result,
         RunTool(j, n, c, s) \/ ReportAborted(j, n, c)
  PROVE  [Next]_vars /\ WInv'
<1> DEFINE w == F(j, n).worker
           live == LiveAttempt(j, n, w)
<1>1. w \in Workers /\ acts' = acts /\ up' = up
  BY LiveWorker DEF RunTool, ReportAborted, WInv
<1>2. Gated(j, c) \in BOOLEAN /\ "failed" \in Result
  BY DEF Gated, Result
<1>3. \/ \E r \in Result : ApplyAttemptEffects(j, n, w, c, r, Gated(j, c), FALSE) /\ Goto(j, n, "run")
      \/ NotRecorded(j, n, live)
  BY <1>2 DEF RunTool, ReportAborted
<1> QED
  BY <1>1, <1>2, <1>3, RecordedStep, NotRecordedStep

-----------------------------------------------------------------------------
(* The external call: marked, performed, recorded.                          *)

LEMMA BeginStep ==
  ASSUME WInv, NEW j \in Jobs, NEW n \in Seqs, NEW c \in Calls, BeginExternalEffect(j, n, c)
  PROVE  [Next]_vars /\ WInv'
<1> DEFINE f == F(j, n)
           w == f.worker
<1>1. w \in Workers /\ f \in Frame /\ acts' = acts /\ up' = up /\ Runnable(j, c)
  BY LiveWorker DEF BeginExternalEffect, WInv
<1>2. \/ /\ BeginExternalAttemptEffect(j, n, w, c)
         /\ SetFrame(j, n, [f EXCEPT !.pc = "calling", !.target = c])
      \/ \E r \in Result : ApplyAttemptEffects(j, n, w, c, r, Gated(j, c), FALSE) /\ Goto(j, n, "run")
      \/ NotRecorded(j, n, LiveAttempt(j, n, w))
  BY DEF BeginExternalEffect, Result
<1>3. CASE \E r \in Result : ApplyAttemptEffects(j, n, w, c, r, Gated(j, c), FALSE) /\ Goto(j, n, "run")
  <2>1. Gated(j, c) \in BOOLEAN
    BY DEF Gated
  <2> QED
    BY <1>1, <1>3, <2>1, RecordedStep
<1>4. CASE NotRecorded(j, n, LiveAttempt(j, n, w))
  BY <1>1, <1>4, NotRecordedStep
<1>5. ASSUME BeginExternalAttemptEffect(j, n, w, c), NEW g \in Frame, SetFrame(j, n, g),
             g.pc = "calling", g.target = c
      PROVE  [Next]_vars /\ WInv'
  <2>1. Work(j, n, w)
    BY <1>5 DEF Work
  <2>2. [Next]_vars
    BY <1>1, <2>1, WorkIsNext
  <2>3. RInv' /\ UNCHANGED <<job, last, call>>
    BY <1>5, <2>2, ProtocolKeeps DEF WInv, BeginExternalAttemptEffect
  <2>4. attempt[j][n].status = "running" /\ attempt[j][n].marker = None /\ c # None
    BY <1>5, ConstantsAssumption DEF BeginExternalAttemptEffect, LiveAttempt, Owned
  <2>5. n = last[j]
    BY <2>4, ActiveIsLatest DEF WInv, RInv
  <2>6. \A k \in Jobs, m \in Seqs :
          attempt'[k][m] = IF k = j /\ m = n THEN [attempt[j][n] EXCEPT !.marker = c] ELSE attempt[k][m]
    BY <1>5 DEF BeginExternalAttemptEffect, SetAttempt, WInv, RInv, IInv, TypeOK
  <2>7. [attempt[j][n] EXCEPT !.marker = c].marker = c
    BY DEF WInv, RInv, IInv, TypeOK, Attempt
  <2>8. acts[j][c] = 0
    <3>1. acts[j][c] # 1
      <4>1. call[j][c].status \notin Result
        BY <1>1 DEF Runnable, Result
      <4>2. \A m \in Seqs : attempt[j][m].marker # c
        BY <2>4, <2>5 DEF WInv, MarkerIsNewest
      <4> QED
        BY <4>1, <4>2 DEF WInv, EffectsAreAccountedFor
    <3>2. acts[j][c] <= 1 /\ acts[j][c] \in Nat
      BY DEF WInv, EffectsAreAccountedFor, ActTypes
    <3> QED
      BY <3>1, <3>2
  <2>9. /\ frame' \in [Jobs -> [Seqs -> Frame]]
        /\ \A k \in Jobs, m \in Seqs : frame'[k][m] = IF k = j /\ m = n THEN g ELSE F(k, m)
    BY <1>5, FrameSet DEF WInv
  <2>10. MarkerIsNewest'
    BY <2>3, <2>5, <2>6 DEF WInv, MarkerIsNewest
  <2>11. ASSUME NEW k \in Jobs, NEW m \in Seqs
         PROVE  Fits(frame'[k][m], attempt'[k][m].marker, acts'[k])
    <3>1. CASE k = j /\ m = n
      BY <1>1, <1>5, <2>6, <2>7, <2>8, <2>9, <3>1 DEF Fits
    <3>2. CASE ~(k = j /\ m = n)
      BY <1>1, <2>6, <2>9, <3>2 DEF WInv, FramesFit
    <3> QED
      BY <3>1, <3>2
  <2>12. FramesFit'
    BY <2>11 DEF FramesFit, F
  <2>13. EffectsAreAccountedFor'
    <3> SUFFICES ASSUME NEW k \in Jobs, NEW d \in Calls
                 PROVE  /\ acts'[k][d] <= 1
                        /\ acts'[k][d] = 1 =>
                             \/ call'[k][d].status \in Result
                             \/ \E m \in Seqs : /\ attempt'[k][m].marker = d
                                                /\ attempt'[k][m].status \in {"running", "outcome_unknown"}
      BY DEF EffectsAreAccountedFor
    <3>1. /\ acts[k][d] <= 1
          /\ acts[k][d] = 1 =>
               \/ call[k][d].status \in Result
               \/ \E m \in Seqs : /\ attempt[k][m].marker = d
                                  /\ attempt[k][m].status \in {"running", "outcome_unknown"}
      BY DEF WInv, EffectsAreAccountedFor
    <3>2. ASSUME NEW m \in Seqs, attempt[k][m].marker = d
          PROVE  attempt'[k][m] = attempt[k][m]
      BY <2>4, <2>6, <3>2, ConstantsAssumption
    <3> QED
      BY <1>1, <2>3, <3>1, <3>2
  <2> QED
    BY <1>1, <2>2, <2>3, <2>9, <2>10, <2>12, <2>13 DEF WInv, FrameTypes, ActTypes
<1>6. CASE /\ BeginExternalAttemptEffect(j, n, w, c)
           /\ SetFrame(j, n, [f EXCEPT !.pc = "calling", !.target = c])
  <2>1. PICK g : g = [f EXCEPT !.pc = "calling", !.target = c]
    OBVIOUS
  <2>2. g \in Frame /\ g.pc = "calling" /\ g.target = c
    BY <1>1, <2>1 DEF Frame, Pcs
  <2> QED
    BY <1>5, <1>6, <2>1, <2>2
<1> QED
  BY <1>2, <1>3, <1>4, <1>6

LEMMA ProviderStep ==
  ASSUME WInv, NEW j \in Jobs, NEW n \in Seqs, ProviderActs(j, n)
  PROVE  [Next]_vars /\ WInv'
<1> DEFINE f == F(j, n)
           c == f.target
<1>1. /\ f \in Frame /\ UNCHANGED vars /\ up' = up /\ f.pc = "calling"
      /\ acts' = [acts EXCEPT ![j][c] = @ + 1]
      /\ SetFrame(j, n, [f EXCEPT !.pc = "acted"])
  BY LiveWorker DEF ProviderActs, WInv
<1>2. c \in Calls /\ attempt[j][n].marker = c /\ acts[j][c] = 0 /\ c # None
  BY <1>1, ConstantsAssumption DEF WInv, FramesFit, Fits
<1>3. PICK g : g = [f EXCEPT !.pc = "acted"]
  OBVIOUS
<1>4. g \in Frame /\ g.pc = "acted" /\ g.target = c
  BY <1>1, <1>3 DEF Frame, Pcs
<1>5. /\ frame' \in [Jobs -> [Seqs -> Frame]]
      /\ \A k \in Jobs, m \in Seqs : frame'[k][m] = IF k = j /\ m = n THEN g ELSE F(k, m)
  BY <1>1, <1>3, <1>4, FrameSet DEF WInv
<1>6. /\ acts' \in [Jobs -> [Calls -> Nat]]
      /\ \A k \in Jobs, d \in Calls : acts'[k][d] = IF k = j /\ d = c THEN 1 ELSE acts[k][d]
  BY <1>1, <1>2 DEF WInv, ActTypes
<1>7. RInv' /\ UNCHANGED <<attempt, call, last>>
  BY <1>1, NoMarksMoved, ProtocolKeeps DEF WInv, vars
<1>8. MarkerIsNewest'
  BY <1>7 DEF WInv, MarkerIsNewest
<1>9. ASSUME NEW k \in Jobs, NEW m \in Seqs
      PROVE  Fits(frame'[k][m], attempt'[k][m].marker, acts'[k])
  <2>1. Fits(F(k, m), attempt[k][m].marker, acts[k])
    BY DEF WInv, FramesFit
  <2>2. CASE k = j /\ m = n
    BY <1>2, <1>4, <1>5, <1>7, <2>2 DEF Fits
  <2>3. CASE k = j /\ m # n
    <3>1. F(k, m).pc # "calling"
      BY <1>2, <2>1, <2>3, ConstantsAssumption DEF Fits, WInv, MarkerIsNewest
    <3> QED
      BY <1>5, <1>7, <2>1, <2>3, <3>1 DEF Fits
  <2>4. CASE k # j
    <3>1. F(k, m).pc = "calling" => F(k, m).target \in Calls
      BY <2>1 DEF Fits
    <3> QED
      BY <1>5, <1>6, <1>7, <2>1, <2>4, <3>1 DEF Fits
  <2> QED
    BY <2>2, <2>3, <2>4
<1>10. FramesFit'
  BY <1>9 DEF FramesFit, F
<1>11. EffectsAreAccountedFor'
  <2>1. attempt[j][n].status \in {"running", "outcome_unknown"}
    BY <1>2 DEF WInv, RInv, IInv, UncertaintyKept
  <2> QED
    BY <1>2, <1>6, <1>7, <2>1 DEF WInv, EffectsAreAccountedFor
<1> QED
  BY <1>1, <1>5, <1>6, <1>7, <1>8, <1>10, <1>11, NoMarksMoved DEF WInv, FrameTypes, ActTypes

\* The result of the call is on record, and its marker is cleared.
LEMMA CompletedStep ==
  ASSUME WInv, NEW j \in Jobs, NEW n \in Seqs, NEW w \in Workers, NEW c \in Calls,
         NEW s \in Result, NEW g \in BOOLEAN,
         \/ CompleteExternalAttemptEffect(j, n, w, c, s, g)
         \/ ApplyAttemptEffects(j, n, w, c, s, g, TRUE),
         Goto(j, n, "run"), acts' = acts, up' = up
  PROVE  [Next]_vars /\ WInv'
<1>1. Work(j, n, w)
  BY DEF Work
<1>2. [Next]_vars
  BY <1>1, WorkIsNext
<1>3. /\ RecordToolResult(j, n, c, s, g) /\ attempt[j][n].marker = c
      /\ SetAttempt(j, n, [attempt[j][n] EXCEPT !.marker = None])
      /\ UNCHANGED last
  BY DEF CompleteExternalAttemptEffect, ApplyAttemptEffects
<1>4. RInv' /\ \A k \in Jobs, d \in Calls :
        call[k][d].status \in Result => call'[k][d].status \in Result
  BY <1>2, ProtocolKeeps DEF WInv
<1>5. call'[j][c].status \in Result
  <2>1. CASE call[j][c].status = s /\ UNCHANGED call
    BY <2>1
  <2>2. CASE call' = [call EXCEPT ![j][c] = [status |-> s, attempt |-> n]]
    <3>1. RInv
      BY DEF WInv
    <3>2. /\ call'[j][c] = [status |-> s, attempt |-> n]
          /\ \A d \in Calls : d # c => call'[j][d] = call[j][d]
          /\ \A k \in Jobs : k # j => call'[k] = call[k]
      BY <2>2, <3>1, WrittenCall
    <3> QED
      BY <3>2
  <2> QED
    BY <1>3, <2>1, <2>2 DEF RecordToolResult
<1>6. \A k \in Jobs, m \in Seqs :
        attempt'[k][m] = IF k = j /\ m = n THEN [attempt[j][n] EXCEPT !.marker = None] ELSE attempt[k][m]
  BY <1>3 DEF SetAttempt, WInv, RInv, IInv, TypeOK
<1>7. [attempt[j][n] EXCEPT !.marker = None].marker = None
  BY DEF WInv, RInv, IInv, TypeOK, Attempt
<1>8. PICK h \in Frame : SetFrame(j, n, h) /\ Calm(h)
  BY GotoKeeps DEF WInv
<1>9. /\ frame' \in [Jobs -> [Seqs -> Frame]]
      /\ \A k \in Jobs, m \in Seqs : frame'[k][m] = IF k = j /\ m = n THEN h ELSE F(k, m)
  BY <1>8, FrameSet DEF WInv
<1>10. MarkerIsNewest'
  <2>1. \A k \in Jobs, m \in Seqs : attempt'[k][m].marker # None => attempt[k][m].marker # None
    BY <1>6, <1>7
  <2> QED
    BY <1>3, <2>1 DEF WInv, MarkerIsNewest
<1>11. ASSUME NEW k \in Jobs, NEW m \in Seqs
       PROVE  Fits(frame'[k][m], attempt'[k][m].marker, acts'[k])
  <2>1. CASE k = j /\ m = n
    BY <1>8, <1>9, <2>1 DEF Calm, Fits
  <2>2. CASE ~(k = j /\ m = n)
    BY <1>6, <1>9, <2>2 DEF WInv, FramesFit
  <2> QED
    BY <2>1, <2>2
<1>12. FramesFit'
  BY <1>11 DEF FramesFit, F
<1>13. EffectsAreAccountedFor'
  <2> SUFFICES ASSUME NEW k \in Jobs, NEW d \in Calls
               PROVE  /\ acts'[k][d] <= 1
                      /\ acts'[k][d] = 1 =>
                           \/ call'[k][d].status \in Result
                           \/ \E m \in Seqs : /\ attempt'[k][m].marker = d
                                              /\ attempt'[k][m].status \in {"running", "outcome_unknown"}
    BY DEF EffectsAreAccountedFor
  <2>1. /\ acts[k][d] <= 1
        /\ acts[k][d] = 1 =>
             \/ call[k][d].status \in Result
             \/ \E m \in Seqs : /\ attempt[k][m].marker = d
                                /\ attempt[k][m].status \in {"running", "outcome_unknown"}
    BY DEF WInv, EffectsAreAccountedFor
  <2>2. ASSUME NEW m \in Seqs, attempt[k][m].marker = d, ~(k = j /\ d = c)
        PROVE  attempt'[k][m] = attempt[k][m]
    BY <1>3, <1>6, <2>2
  <2> QED
    BY <1>4, <1>5, <2>1, <2>2
<1> QED
  BY <1>2, <1>4, <1>9, <1>10, <1>12, <1>13 DEF WInv, FrameTypes, ActTypes

LEMMA ReturnStep ==
  ASSUME WInv, NEW j \in Jobs, NEW n \in Seqs, NEW s \in Result, NEW known \in BOOLEAN,
         CallReturns(j, n, s, known)
  PROVE  [Next]_vars /\ WInv'
<1> DEFINE w == F(j, n).worker
           c == F(j, n).target
           g == Gated(j, c)
           live == IF known THEN LiveOrCancelling(j, n, w) ELSE LiveAttempt(j, n, w)
<1>1. w \in Workers /\ acts' = acts /\ up' = up
  BY LiveWorker DEF CallReturns, WInv
<1>2. c \in Calls
  BY DEF CallReturns, At, WInv, FramesFit, Fits
<1>3. g \in BOOLEAN
  BY DEF Gated
<1>4. \/ /\ \/ CompleteExternalAttemptEffect(j, n, w, c, s, g)
            \/ ApplyAttemptEffects(j, n, w, c, s, g, TRUE)
         /\ Goto(j, n, "run")
      \/ ApplyAttemptEffects(j, n, w, c, s, g, FALSE) /\ Goto(j, n, "run")
      \/ NotRecorded(j, n, live)
  BY DEF CallReturns
<1> HIDE DEF w, c, g, live
<1>5. CASE NotRecorded(j, n, live)
  BY <1>1, <1>5, NotRecordedStep
<1>6. CASE ApplyAttemptEffects(j, n, w, c, s, g, FALSE) /\ Goto(j, n, "run")
  BY <1>1, <1>2, <1>3, <1>6, RecordedStep
<1>7. CASE /\ \/ CompleteExternalAttemptEffect(j, n, w, c, s, g)
              \/ ApplyAttemptEffects(j, n, w, c, s, g, TRUE)
           /\ Goto(j, n, "run")
  BY <1>1, <1>2, <1>3, <1>7, CompletedStep
<1> QED
  BY <1>4, <1>5, <1>6, <1>7

-----------------------------------------------------------------------------
(* The rest of the execution and its end.                                   *)

LEMMA EndStep ==
  ASSUME WInv, NEW j \in Jobs, NEW n \in Seqs, NEW o \in Outcome, NEW c \in Calls \cup {None},
         EndTurn(j, n, o, c)
  PROVE  [Next]_vars /\ WInv'
<1> DEFINE f == F(j, n)
<1>1. /\ f \in Frame /\ UNCHANGED vars /\ acts' = acts /\ up' = up
      /\ o = "waiting_approval" => c \in Calls
      /\ SetFrame(j, n, [f EXCEPT !.pc = "finish", !.outcome = o, !.target = c])
  BY LiveWorker DEF EndTurn, WInv
<1>2. PICK g : g = [f EXCEPT !.pc = "finish", !.outcome = o, !.target = c]
  OBVIOUS
<1>3. g \in Frame /\ Calm(g) /\ SetFrame(j, n, g)
  BY <1>1, <1>2 DEF Frame, Calm, Pcs
<1> QED
  BY <1>1, <1>3, NoMarksMoved, FrameStep

LEMMA ChildStep ==
  ASSUME WInv, NEW p \in Jobs, NEW m \in Seqs, NEW j \in Jobs, ExecuteChild(p, m, j)
  PROVE  [Next]_vars /\ WInv'
<1> DEFINE f == F(p, m)
<1>1. f \in Frame /\ f.worker \in Workers /\ acts' = acts /\ up' = up
  BY LiveWorker DEF ExecuteChild, WInv
<1>2. CASE Goto(p, m, "run") /\ UNCHANGED vars
  BY <1>1, <1>2, NoMarksMoved, RestStep
<1>3. CASE /\ CreateClaimedChild(p, m, f.worker, j)
           /\ frame' = [[frame EXCEPT ![p][m] = [f EXCEPT !.pc = "child"]] EXCEPT
                ![j][1] = [NoFrame EXCEPT !.pc = "run", !.worker = f.worker,
                                          !.parent = <<p, m>>]]
  <2>1. PICK g : g = [f EXCEPT !.pc = "child"]
    OBVIOUS
  <2>2. PICK h : h = [NoFrame EXCEPT !.pc = "run", !.worker = f.worker, !.parent = <<p, m>>]
    OBVIOUS
  <2>3. g \in Frame /\ Calm(g)
    BY <1>1, <2>1, Landed
  <2>4. h \in Frame /\ h.pc = "run"
    BY <1>1, <2>2, NoFrameIsFrame DEF NoFrame
  <2>5. Calm(h)
    BY <2>4 DEF Calm
  <2>6. 1 \in Seqs
    BY SeqsFact
  <2>7. /\ frame' \in [Jobs -> [Seqs -> Frame]]
        /\ \A k \in Jobs, i \in Seqs :
             frame'[k][i] = F(k, i) \/ frame'[k][i] = g \/ frame'[k][i] = h
    <3>1. frame' = [[frame EXCEPT ![p][m] = g] EXCEPT ![j][1] = h]
      BY <1>3, <2>1, <2>2
    <3>2. frame \in [Jobs -> [Seqs -> Frame]]
      BY DEF WInv, FrameTypes
    <3> HIDE DEF Frame
    <3>3. PICK fr : fr = [frame EXCEPT ![p][m] = g]
      OBVIOUS
    <3>4. fr \in [Jobs -> [Seqs -> Frame]]
      BY <2>3, <3>2, <3>3
    <3>5. \A k \in Jobs, i \in Seqs : fr[k][i] = frame[k][i] \/ fr[k][i] = g
      BY <3>2, <3>3
    <3>6. frame' = [fr EXCEPT ![j][1] = h]
      BY <3>1, <3>3
    <3>7. frame' \in [Jobs -> [Seqs -> Frame]]
      BY <2>4, <2>6, <3>4, <3>6
    <3>8. \A k \in Jobs, i \in Seqs : frame'[k][i] = fr[k][i] \/ frame'[k][i] = h
      BY <2>6, <3>4, <3>6
    <3> QED
      BY <3>5, <3>7, <3>8 DEF F
  <2>8. Produce(j)
    BY <1>1, <1>3 DEF Produce
  <2>9. [Next]_vars /\ Marks
    BY <2>8, ProduceIsNext, ProducedMarks DEF WInv
  <2>10. FrameTypes'
    BY <1>1, <2>7 DEF WInv, FrameTypes
  <2>11. \A k \in Jobs, i \in Seqs : Kept(F(k, i), frame'[k][i]) \/ Calm(frame'[k][i])
    BY <2>3, <2>5, <2>7 DEF Kept
  <2> QED
    BY <1>1, <2>9, <2>10, <2>11, KeptStep DEF Marks
<1> QED
  BY <1>2, <1>3 DEF ExecuteChild

LEMMA LeaveKeeps ==
  ASSUME FrameTypes, NEW j \in Jobs, NEW n \in Seqs, Leave(j, n)
  PROVE  /\ frame' \in [Jobs -> [Seqs -> Frame]]
         /\ \A k \in Jobs, m \in Seqs : Kept(F(k, m), frame'[k][m]) \/ Calm(frame'[k][m])
<1>1. ASSUME NEW k \in Jobs, NEW m \in Seqs
      PROVE  frame'[k][m] \in Frame /\ (Kept(F(k, m), frame'[k][m]) \/ Calm(frame'[k][m]))
  <2>1. F(k, m) \in Frame
    BY DEF FrameTypes, F
  <2>2. NoFrame \in Frame /\ Calm(NoFrame)
    BY NoFrameIsFrame DEF NoFrame, Calm
  <2>3. [F(k, m) EXCEPT !.pc = "run"] \in Frame /\ Calm([F(k, m) EXCEPT !.pc = "run"])
    BY <2>1, Landed
  <2>4. frame'[k][m] \in {NoFrame, [F(k, m) EXCEPT !.pc = "run"], F(k, m)}
    BY DEF Leave
  <2> QED
    BY <2>1, <2>2, <2>3, <2>4 DEF Kept
<1> HIDE DEF Frame
<1>2. frame' \in [Jobs -> [Seqs -> Frame]]
  <2>1. \E f : frame' = [k \in Jobs |-> [m \in Seqs |-> f[k][m]]]
    <3>1. frame' = [k \in Jobs |-> [m \in Seqs |-> frame'[k][m]]]
      BY DEF Leave
    <3> QED
      BY <3>1
  <2> QED
    BY <1>1, <2>1
<1> QED
  BY <1>1, <1>2

LEMMA SettleStep ==
  ASSUME WInv, NEW j \in Jobs, NEW n \in Seqs, Settle(j, n) \/ LeaveUnsettled(j, n)
  PROVE  [Next]_vars /\ WInv'
<1> DEFINE f == F(j, n)
           w == f.worker
<1>1. /\ f \in Frame /\ w \in Workers /\ acts' = acts /\ up' = up
      /\ Leave(j, n) /\ f.pc = "finish"
      /\ SettleAttempt(j, n, w, f.outcome, f.target, FALSE) \/ UNCHANGED vars
  BY LiveWorker DEF Settle, LeaveUnsettled, WInv, At
<1>2. /\ FrameTypes'
      /\ \A k \in Jobs, m \in Seqs : Kept(F(k, m), frame'[k][m]) \/ Calm(frame'[k][m])
  BY <1>1, LeaveKeeps DEF WInv, FrameTypes
<1>3. CASE UNCHANGED vars
  BY <1>1, <1>2, <1>3, NoMarksMoved, KeptStep DEF Marks
<1>4. CASE SettleAttempt(j, n, w, f.outcome, f.target, FALSE)
  <2>1. \E c \in Calls : SettleAttempt(j, n, w, f.outcome, c, FALSE)
    <3>1. f.outcome = "waiting_approval" => f.target \in Calls
      BY <1>1 DEF WInv, FramesFit, Fits
    <3>2. CASE f.target \in Calls
      BY <1>4, <3>2
    <3>3. CASE f.outcome # "waiting_approval"
      <4>1. PICK c \in Calls : TRUE
        BY WorkerAssumption
      <4>2. SettleAttempt(j, n, w, f.outcome, c, FALSE)
        BY <1>4, <3>3 DEF SettleAttempt, SettleEffects
      <4> QED
        BY <4>2
    <3> QED
      BY <3>1, <3>2, <3>3
  <2>2. f.outcome \in Outcome /\ FALSE \in BOOLEAN
    BY <1>1, FrameFields
  <2>3. PICK c \in Calls, o \in Outcome : SettleAttempt(j, n, w, o, c, FALSE)
    BY <2>1, <2>2
  <2>4. Work(j, n, w)
    BY <2>2, <2>3 DEF Work
  <2>5. [Next]_vars
    BY <1>1, <2>4, WorkIsNext
  <2>6. Marks
    BY <1>1, <2>2, <2>3, HeldMarks DEF WInv
  <2> QED
    BY <1>1, <1>2, <2>5, <2>6, KeptStep DEF Marks
<1> QED
  BY <1>1, <1>3, <1>4

-----------------------------------------------------------------------------
(* Processes, recovery and the owner.                                       *)

LEMMA ProcessStep ==
  ASSUME WInv, NEW w \in Workers, Stop(w) \/ Crash(w)
  PROVE  [Next]_vars /\ WInv'
<1>1. UNCHANGED vars /\ acts' = acts /\ up' \subseteq Workers
  BY DEF Stop, Crash, WInv, FrameTypes
<1>2. /\ frame' \in [Jobs -> [Seqs -> Frame]]
      /\ \A k \in Jobs, m \in Seqs : frame'[k][m] = NoFrame \/ frame'[k][m] = F(k, m)
  <2>1. frame \in [Jobs -> [Seqs -> Frame]] /\ NoFrame \in Frame
    BY NoFrameIsFrame DEF WInv, FrameTypes
  <2> HIDE DEF Frame
  <2>2. CASE Stop(w)
    BY <2>1, <2>2 DEF Stop, F
  <2>3. CASE Crash(w)
    BY <2>1, <2>3 DEF Crash, F
  <2> QED
    BY <2>2, <2>3
<1>3. Calm(NoFrame)
  BY DEF NoFrame, Calm
<1>4. \A k \in Jobs, m \in Seqs : Kept(F(k, m), frame'[k][m]) \/ Calm(frame'[k][m])
  BY <1>2, <1>3 DEF Kept
<1> QED
  BY <1>1, <1>2, <1>4, NoMarksMoved, KeptStep DEF FrameTypes, Marks

\* A transaction that no frame takes part in.
LEMMA OutsideStep ==
  ASSUME WInv, [Next]_vars, Marks, UNCHANGED workerVars
  PROVE  WInv'
<1>1. frame' = frame /\ up' = up /\ acts' = acts
  BY DEF workerVars
<1>2. FrameTypes' /\ \A k \in Jobs, m \in Seqs : Kept(F(k, m), frame'[k][m])
  BY <1>1 DEF WInv, FrameTypes, Kept, F
<1> QED
  BY <1>1, <1>2, KeptStep DEF Marks

LEMMA OwnerStep ==
  ASSUME WInv, NEW j \in Jobs, Owner(j)
  PROVE  [Next]_vars /\ WInv'
<1>1. Produce(j) /\ UNCHANGED workerVars
  BY DEF Owner, Produce, Reasons
<1> QED
  BY <1>1, ProduceIsNext, ProducedMarks, OutsideStep DEF WInv

LEMMA ClockStep ==
  ASSUME WInv, NEW j \in Jobs, NEW n \in Seqs, Clock(j, n), UNCHANGED workerVars
  PROVE  [Next]_vars /\ WInv'
<1>1. [Next]_vars
  BY DEF Next
<1>2. Marks
  <2>1. attempt[j][n] \in Attempt
    BY DEF WInv, RInv, IInv, TypeOK
  <2>2. ASSUME NEW a \in Attempt
        PROVE  /\ [a EXCEPT !.leaseLive = FALSE].marker = a.marker
               /\ [a EXCEPT !.deadlinePassed = TRUE].marker = a.marker
    BY DEF Attempt
  <2> QED
    BY <2>1, <2>2, MarkOfWrite DEF WInv, Clock, LeaseExpires, DeadlinePasses
<1> QED
  BY <1>1, <1>2, OutsideStep

LEMMA RecoverStep ==
  ASSUME WInv, NEW S \in SUBSET Expired, RecoverOnce(S)
  PROVE  [Next]_vars /\ WInv'
<1>1. AbandonExpiredAttempts(S) /\ UNCHANGED workerVars
  BY DEF RecoverOnce
<1>2. [Next]_vars
  BY <1>1 DEF Next
<1>3. Marks
  BY <1>1, RecoveredMarks DEF WInv
<1> QED
  BY <1>1, <1>2, <1>3, OutsideStep

-----------------------------------------------------------------------------

LEMMA WorkerStarts == WorkerInit => WInv
<1> SUFFICES ASSUME WorkerInit PROVE WInv
  OBVIOUS
<1>1. Init /\ RInv
  BY RecordsInit DEF WorkerInit
<1>2. /\ \A j \in Jobs, n \in Seqs : F(j, n) = NoFrame /\ attempt[j][n] = NoAttempt
      /\ \A j \in Jobs, c \in Calls : acts[j][c] = 0
  BY <1>1 DEF WorkerInit, Init, F
<1>3. FrameTypes /\ ActTypes
  BY NoFrameIsFrame DEF WorkerInit, FrameTypes, ActTypes
<1>4. MarkerIsNewest
  BY <1>2 DEF MarkerIsNewest, NoAttempt
<1>5. FramesFit
  BY <1>2 DEF FramesFit, Fits, NoFrame
<1>6. EffectsAreAccountedFor
  BY <1>2 DEF EffectsAreAccountedFor
<1> QED
  BY <1>1, <1>3, <1>4, <1>5, <1>6 DEF WInv

LEMMA ExecuteStep ==
  ASSUME WInv, NEW j \in Jobs, NEW n \in Seqs, Execute(j, n)
  PROVE  [Next]_vars /\ WInv'
<1>1. CASE \E c \in Calls : \/ ReportAborted(j, n, c)
                            \/ \E s \in Result : RunTool(j, n, c, s)
                            \/ BeginExternalEffect(j, n, c)
  <2>1. "failed" \in Result
    BY DEF Result
  <2> QED
    BY <1>1, <2>1, ToolStep, BeginStep
<1>2. CASE \E s \in Result, known \in BOOLEAN : CallReturns(j, n, s, known)
  BY <1>2, ReturnStep
<1>3. CASE \E o \in Outcome, c \in Calls \cup {None} : EndTurn(j, n, o, c)
  BY <1>3, EndStep
<1>4. CASE \E k \in Jobs : ExecuteChild(j, n, k)
  BY <1>4, ChildStep
<1>5. CASE StartClaimed(j, n) \/ ReleaseClaimed(j, n) \/ AssertLive(j, n)
  BY <1>5, StartStep, ReleaseStep, AssertStep
<1>6. CASE ProviderActs(j, n) \/ Settle(j, n) \/ LeaveUnsettled(j, n)
  BY <1>6, ProviderStep, SettleStep
<1> QED
  BY <1>1, <1>2, <1>3, <1>4, <1>5, <1>6 DEF Execute

LEMMA WorkerSteps == WInv /\ [WorkerNext]_allVars => [Next]_vars /\ WInv'
<1> SUFFICES ASSUME WInv, [WorkerNext]_allVars PROVE [Next]_vars /\ WInv'
  OBVIOUS
<1>1. CASE UNCHANGED allVars
  <2>1. UNCHANGED vars /\ UNCHANGED workerVars
    BY <1>1 DEF allVars
  <2> QED
    BY <2>1, NoMarksMoved, OutsideStep
<1>2. CASE \E w \in Workers : Stop(w) \/ Crash(w)
  BY <1>2, ProcessStep
<1>3. CASE \E j \in Jobs : Owner(j)
  BY <1>3, OwnerStep
<1>4. CASE \E j \in Jobs, n \in Seqs : Timer(j, n) \/ Execute(j, n)
  BY <1>4, TimerStep, ExecuteStep
<1>5. CASE \E j \in Jobs, n \in Seqs, w \in Workers : Claim(j, n, w)
  BY <1>5, ClaimStep
<1>6. CASE \E j \in Jobs, n \in Seqs : Clock(j, n) /\ UNCHANGED workerVars
  BY <1>6, ClockStep
<1>7. CASE \E S \in SUBSET Expired : RecoverOnce(S)
  BY <1>7, RecoverStep
<1> QED
  BY <1>1, <1>2, <1>3, <1>4, <1>5, <1>6, <1>7 DEF WorkerNext

LEMMA WorkerInvariant == WorkerSpec => []WInv
<1>1. WorkerInit => WInv
  BY WorkerStarts
<1>2. WInv /\ [WorkerNext]_allVars => WInv'
  BY WorkerSteps
<1> QED
  BY <1>1, <1>2, PTL DEF WorkerSpec

(* Every frame, process set and call counter stays of its type.             *)
THEOREM WorkerTypesHold == WorkerSpec => []WorkerTypeOK
<1>1. WorkerInit => accepting \subseteq Workers
  BY DEF WorkerInit
<1>2. accepting \subseteq Workers /\ [WorkerNext]_allVars => (accepting \subseteq Workers)'
  <2> SUFFICES ASSUME [WorkerNext]_allVars PROVE accepting' \subseteq accepting
    OBVIOUS
  <2>1. ASSUME NEW j \in Jobs, NEW n \in Seqs, Timer(j, n) \/ Execute(j, n)
        PROVE  accepting' = accepting
    BY <2>1 DEF Timer, PollControl, HeartbeatFails, AbortAttempt, CascadeParentCancellation,
       Execute, StartClaimed, ReleaseClaimed, AssertLive, ReportAborted, RunTool,
       BeginExternalEffect, EndTurn, ProviderActs, CallReturns, ExecuteChild, Settle, LeaveUnsettled
  <2>2. ASSUME NEW w \in Workers, Stop(w) \/ Crash(w) PROVE accepting' \subseteq accepting
    BY <2>2 DEF Stop, Crash
  <2> QED
    BY <2>1, <2>2 DEF WorkerNext, Owner, Claim, RecoverOnce, workerVars, allVars
<1>3. WInv /\ accepting \subseteq Workers => WorkerTypeOK
  <2> SUFFICES ASSUME WInv, accepting \subseteq Workers PROVE WorkerTypeOK
    OBVIOUS
  <2>1. ASSUME NEW j \in Jobs, NEW c \in Calls PROVE acts[j][c] \in 0 .. MaxActs
    <3>1. acts[j][c] \in Nat
      BY DEF WInv, ActTypes
    <3>2. acts[j][c] <= 1
      BY DEF WInv, EffectsAreAccountedFor
    <3> QED
      BY <3>1, <3>2 DEF MaxActs
  <2> QED
    BY <2>1 DEF WInv, FrameTypes, ActTypes, WorkerTypeOK
<1> QED
  BY <1>1, <1>2, <1>3, WorkerInvariant, PTL DEF WorkerSpec

(* The executor never leaves the protocol: whatever it does between two     *)
(* lease assertions, with timers, crashes, failing database calls, inline   *)
(* children and answers that come late, each of its steps is a transaction  *)
(* of job-attempt-repo.ts or does not touch the database, so every theorem  *)
(* about Spec holds of the worker that job-worker.ts runs.                  *)
THEOREM WorkerFollowsTheProtocol == WorkerSpec => Spec
<1>1. WorkerInit => Init
  BY DEF WorkerInit
<1>2. WInv /\ [WorkerNext]_allVars => [Next]_vars
  BY WorkerSteps
<1> QED
  BY <1>1, <1>2, WorkerInvariant, PTL DEF WorkerSpec, Spec

(* A provider performs an external call at most once, and what it performed *)
(* is never lost: its result is on record, or the turn that sent it runs on *)
(* with the call's marker, or ended as outcome_unknown (runAndReport,       *)
(* beginExternalEffect, settleAttempt).                                     *)
THEOREM ExternalEffectsAreAccountedFor == WorkerSpec => []EffectsAreAccountedFor
<1>1. WInv => EffectsAreAccountedFor
  BY DEF WInv
<1> QED
  BY <1>1, WorkerInvariant, PTL

(* However late a worker learns that it lost its turn, one chat never has   *)
(* two calls at providers: the frame that sent one is of the newest turn,   *)
(* and no turn follows one whose call may still be out.                     *)
THEOREM OneCallAtATime == WorkerSpec => []OneCallInFlight
<1>1. ASSUME WInv PROVE OneCallInFlight
  <2> SUFFICES ASSUME NEW j \in Jobs, NEW m \in Seqs, NEW n \in Seqs,
                      F(j, m).pc \in {"calling", "acted"}, F(j, n).pc \in {"calling", "acted"}
               PROVE  m = n
    BY DEF OneCallInFlight
  <2>1. attempt[j][m].marker # None /\ attempt[j][n].marker # None
    BY <1>1, ConstantsAssumption DEF WInv, FramesFit, Fits
  <2> QED
    BY <1>1, <2>1 DEF WInv, MarkerIsNewest
<1>2. WInv => OneCallInFlight
  BY <1>1
<1> QED
  BY <1>2, WorkerInvariant, PTL

=============================================================================
