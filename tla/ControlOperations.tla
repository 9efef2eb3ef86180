-------------------------- MODULE ControlOperations --------------------------
(***************************************************************************)
(* Idempotent control operations: the rows that                            *)
(* backend/src/control/control-repo.ts keeps in control_operations and     *)
(* control_audit_events, and the transitions its functions make on them.   *)
(*                                                                         *)
(* A key stands for one (actor, action, idempotency key), which is unique  *)
(* in control_operations.  Every function is one statement.  A claim that  *)
(* is refused (other arguments, still in progress, failed) or replayed     *)
(* (completed) changes nothing and is no step here.                        *)
(***************************************************************************)
CONSTANTS
  Keys,      \* idempotency keys
  Requests,  \* an action with its arguments
  NoRequest

ASSUME OperationsAssumption == NoRequest \notin Requests

VARIABLES
  op,     \* control_operations: status and arguments of each key
  audit   \* control_audit_events.outcome of the row of each key

\* "reconciling" is in_progress with the error category
\* scheduler_reconciliation_pending, which claims tell apart.
OperationStatus == {"none", "in_progress", "reconciling", "completed", "failed"}

AuditOutcome == {"none", "pending", "reconciling", "succeeded", "failed"}

OperationsTypeOK ==
  /\ op \in [Keys -> [status : OperationStatus, request : Requests \cup {NoRequest}]]
  /\ audit \in [Keys -> AuditOutcome]

OperationsInit ==
  /\ op = [k \in Keys |-> [status |-> "none", request |-> NoRequest]]
  /\ audit = [k \in Keys |-> "none"]

\* Mutant: a key whose operation failed may be claimed again.
ClaimableAgain(k, q) ==
  op[k].status = "none" \/ op[k] = [status |-> "failed", request |-> q]

\* Only the insert that finds no row of the key wins it.
Claimable(k, q) == op[k].status = "none"

\* claimControlOperation(): kind "claimed".
ClaimControlOperation(k, q) ==
  /\ Claimable(k, q)
  /\ op' = [op EXCEPT ![k] = [status |-> "in_progress", request |-> q]]

\* claimControlOperation(): kind "reconciliation_pending".
ReconciliationPending(k, q) == op[k] = [status |-> "reconciling", request |-> q]

Unsettled(k) == op[k].status \in {"in_progress", "reconciling"}

SetStatus(k, s) ==
  op' = IF Unsettled(k) THEN [op EXCEPT ![k].status = s] ELSE op

\* Mutant: a mutation whose scheduling failed is reported failed.
FailControlOperationInstead(k) == SetStatus(k, "failed")

MarkControlOperationReconciliationPending(k) == SetStatus(k, "reconciling")

CompleteControlOperation(k) == SetStatus(k, "completed")

\* failControlOperation() replaces the error category, whatever it was.
FailControlOperation(k) == SetStatus(k, "failed")

\* createControlAuditEvent(), settleControlAuditEvent() and
\* markControlAuditEventReconciliationPending() write the row whatever it says.
SetAudit(k, outcome) == audit' = [audit EXCEPT ![k] = outcome]
=============================================================================
