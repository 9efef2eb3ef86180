---------------------------- MODULE ApprovalGate ----------------------------
(***************************************************************************)
(* The approval gate: callTools() of backend/src/graph/persona-graph.ts,   *)
(* with what the dispatcher, the tool-call routes and the effects of a     *)
(* turn do around it, for one assistant message that makes several calls.  *)
(*                                                                         *)
(* A gated call pauses the turn.  Each decision of the owner queues a new  *)
(* attempt that replays the whole node from the top: interrupt() hands out *)
(* the decisions of earlier attempts by position, then the one this        *)
(* attempt brings, and pauses at the first call beyond them.  Only when no *)
(* call is left to ask about does anything run.                            *)
(***************************************************************************)
EXTENDS Naturals, Sequences, FiniteSetsExt

CONSTANTS
  Tools,         \* tool ids
  ToolOf,        \* the batch: a sequence of tool ids, one per call
  Permission,    \* the persona's permissions when the batch is made
  Destructive,   \* tools whose risk class is destructive
  OriginAllowed, \* tools this job's origin may call
  Delegating,    \* delegate_to, which onDelegate handles
  MaxEdits       \* bound on edits

Permissions == {"allow", "ask", "blocked"}

ASSUME GateAssumption ==
  /\ ToolOf \in Seq(Tools) /\ ToolOf # <<>>
  /\ Permission \in [Tools -> Permissions]
  /\ Destructive \subseteq Tools /\ OriginAllowed \subseteq Tools
  /\ Delegating \subseteq Tools
  /\ MaxEdits \in Nat

VARIABLES
  permission,  \* personas.assigned_tool_ids
  registered,  \* the live tool registry
  row,         \* tool_calls.status of each call of the batch
  memo,        \* decisions the checkpoint keeps for interrupt(), by position
  resume,      \* the decision the queued attempt brings: its Command
  phase,       \* where the turn is
  persona,     \* permission as the attempt loaded it
  inFlight,    \* inFlightGatedToolIds, as the attempt loaded them
  position,    \* the call Phase 2 is at, or the one Phase 1 asks about
  decisions,   \* Phase 1's map from call to decision
  ran,         \* how often each call was really executed
  allowing,    \* always-allow requests between their two transactions
  edits        \* how often anything but an answer to the shown request came:
               \* a changed persona or registry, or requests of two tabs racing

gateVars == <<permission, registered, row, memo, resume, phase, persona,
              inFlight, position, decisions, ran, allowing, edits>>

Calls == DOMAIN ToolOf

Rows == {"none", "pending_approval", "approved", "rejected", "executed",
         "failed", "cancelled"}

Phases == {"queued", "built", "executing", "pausing", "waiting", "done", "failed",
           "cancelled"}

Answers == {"approve", "reject"}

MaxRuns == 2

GateTypeOK ==
  /\ permission \in [Tools -> Permissions] /\ persona \in [Tools -> Permissions]
  /\ registered \subseteq Tools /\ inFlight \subseteq Tools
  /\ row \in [Calls -> Rows]
  /\ memo \in Seq(Answers) /\ Len(memo) <= Len(ToolOf)
  /\ resume \in Answers \cup {"none"}
  /\ phase \in Phases
  /\ position \in 1 .. Len(ToolOf) + 1
  /\ decisions \in [Calls -> Answers \cup {"none"}]
  /\ ran \in [Calls -> 0 .. MaxRuns]
  /\ allowing \subseteq Calls
  /\ edits \in 0 .. MaxEdits

GateInit ==
  /\ permission = Permission /\ persona = Permission
  /\ registered = Tools /\ inFlight = {}
  /\ row = [c \in Calls |-> "none"]
  /\ memo = <<>> /\ resume = "none"
  /\ phase = "queued" /\ position = 1
  /\ decisions = [c \in Calls |-> "none"]
  /\ ran = [c \in Calls |-> 0]
  /\ allowing = {} /\ edits = 0

-----------------------------------------------------------------------------
(* One attempt.                                                            *)

InFlightGated ==
  {ToolOf[c] : c \in {d \in Calls : row[d] \in {"pending_approval", "approved"}}}

\* executeClaimedExecution() loads the persona and driveTurn() the tool calls
\* of the job; no decision can be made meanwhile, for the job is running.
Build ==
  /\ phase = "queued"
  /\ persona' = permission
  /\ inFlight' = InFlightGated
  /\ decisions' = [c \in Calls |-> "none"]
  /\ phase' = "built"
  /\ UNCHANGED <<permission, registered, row, memo, resume, position, ran, allowing, edits>>

EffectivePermission(t) ==
  IF persona[t] = "blocked" THEN "blocked"
  ELSE IF t \in Destructive THEN "ask" ELSE persona[t]

\* Mutant: an Always-allow takes the calls in flight out of the gate.
GatedByPermission(t) == t \in OriginAllowed /\ EffectivePermission(t) = "ask"

GatedThisTurn(t) ==
  /\ t \in OriginAllowed
  /\ EffectivePermission(t) = "ask" \/ t \in inFlight

\* Phase 1 reaches interrupt() for this call.
Asks(c) == ToolOf[c] \in registered /\ GatedThisTurn(ToolOf[c])

\* interrupt() counts how often it was called: the place of a call's question.
Place(c) == Cardinality({d \in Calls : d <= c /\ Asks(d)})

\* Mutant: once the owner has answered, the answer is good for every call.
OneAnswerForAll(answers) ==
  [c \in Calls |-> IF answers # <<>> /\ Asks(c) THEN answers[Len(answers)] ELSE "none"]

Decided(answers) ==
  [c \in Calls |-> IF Asks(c) /\ Place(c) <= Len(answers) THEN answers[Place(c)] ELSE "none"]

Undecided(answers) == {c \in Calls : Asks(c) /\ Place(c) > Len(answers)}

\* Mutant: one loop asks and runs, so each replay repeats what precedes the
\* question.
RunWhatPrecedes(answers) ==
  ran' = [c \in Calls |->
            IF Undecided(answers) # {} /\ c < Min(Undecided(answers)) /\ ran[c] < MaxRuns
              THEN ran[c] + 1 ELSE ran[c]]

\* What Phase 1 does beside asking: nothing.
SideEffects(answers) == UNCHANGED ran

\* Phase 1 has no await: it is one step.  A resume value nobody asks for is
\* dropped.
PhaseOne ==
  LET answers == IF resume # "none" /\ Undecided(memo) # {}
                   THEN Append(memo, resume) ELSE memo
  IN  /\ phase = "built"
      /\ memo' = answers
      /\ resume' = "none"
      /\ decisions' = Decided(answers)
      /\ SideEffects(answers)
      /\ IF Undecided(answers) = {}
           THEN phase' = "executing" /\ position' = 1
           ELSE phase' = "pausing" /\ position' = Min(Undecided(answers))
      /\ UNCHANGED <<permission, registered, row, persona, inFlight, allowing, edits>>

\* The end of driveTurn() and the settlement as waiting_approval: the tool
\* must still be registered, and the row new or pending.
PauseForApproval ==
  /\ phase = "pausing"
  /\ IF ToolOf[position] \in registered /\ row[position] \in {"none", "pending_approval"}
       THEN phase' = "waiting" /\ row' = [row EXCEPT ![position] = "pending_approval"]
       ELSE phase' = "failed" /\ UNCHANGED row
  /\ UNCHANGED <<permission, registered, memo, resume, persona, inFlight, position,
                 decisions, ran, allowing, edits>>

-----------------------------------------------------------------------------
(* Phase 2: the call at position, then the next one.                       *)

Advance ==
  /\ position' = position + 1
  /\ phase' = IF position = Len(ToolOf) THEN "done" ELSE "executing"

Fails == phase' = "failed" /\ UNCHANGED position

\* spec.run() and record_tool_result.  A run that failed is recorded like one
\* that succeeded.  An audit row in any other state than the gate implies
\* throws, after the tool has run, and so does a lost lease or database.
RunAndReport(gated) ==
  /\ ran[position] < MaxRuns
  /\ ran' = [ran EXCEPT ![position] = @ + 1]
  /\ \/ /\ row[position] = IF gated THEN "approved" ELSE "none"
        /\ \E s \in {"executed", "failed"} : row' = [row EXCEPT ![position] = s]
        /\ Advance
     \/ /\ Fails
        /\ UNCHANGED row

\* Mutant: a refused call gets no result and the loop stays at it.
RefusedInPlace == UNCHANGED <<position, phase, row, ran>>

Refused == Advance /\ UNCHANGED <<row, ran>>

\* Delegation runs before the gate is consulted, and leaves no audit row.
Delegate ==
  /\ ran[position] < MaxRuns
  /\ ran' = [ran EXCEPT ![position] = @ + 1]
  /\ Advance
  /\ UNCHANGED row

PhaseTwo ==
  LET t == ToolOf[position]
      runnable == /\ t \in registered /\ t \in OriginAllowed
                  /\ EffectivePermission(t) # "blocked"
  IN  /\ phase = "executing"
      /\ \/ ~runnable /\ Refused
         \/ runnable /\ t \in Delegating /\ Delegate
         \/ /\ runnable /\ t \notin Delegating /\ GatedThisTurn(t)
            /\ \/ decisions[position] = "approve" /\ RunAndReport(TRUE)
               \/ decisions[position] = "reject" /\ Refused
               \/ decisions[position] = "none" /\ Fails /\ UNCHANGED <<row, ran>>
         \/ runnable /\ t \notin Delegating /\ ~GatedThisTurn(t) /\ RunAndReport(FALSE)
      /\ UNCHANGED <<permission, registered, memo, resume, persona, inFlight, decisions, allowing,
                    edits>>

\* Lost lease, stop, deadline or crash between two steps of the attempt.
TurnLost ==
  /\ phase \in {"built", "executing", "pausing"}
  /\ phase' = "failed"
  /\ UNCHANGED <<permission, registered, row, memo, resume, persona, inFlight,
                 position, decisions, ran, allowing, edits>>

-----------------------------------------------------------------------------
(* The owner.                                                              *)

Edit(cond) == /\ cond => edits < MaxEdits
              /\ edits' = IF cond THEN edits + 1 ELSE edits

\* Mutant: the decision is stored where its outcome belongs.
AnswerVerbatim(c, answer) ==
  /\ phase = "waiting" /\ row[c] = "pending_approval"
  /\ row' = [row EXCEPT ![c] = answer]
  /\ resume' = answer
  /\ phase' = "queued"
  /\ UNCHANGED <<registered, memo, persona, inFlight, position, decisions, ran>>

\* enqueueApprovalResume(), seen from the gate.
Answer(c, answer) ==
  /\ phase = "waiting" /\ row[c] = "pending_approval"
  /\ row' = [row EXCEPT ![c] = IF answer = "approve" THEN "approved" ELSE "rejected"]
  /\ resume' = answer
  /\ phase' = "queued"
  /\ UNCHANGED <<registered, memo, persona, inFlight, position, decisions, ran>>

\* POST /:id/approve and /:id/reject.
Resolve(c, answer) ==
  /\ Answer(c, answer)
  /\ Edit(allowing # {})
  /\ UNCHANGED <<permission, allowing>>

\* POST /:id/always-allow, first transaction: it looks at the risk class and
\* at the persona, not at the status of the call.
PersistAlwaysAllow(c) ==
  /\ row[c] # "none"
  /\ ToolOf[c] \notin Destructive
  /\ permission[ToolOf[c]] # "blocked"
  /\ permission' = [permission EXCEPT ![ToolOf[c]] = "allow"]
  /\ allowing' = allowing \cup {c}
  /\ Edit(row[c] # "pending_approval" \/ allowing # {})
  /\ UNCHANGED <<registered, row, memo, resume, phase, persona, inFlight, position,
                 decisions, ran>>

\* Its second transaction: an approval, or a conflict.
ThenApprove(c) ==
  /\ c \in allowing
  /\ allowing' = allowing \ {c}
  /\ \/ Answer(c, "approve")
     \/ /\ phase # "waiting" \/ row[c] # "pending_approval"
        /\ UNCHANGED <<registered, row, memo, resume, phase, persona, inFlight, position,
                       decisions, ran>>
  /\ UNCHANGED <<permission, edits>>

\* requestJobCancellation() of a waiting job.
CancelWaiting ==
  /\ phase = "waiting"
  /\ phase' = "cancelled"
  /\ row' = [c \in Calls |-> IF row[c] = "pending_approval" THEN "cancelled" ELSE row[c]]
  /\ UNCHANGED <<permission, registered, memo, resume, persona, inFlight, position,
                 decisions, ran, allowing, edits>>

\* PATCH of the persona; an MCP tool is revoked or registered again.
EditPersona(t, p) ==
  /\ permission' = [permission EXCEPT ![t] = p]
  /\ Edit(TRUE)
  /\ UNCHANGED <<registered, row, memo, resume, phase, persona, inFlight, position,
                 decisions, ran, allowing>>

EditRegistry(t) ==
  /\ registered' \in {registered \ {t}, registered \cup {t}}
  /\ Edit(TRUE)
  /\ UNCHANGED <<permission, row, memo, resume, phase, persona, inFlight, position,
                 decisions, ran, allowing>>

-----------------------------------------------------------------------------

Decide ==
  \E c \in Calls : \/ \E answer \in Answers : Resolve(c, answer)
                   \/ PersistAlwaysAllow(c)
                   \/ ThenApprove(c)

Turn == Build \/ PhaseOne \/ PauseForApproval \/ PhaseTwo

GateNext ==
  \/ Turn \/ TurnLost
  \/ Decide \/ CancelWaiting
  \/ \E t \in Tools : EditRegistry(t) \/ \E p \in Permissions : EditPersona(t, p)

GateSpec == GateInit /\ [][GateNext]_gateVars

\* The worker goes on with the turn and the owner answers in the end.
GateFairness ==
  /\ WF_gateVars(Turn)
  /\ WF_gateVars(\E c \in Calls : ThenApprove(c) \/ \E answer \in Answers : Resolve(c, answer))

FairGateSpec == GateSpec /\ GateFairness

-----------------------------------------------------------------------------

(* "Decline (tell the persona no)": a call the owner declined is never     *)
(* executed, however many attempts replay the batch and whatever became of *)
(* the tool's permission meanwhile.                                        *)
DeclinedNeverRuns == \A c \in Calls : row[c] = "rejected" => ran[c] = 0

(* The same while the owner only answers the requests that are shown, with *)
(* Approve, Decline or Always allow, one at a time.                        *)
DeclinedNeverRunsUnedited == edits = 0 => DeclinedNeverRuns

(* Phase 1 has "zero side effects" and Phase 2 is "exactly once", whatever *)
(* is edited: while a call of the batch is still to be decided, none has   *)
(* run, the ungated ones included, and no replay runs one again.           *)
NothingRunsBeforeEveryAnswer ==
  /\ phase \in {"queued", "built", "pausing", "waiting"} => \A c \in Calls : ran[c] = 0
  /\ \A c \in Calls : ran[c] <= 1

(* Nothing runs early or twice, and the decisions interrupt() hands out by *)
(* position reach the calls they were made for: unless the persona or a    *)
(* tool was edited meanwhile, a destructive call runs only on an approval  *)
(* of that very call, and when the batch is through, an approved call has  *)
(* its result on record, a declined one never runs and stays declined, and *)
(* no row makes the gate believe that a call is still in flight.           *)
DecisionsAreCarriedOut ==
  /\ NothingRunsBeforeEveryAnswer
  /\ edits = 0 =>
       /\ DeclinedNeverRuns
       /\ \A c \in Calls : ToolOf[c] \in Destructive /\ ran[c] > 0 =>
            row[c] \in {"approved", "executed", "failed"}
       /\ phase = "done" => \A c \in Calls :
            /\ row[c] \notin {"pending_approval", "approved"}
            /\ decisions[c] = "approve" => row[c] \in {"executed", "failed"}
            /\ decisions[c] = "reject" => row[c] = "rejected"

(* A turn that pauses over and over comes to an end: replaying the node    *)
(* never asks about the same call twice.                                   *)
EveryBatchEnds ==
  phase = "queued" ~> phase \in {"done", "failed", "cancelled"}

=============================================================================
