------------------------------- MODULE MCOwner -------------------------------
(* What faces the owner, side by side: the questions of a turn, the chat on *)
(* the screen, and the notices outside the page.  In each behaviour one     *)
(* part moves and the others rest, so that the states of the run are the    *)
(* sum of the parts and not their product.                                  *)
EXTENDS MCApprovalGate, LiveChat, Notifications

VARIABLE part

\* A batch whose turn was cancelled before it began: nothing is left to do.
GateAtRest ==
  /\ permission = Permission /\ persona = Permission
  /\ registered = Tools /\ inFlight = {} /\ allowing = {}
  /\ row = [c \in Calls |-> "none"] /\ decisions = [c \in Calls |-> "none"]
  /\ memo = <<>> /\ resume = "none" /\ phase = "cancelled" /\ position = 1
  /\ ran = [c \in Calls |-> 0] /\ edits = 0

\* A chat that is done, and shown as done.
ChatAtRest ==
  /\ job = [status |-> "done", turns |-> 1] /\ unpublished = "none" /\ conn = NoConn
  /\ page = [shown |-> "done", source |-> "closed", pending |-> FALSE]
  /\ fetch = [f \in Fetches |-> "none"] /\ snapshot = [s \in Paths |-> "none"]
  /\ worker = [controls |-> FALSE, job |-> "none", list |-> "none",
               jobReads |-> 0, listReads |-> 0]
  /\ drops = 0

OwnerInit ==
  /\ part \in {"gate", "chat", "notifications"}
  /\ IF part = "gate" THEN GateInit ELSE GateAtRest
  /\ IF part = "chat" THEN ChatInit ELSE ChatAtRest
  \* Bound: behind a service worker no connection is lost and one turn is shown.
  /\ IF worker.controls THEN drops = MaxDrops /\ job.turns = MaxTurns
                        ELSE drops = 0 /\ job.turns = 1
  /\ NotificationsInit
  /\ part # "notifications" => ~ settings.quiet /\ settings.devices = {}

OwnerNext ==
  \/ part = "gate" /\ GateNext /\ UNCHANGED <<part, chatVars, notificationsVars>>
  \/ part = "chat" /\ ChatNext /\ UNCHANGED <<part, gateVars, notificationsVars>>
  \/ part = "notifications" /\ NotificationsNext /\ UNCHANGED <<part, gateVars, chatVars>>

\* No fair action is enabled in a part at rest.
OwnerSpec ==
  /\ OwnerInit /\ [][OwnerNext]_<<part, gateVars, chatVars, notificationsVars>>
  /\ GateFairness /\ ChatFairness /\ NotificationsFairness

OwnerTypeOK == GateTypeOK /\ ChatTypeOK /\ NotificationsTypeOK

=============================================================================
