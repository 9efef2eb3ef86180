--------------------------- MODULE Notifications ---------------------------
(***************************************************************************)
(* The delivery of approval notices outside the page: Web Push to the      *)
(* registered devices, and one webhook (notifications/notify.ts,           *)
(* delivery-repo.ts, notification-repo.ts, and the loops of job-worker.ts  *)
(* that call them).                                                        *)
(*                                                                         *)
(* Settlement delivers a notice once it has committed.  Quiet hours hold   *)
(* the push; every recovery pass releases the held ones, which it knows by *)
(* the absence of a web_push delivery row.  No row or lock claims a notice *)
(* while it is delivered, and the process may die at any step.             *)
(***************************************************************************)
EXTENDS Naturals, FiniteSets

CONSTANTS
  Notices,     \* approval notices
  Devices,     \* push subscriptions there may be
  Webhook,     \* BOOLEAN: is NOTIFY_WEBHOOK_URL set?
  MaxChanges   \* bound: changes of the settings, deaths of the process

ASSUME NotificationsAssumption == Webhook \in BOOLEAN /\ MaxChanges \in Nat

VARIABLES
  notice,      \* a notification row and its delivery rows
  settings,    \* quiet hours in force, push enabled, devices, changes so far
  sender,      \* what settlement and the recovery loop are delivering
  raced        \* ghost: notices listed as held while settlement delivered them

notificationsVars == <<notice, settings, sender, raced>>

Senders == {"settlement", "recovery"}
Idle == [pc |-> "idle"]

\* attempted: devices with a web_push row; pushed: how often each was pushed to.
NoNotice == [state |-> "none", attempted |-> {}, delivered |-> FALSE,
             pushed |-> [d \in Devices |-> 0]]

NotificationsTypeOK ==
  /\ notice \in [Notices -> [state : {"none", "waiting", "acted"},
                             attempted : SUBSET Devices, delivered : BOOLEAN,
                             pushed : [Devices -> 0 .. 2]]]
  /\ settings \in [quiet : BOOLEAN, push : BOOLEAN, devices : SUBSET Devices,
                   changes : 0 .. MaxChanges]
  /\ \A s \in Senders : sender[s].pc \in {"idle", "list", "check", "send"}
  /\ raced \subseteq Notices

NotificationsInit ==
  /\ notice = [n \in Notices |-> NoNotice]
  /\ \E quiet \in BOOLEAN, devices \in SUBSET Devices :
       settings = [quiet |-> quiet, push |-> TRUE, devices |-> devices, changes |-> 0]
  /\ sender = [s \in Senders |-> Idle]
  /\ raced = {}

-----------------------------------------------------------------------------
(* What is delivered, and when.                                             *)

\* Settlement commits the notice of a paused turn, and then delivers it.
PauseTurn(n) ==
  /\ notice[n].state = "none" /\ sender["settlement"] = Idle
  /\ notice' = [notice EXCEPT ![n].state = "waiting"]
  /\ sender' = [sender EXCEPT !["settlement"] = [pc |-> "check", notice |-> n]]
  /\ UNCHANGED <<settings, raced>>

\* markNotificationActedByToolCallId, when the call is approved or declined.
ActOn(n) ==
  /\ notice[n].state = "waiting"
  /\ notice' = [notice EXCEPT ![n].state = "acted"]
  /\ UNCHANGED <<settings, sender, raced>>

\* Mutant: forgets to leave out what was already pushed.
AllUnacted == {n \in Notices : notice[n].state = "waiting"}

\* Mutant: also leaves out what the webhook delivered.
HeldUndelivered ==
  {n \in Notices : /\ notice[n].state = "waiting" /\ notice[n].attempted = {}
                   /\ ~ notice[n].delivered}

\* listHeldApprovalNotifications.
Held == {n \in Notices : notice[n].state = "waiting" /\ notice[n].attempted = {}}

\* releaseHeldApprovalPush, on every pass of the recovery loop.
StartRelease ==
  /\ sender["recovery"] = Idle /\ ~ settings.quiet /\ Held # {}
  /\ sender' = [sender EXCEPT !["recovery"] = [pc |-> "list", held |-> Held]]
  /\ raced' = raced \cup {n \in Held : sender["settlement"] # Idle
                                         /\ sender["settlement"].notice = n}
  /\ UNCHANGED <<notice, settings>>

NextHeld(n) ==
  /\ sender["recovery"].pc = "list" /\ n \in sender["recovery"].held
  /\ sender' = [sender EXCEPT !["recovery"] =
       [pc |-> "check", notice |-> n, held |-> sender["recovery"].held \ {n}]]
  /\ UNCHANGED <<notice, settings, raced>>

\* deliverNotification: quiet hours and the preference decide on the devices;
\* the webhook is called in any case.  "rows": the devices that still get a
\* delivery row, "calls": those that have theirs and are being pushed to.
ReadSettings(s) ==
  /\ sender[s].pc = "check"
  /\ sender' = [sender EXCEPT ![s] =
       [pc |-> "send", notice |-> sender[s].notice,
        held |-> IF s = "recovery" THEN sender[s].held ELSE {},
        rows |-> IF settings.push /\ ~ settings.quiet THEN settings.devices ELSE {},
        calls |-> {}, hook |-> Webhook, ok |-> FALSE]]
  /\ UNCHANGED <<notice, settings, raced>>

\* createNotificationDelivery keeps a row that is already there, and the push
\* follows all the same.
CreateDelivery(s, d) ==
  /\ sender[s].pc = "send" /\ d \in sender[s].rows
  /\ notice' = [notice EXCEPT ![sender[s].notice].attempted = @ \cup {d}]
  /\ sender' = [sender EXCEPT ![s].rows = @ \ {d}, ![s].calls = @ \cup {d}]
  /\ UNCHANGED <<settings, raced>>

Counted(k) == IF k < 2 THEN k + 1 ELSE 2

\* Delivered, failed, or expired: then the subscription is deleted.
SendPush(s, d) ==
  /\ sender[s].pc = "send" /\ d \in sender[s].calls
  /\ notice' = [notice EXCEPT ![sender[s].notice].pushed[d] = Counted(@)]
  /\ \E outcome \in {"delivered", "failed", "expired"} :
       /\ sender' = [sender EXCEPT ![s].calls = @ \ {d},
                                   ![s].ok = @ \/ outcome = "delivered"]
       /\ settings' = [settings EXCEPT !.devices =
                         IF outcome = "expired" THEN @ \ {d} ELSE @]
  /\ UNCHANGED raced

PostWebhook(s) ==
  /\ sender[s].pc = "send" /\ sender[s].hook
  /\ \E ok \in BOOLEAN :
       sender' = [sender EXCEPT ![s].hook = FALSE, ![s].ok = @ \/ ok]
  /\ UNCHANGED <<notice, settings, raced>>

EndDelivery(s) ==
  /\ sender[s].pc = "send"
  /\ sender[s].rows \cup sender[s].calls = {} /\ ~ sender[s].hook
  /\ notice' = [notice EXCEPT ![sender[s].notice].delivered = @ \/ sender[s].ok]
  /\ sender' = [sender EXCEPT ![s] =
       IF sender[s].held = {} THEN Idle ELSE [pc |-> "list", held |-> sender[s].held]]
  /\ UNCHANGED <<settings, raced>>

-----------------------------------------------------------------------------
(* What changes meanwhile.                                                  *)

Change(to) ==
  /\ settings.changes < MaxChanges
  /\ settings' = [to EXCEPT !.changes = @ + 1]

\* The clock enters or leaves the window, or the owner moves it; the owner
\* switches the channel, or registers and removes a device.
ChangeSettings ==
  /\ \/ Change([settings EXCEPT !.quiet = ~ @])
     \/ Change([settings EXCEPT !.push = ~ @])
     \/ \E d \in Devices : Change([settings EXCEPT !.devices =
                                     IF d \in @ THEN @ \ {d} ELSE @ \cup {d}])
  /\ UNCHANGED <<notice, sender, raced>>

\* Nobody delivers again what was committed, but for held approvals.
ServerDies ==
  /\ Change(settings)
  /\ sender' = [s \in Senders |-> Idle]
  /\ UNCHANGED <<notice, raced>>

NotificationsNext ==
  \/ \E n \in Notices : PauseTurn(n) \/ ActOn(n) \/ NextHeld(n)
  \/ StartRelease \/ ChangeSettings \/ ServerDies
  \/ \E s \in Senders :
       \/ ReadSettings(s) \/ PostWebhook(s) \/ EndDelivery(s)
       \/ \E d \in Devices : CreateDelivery(s, d) \/ SendPush(s, d)

\* The worker keeps settling and the recovery loop keeps coming round.
NotificationsFairness ==
  /\ WF_notificationsVars(StartRelease)
  /\ WF_notificationsVars(\E n \in Notices : NextHeld(n))
  /\ \A s \in Senders : WF_notificationsVars(
       (ReadSettings(s) \/ PostWebhook(s) \/ EndDelivery(s)
          \/ \E d \in Devices : CreateDelivery(s, d) \/ SendPush(s, d)))

NotificationsSpec ==
  NotificationsInit /\ [][NotificationsNext]_notificationsVars /\ NotificationsFairness

-----------------------------------------------------------------------------
\* An approval is pushed to a device once, whatever dies or changes between
\* its delivery and its release, unless the recovery loop listed it while
\* settlement was still delivering it (releaseHeldApprovalPush).
PushedOnceUnlessRaced ==
  \A n \in Notices \ raced : \A d \in Devices : notice[n].pushed[d] <= 1

\* A notice that could be pushed does not wait for it for ever: the push that
\* quiet hours held, or that died with the process, is sent by a later pass.
HeldApprovalsAreReleased ==
  \A n \in Notices :
    []<>~ (/\ notice[n].state = "waiting" /\ notice[n].attempted = {}
           /\ settings.push /\ ~ settings.quiet /\ settings.devices # {})

\* An approval that was delivered, by push or by the webhook, is not delivered
\* again by a later pass (tests/notify.test.ts "does not release a delivered or
\* currently held approval").
DeliveredIsNotReleased ==
  \A s \in Senders :
    sender[s].pc = "check" /\ sender[s].notice \notin raced
      => ~ notice[sender[s].notice].delivered

=============================================================================
