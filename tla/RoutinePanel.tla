---------------------------- MODULE RoutinePanel ----------------------------
(***************************************************************************)
(* The Routines section of the workspace: one routine's row with its menu, *)
(* the form that edits its details, and the form that adds a routine       *)
(* (components/persona-side-panel.tsx, routine-form.tsx).  Each action has *)
(* its own busy flag, so that several may be under way; every answer       *)
(* replaces the whole routine (routine-routes.ts).                         *)
(***************************************************************************)
EXTENDS Naturals

CONSTANT MaxAsks  \* bound on requests

ASSUME RoutinePanelAssumption == MaxAsks \in Nat

VARIABLES
  routineRow,    \* the routines row
  shownRoutine,  \* the page's copy of it
  details,       \* the edit form: whether it is open, and the notify it took over
  asks,          \* the request of each action; its button is disabled meanwhile
  totals,        \* jobs fired and routines added: by the server, and as the page heard
  asked,         \* number of requests made
  wanted,        \* ghost: what the owner last chose for each field
  faults         \* ghost: what came between the page and the row

routinePanelVars == <<routineRow, shownRoutine, details, asks, totals, asked, wanted, faults>>

Patching == {"toggle", "notify", "form"}   \* PATCH /routines/:id
Posting == {"run", "new"}                  \* POST run-now, POST routines
Fields == {"enabled", "notify", "text"}
Shut == [open |-> FALSE, notify |-> FALSE]
NoRoutine == [enabled |-> FALSE, notify |-> FALSE, text |-> 0]
NoAsk == [pc |-> "none", fields |-> {}, body |-> NoRoutine, answer |-> NoRoutine]

RoutinePanelInit ==
  /\ routineRow \in [enabled : {TRUE}, notify : BOOLEAN, text : {0}]
  /\ shownRoutine = routineRow /\ wanted = routineRow /\ details = Shut
  /\ asks = [a \in Patching \cup Posting |-> NoAsk]
  /\ totals = [a \in Posting |-> [made |-> 0, heard |-> 0]]
  /\ asked = 0 /\ faults = {}

-----------------------------------------------------------------------------
Patched(row, fields, body) == [f \in Fields |-> IF f \in fields THEN body[f] ELSE row[f]]

Ask(a, fields, body) ==
  /\ asks[a] = NoAsk /\ asked < MaxAsks /\ asked' = asked + 1
  /\ asks' = [asks EXCEPT ![a] = [NoAsk EXCEPT !.pc = "sent", !.fields = fields, !.body = body]]
  /\ UNCHANGED <<routineRow, shownRoutine, totals>>

\* toggleEnabled(): the opposite of what the row shows.
ToggleEnabled ==
  /\ Ask("toggle", {"enabled"}, [shownRoutine EXCEPT !.enabled = ~ @])
  /\ wanted' = [wanted EXCEPT !.enabled = ~ shownRoutine.enabled]
  /\ UNCHANGED <<details, faults>>

\* toggleNotify(): also while the form shows the setting from before.
ToggleNotify ==
  /\ Ask("notify", {"notify"}, [shownRoutine EXCEPT !.notify = ~ @])
  /\ wanted' = [wanted EXCEPT !.notify = ~ shownRoutine.notify]
  /\ faults' = IF details.open \/ asks["form"] # NoAsk THEN faults \cup {"form"} ELSE faults
  /\ UNCHANGED details

\* "Edit details": the form takes over what the row shows.
EditDetails ==
  /\ ~ details.open
  /\ details' = [open |-> TRUE, notify |-> shownRoutine.notify]
  /\ faults' = IF asks["notify"] # NoAsk THEN faults \cup {"form"} ELSE faults
  /\ UNCHANGED <<routineRow, shownRoutine, asks, totals, asked, wanted>>

CancelDetails ==
  /\ details.open /\ details' = Shut
  /\ UNCHANGED <<routineRow, shownRoutine, asks, totals, asked, wanted, faults>>

\* handleSubmit() of an edit: every field of the form is sent.
SaveDetails(notify) ==
  /\ details.open
  /\ Ask("form", {"notify", "text"}, [shownRoutine EXCEPT !.notify = notify, !.text = asked + 1])
  /\ wanted' = [wanted EXCEPT !.text = asked + 1,
                !.notify = IF notify = details.notify THEN @ ELSE notify]
  /\ UNCHANGED <<details, faults>>

\* runNow(): the button stays disabled once the request was answered.
RunNow ==
  /\ totals["run"].heard = 0
  /\ Ask("run", {}, NoRoutine)
  /\ UNCHANGED <<details, wanted, faults>>

\* handleSubmit() of the other form: without a key, so that the server mints one.
AddRoutine ==
  /\ Ask("new", {}, NoRoutine)
  /\ UNCHANGED <<details, wanted, faults>>

-----------------------------------------------------------------------------
\* The route calls RoutineService, which answers the routine as it stored it.
ServeAsk(a) ==
  /\ asks[a].pc = "sent"
  /\ routineRow' = IF a \in Patching THEN Patched(routineRow, asks[a].fields, asks[a].body)
                   ELSE routineRow
  /\ asks' = [asks EXCEPT ![a] = [asks[a] EXCEPT !.pc = "done",
       !.answer = IF a \in Patching THEN routineRow' ELSE asks[a].answer]]
  /\ totals' = IF a \in Posting THEN [totals EXCEPT ![a].made = @ + 1] ELSE totals
  /\ UNCHANGED <<shownRoutine, details, asked, wanted, faults>>

RefuseAsk(a) ==
  /\ asks[a].pc = "sent"
  /\ asks' = [asks EXCEPT ![a] = [@ EXCEPT !.pc = "failed"]]
  /\ UNCHANGED <<routineRow, shownRoutine, details, totals, asked, wanted, faults>>

\* Bound: one error after the change, or one write by others.
NotDisturbed == faults \cap {"unheard", "elsewhere"} = {}

\* The row is stored, and the answer is lost, or is 503 since the scheduler
\* could not be brought up to date.
AnswerIsAnError(a) ==
  /\ asks[a].pc = "done" /\ NotDisturbed
  /\ asks' = [asks EXCEPT ![a] = [@ EXCEPT !.pc = "failed"]]
  /\ faults' = faults \cup {"unheard"}
  /\ UNCHANGED <<routineRow, shownRoutine, details, totals, asked, wanted>>

\* A persona's own tool, a control client or another tab.
UpdateRoutineElsewhere ==
  /\ NotDisturbed /\ faults' = faults \cup {"elsewhere"}
  /\ routineRow' = [routineRow EXCEPT !.enabled = ~ @]
  /\ UNCHANGED <<shownRoutine, details, asks, totals, asked, wanted>>

Enable(a) == asks' = [asks EXCEPT ![a] = NoAsk]

\* Mutant: the page keeps its own idea of the routine.
KeepShown(a) == shownRoutine' = asks[a].body

\* onUpdated(): the page's routine is replaced, whichever answer came last.
ShowAnswer(a) == shownRoutine' = asks[a].answer

PatchAnswered(a) ==
  /\ a \in Patching /\ asks[a].pc = "done"
  /\ ShowAnswer(a) /\ Enable(a)
  /\ details' = IF a = "form" THEN Shut ELSE details
  /\ faults' = IF \E b \in Patching : asks[b].pc = "done" /\ asks[b].answer = routineRow
               THEN faults ELSE faults \cup {"crossed"}
  /\ UNCHANGED <<routineRow, totals, asked, wanted>>

PostAnswered(a) ==
  /\ a \in Posting /\ asks[a].pc = "done"
  /\ totals' = [totals EXCEPT ![a].heard = @ + 1]
  /\ Enable(a)
  /\ UNCHANGED <<routineRow, shownRoutine, details, asked, wanted, faults>>

\* An error is shown; what was typed stays, and may be sent again.
AskFailed(a) ==
  /\ asks[a].pc = "failed"
  /\ wanted' = Patched(wanted, asks[a].fields, routineRow)
  /\ Enable(a)
  /\ UNCHANGED <<routineRow, shownRoutine, details, totals, asked, faults>>

RoutinePanelNext ==
  \/ ToggleEnabled \/ ToggleNotify \/ EditDetails \/ CancelDetails \/ RunNow \/ AddRoutine
  \/ \E notify \in BOOLEAN : SaveDetails(notify)
  \/ \E a \in Patching \cup Posting :
       ServeAsk(a) \/ RefuseAsk(a) \/ AnswerIsAnError(a) \/ PatchAnswered(a)
       \/ PostAnswered(a) \/ AskFailed(a)
  \/ UpdateRoutineElsewhere

RoutinePanelSpec == RoutinePanelInit /\ [][RoutinePanelNext]_routinePanelVars

-----------------------------------------------------------------------------
RoutinePanelTypeOK ==
  /\ {routineRow, shownRoutine, wanted} \subseteq
       [enabled : BOOLEAN, notify : BOOLEAN, text : 0 .. MaxAsks]
  /\ \A a \in DOMAIN asks : asks[a].pc \in {"none", "sent", "done", "failed"}
  /\ faults \subseteq {"form", "unheard", "elsewhere", "crossed"}

(* Once every request was answered, the row of the page is the routine,    *)
(* each field has the value last chosen for it, and as many jobs were      *)
(* fired and routines added as the page was told, unless: others wrote; an *)
(* answer told an error after the change was stored; two answers crossed;  *)
(* or the form was open, or saved, while notify was toggled, which it      *)
(* sends back as it took it over.                                          *)
RoutinePanelTellsTheRow ==
  (\A a \in DOMAIN asks : asks[a] = NoAsk) =>
    /\ shownRoutine = routineRow \/ faults \cap {"elsewhere", "unheard", "crossed"} # {}
    /\ wanted = routineRow \/ faults # {}
    /\ "unheard" \in faults \/ \A a \in Posting : totals[a].made = totals[a].heard

=============================================================================
