-------------------------- MODULE PersonaWorkspace --------------------------
(***************************************************************************)
(* The page on which one persona is managed: its Tools section saves every *)
(* click, its forms save on submit, and both replace the page's copy of    *)
(* the persona with the row that the answer carries                        *)
(* (components/persona-management.tsx, persona-tools-section.tsx).         *)
(* A section that is left is unmounted; its request goes on.               *)
(***************************************************************************)
EXTENDS Naturals, Sequences

CONSTANTS
  Tools,      \* tools of the editor, with the risk class it shows
  ReadOnly,     \* those in the section of read-only tools
  CannotAllow,  \* those whose Allow is disabled: destructive, or not available
  Unavailable,  \* those that a whole section leaves alone
  Destructive,  \* the risk class the registry has by now
  FirstChoices, \* the permission with which every tool may begin
  MaxVisits,    \* bound: how often the Tools section is opened
  MaxClicks     \* bound on edits

ASSUME WorkspaceAssumption ==
  /\ ReadOnly \cup CannotAllow \cup Destructive \subseteq Tools
  /\ Unavailable \subseteq CannotAllow
  /\ FirstChoices \subseteq {"blocked", "ask", "allow"}
  /\ MaxVisits \in Nat /\ MaxClicks \in Nat

VARIABLES
  personaRow,  \* the personas row: assigned_tool_ids, and the charter as one text
  copy,        \* the page's persona
  section,     \* "tools", or "forms" for the other ones
  editors,     \* one PersonaToolsSection for each visit; the last one may be on screen
  patches,     \* PATCH under way: of editor i under i, of the charter form under 0
  clicks,      \* number of edits made
  wish,        \* ghost: the permission last chosen for each tool
  excuses      \* ghost: what came between the page and the row

workspaceVars == <<personaRow, copy, section, editors, patches, clicks, wish, excuses>>

Levels == {"blocked", "ask", "allow"}
NoList == [t \in Tools |-> "none"]
NoPatch ==
  [pc |-> "none", tools |-> NoList, charter |-> 0, answer |-> [tools |-> NoList, charter |-> 0]]

Coerced(tools, destructive) ==
  [t \in Tools |-> IF t \in destructive /\ tools[t] = "allow" THEN "ask" ELSE tools[t]]

WorkspaceInit ==
  /\ \E first \in FirstChoices :
       personaRow = [tools |-> Coerced([t \in Tools |-> first], Destructive), charter |-> 0]
  /\ wish = personaRow.tools /\ copy = personaRow /\ section = "forms"
  /\ editors = <<>> /\ patches = [i \in 0 .. MaxVisits |-> NoPatch]
  /\ clicks = 0 /\ excuses = {}

Editor == Len(editors)

-----------------------------------------------------------------------------
\* Mounting the section takes the page's copy for its state.
OpenTools ==
  /\ section # "tools" /\ Editor < MaxVisits
  /\ section' = "tools"
  /\ editors' = Append(editors,
       [tools |-> copy.tools, base |-> copy.tools, queued |-> NoList, error |-> FALSE,
        saved |-> FALSE])
  /\ wish' = copy.tools
  /\ excuses' = IF copy.tools = personaRow.tools /\ \A i \in 1 .. Editor : patches[i] = NoPatch
                THEN excuses ELSE excuses \cup {"stale"}
  /\ UNCHANGED <<personaRow, copy, patches, clicks>>

OpenForms ==
  /\ section = "tools" /\ section' = "forms"
  /\ UNCHANGED <<personaRow, copy, editors, patches, clicks, wish, excuses>>

\* setToolPermission() and setGroupPermission() on what the section shows.
Clicked(tools, chosen, permission) ==
  [t \in Tools |-> IF t \in chosen
     THEN IF t \in CannotAllow \ Unavailable /\ permission = "allow" THEN "ask" ELSE permission
     ELSE tools[t]]

SendPatch(i, tools) ==
  patches' = [patches EXCEPT ![i] = [NoPatch EXCEPT !.pc = "sent", !.tools = tools]]

\* persist(): one PATCH at a time, and what is chosen meanwhile waits in
\* pendingRef, where it replaces what waited there.
Persist(next) ==
  LET i == Editor
      busy == patches[i] # NoPatch
  IN  /\ clicks < MaxClicks /\ clicks' = clicks + 1
      /\ IF busy
           THEN /\ editors' = [editors EXCEPT ![i].queued = next]
                /\ excuses' = IF editors[i].queued = NoList THEN excuses
                              ELSE excuses \cup {"replaced"}
                /\ UNCHANGED patches
           ELSE /\ editors' = [editors EXCEPT ![i] =
                     [tools |-> next, base |-> @.tools, queued |-> NoList, error |-> FALSE,
                      saved |-> FALSE]]
                /\ SendPatch(i, next)
                /\ UNCHANGED excuses
      /\ wish' = Coerced([t \in Tools |-> IF next[t] # editors[i].tools[t] THEN next[t] ELSE wish[t]],
                         Destructive)
      /\ UNCHANGED <<personaRow, copy, section>>

ClickPermission(t, permission) ==
  /\ section = "tools"
  /\ permission # editors[Editor].tools[t]
  /\ permission = "allow" => t \notin CannotAllow
  /\ Persist(Clicked(editors[Editor].tools, {t}, permission))

\* "Set all ... to": of the read-only tools or of the others.
SetGroup(group, permission) ==
  /\ section = "tools"
  /\ \E t \in group \ Unavailable : editors[Editor].tools[t] # permission
  /\ Persist(Clicked(editors[Editor].tools, group \ Unavailable, permission))

\* handleSubmit() of the forms.
SubmitCharter ==
  /\ section = "forms" /\ patches[0] = NoPatch
  /\ clicks < MaxClicks /\ clicks' = clicks + 1
  /\ patches' = [patches EXCEPT ![0] = [NoPatch EXCEPT !.pc = "sent", !.charter = clicks + 1]]
  /\ UNCHANGED <<personaRow, copy, section, editors, wish, excuses>>

-----------------------------------------------------------------------------
\* PATCH /personas/:id: what the body leaves out stays; the row is answered.
WritePersona(i) ==
  LET next == IF i = 0 THEN [personaRow EXCEPT !.charter = patches[0].charter]
              ELSE [personaRow EXCEPT !.tools = Coerced(patches[i].tools, Destructive)]
  IN  /\ patches[i].pc = "sent"
      /\ personaRow' = next
      /\ patches' = [patches EXCEPT ![i].pc = "written", ![i].answer = next]
      /\ UNCHANGED <<copy, section, editors, clicks, wish, excuses>>

\* The request is refused, or never arrives.
PatchFails(i) ==
  /\ patches[i].pc = "sent"
  /\ patches' = [patches EXCEPT ![i].pc = "failed"]
  /\ UNCHANGED <<personaRow, copy, section, editors, clicks, wish, excuses>>

\* Bound: one answer is lost, or others write once, where nothing else went wrong.
Undisturbed == excuses = {}

\* The answer is lost after the row was written.
AnswerLost(i) ==
  /\ patches[i].pc = "written" /\ Undisturbed
  /\ patches' = [patches EXCEPT ![i].pc = "failed"]
  /\ excuses' = excuses \cup {"lost"}
  /\ UNCHANGED <<personaRow, copy, section, editors, clicks, wish>>

\* Always-allow, another tab, or the owner's own control client.
WriteElsewhere(t) ==
  /\ Undisturbed
  /\ personaRow.tools[t] = "ask" /\ t \notin Destructive
  /\ personaRow' = [personaRow EXCEPT !.tools[t] = "allow"]
  /\ excuses' = excuses \cup {"stale"}
  /\ UNCHANGED <<copy, section, editors, patches, clicks, wish>>

\* Mutant: what waited while a PATCH was under way is forgotten.
ForgetQueued(i, e) ==
  /\ editors' = [editors EXCEPT ![i] = [e EXCEPT !.queued = NoList]]
  /\ patches' = [patches EXCEPT ![i] = NoPatch]

\* The finally of persist(): what waits is sent by the closure of the first
\* edit, whose `tools` is the list from before that edit.
SendQueued(i, e) ==
  IF e.queued = NoList
    THEN /\ editors' = [editors EXCEPT ![i] = e]
         /\ patches' = [patches EXCEPT ![i] = NoPatch]
    ELSE /\ editors' = [editors EXCEPT ![i] =
              [e EXCEPT !.tools = e.queued, !.queued = NoList, !.error = FALSE]]
         /\ SendPatch(i, e.queued)

\* applyUpdate(): the whole persona is replaced, by an older one where the
\* answer that carries the row came first.
ApplyUpdate(answer) ==
  /\ copy' = answer
  /\ excuses' = IF \E i \in 0 .. MaxVisits :
                    patches[i].pc = "written" /\ patches[i].answer = personaRow
                THEN excuses ELSE excuses \cup {"crossed"}

ToolsAnswered(i) ==
  /\ i # 0 /\ patches[i].pc = "written"
  /\ ApplyUpdate(patches[i].answer)
  /\ SendQueued(i, [editors[i] EXCEPT !.tools = patches[i].answer.tools, !.saved = TRUE])
  /\ UNCHANGED <<personaRow, section, clicks, wish>>

\* The catch of persist(): previous is shown again.
ToolsFailed(i) ==
  /\ i # 0 /\ patches[i].pc = "failed"
  /\ SendQueued(i, [editors[i] EXCEPT !.tools = editors[i].base, !.error = TRUE])
  /\ wish' = IF editors[i].queued = NoList THEN personaRow.tools ELSE wish
  /\ excuses' = IF editors[i].saved /\ editors[i].queued = NoList
                THEN excuses \cup {"queued"} ELSE excuses
  /\ UNCHANGED <<personaRow, copy, section, clicks>>

CharterAnswered ==
  /\ patches[0].pc \in {"written", "failed"}
  /\ IF patches[0].pc = "written" THEN ApplyUpdate(patches[0].answer)
     ELSE UNCHANGED <<copy, excuses>>
  /\ patches' = [patches EXCEPT ![0] = NoPatch]
  /\ UNCHANGED <<personaRow, section, editors, clicks, wish>>

WorkspaceNext ==
  \/ OpenTools \/ OpenForms
  \/ \E t \in Tools, permission \in Levels : ClickPermission(t, permission)
  \/ \E permission \in Levels, group \in {ReadOnly, Tools \ ReadOnly} : SetGroup(group, permission)
  \/ SubmitCharter \/ CharterAnswered
  \/ \E i \in 0 .. MaxVisits :
       WritePersona(i) \/ PatchFails(i) \/ AnswerLost(i) \/ ToolsAnswered(i) \/ ToolsFailed(i)
  \/ \E t \in Tools : WriteElsewhere(t)

WorkspaceSpec == WorkspaceInit /\ [][WorkspaceNext]_workspaceVars

-----------------------------------------------------------------------------
WorkspaceTypeOK ==
  /\ personaRow.tools \in [Tools -> Levels] /\ copy.tools \in [Tools -> Levels]
  /\ section \in {"tools", "forms"} /\ (section = "tools" => editors # <<>>)
  /\ Editor <= MaxVisits /\ clicks <= MaxClicks /\ wish \in [Tools -> Levels]
  /\ \A i \in 0 .. MaxVisits : patches[i].pc \in {"none", "sent", "written", "failed"}
  /\ excuses \subseteq {"stale", "lost", "crossed", "replaced", "queued"}

Excused(reasons) == excuses \cap reasons # {}
Saved == \A i \in 0 .. MaxVisits : patches[i] = NoPatch

(* Once every save was answered, the page's persona is the row, the Tools  *)
(* section shows the row, and each tool has the permission last chosen for *)
(* it, unless: others wrote, or the section was opened while an earlier    *)
(* one still saved (stale); an answer was lost after its write, or two     *)
(* answers crossed; a choice was replaced while it waited; a choice that   *)
(* had waited failed to be saved (queued: the list from before the first   *)
(* choice is shown again).                                                 *)
PersonaPageTellsTheRow ==
  Saved =>
    /\ copy = personaRow \/ Excused({"stale", "lost", "crossed"})
    /\ section = "tools" =>
         /\ editors[Editor].tools = personaRow.tools \/ Excused({"stale", "lost", "queued"})
         /\ personaRow.tools = wish \/ Excused({"stale", "lost", "replaced", "queued"})

(* "On failure the optimistic change is rolled back and an error shown, so *)
(* a permission edit that didn't actually persist never look saved"        *)
(* (persona-tools-section.tsx): where a save has failed and nothing else   *)
(* came between, the section shows the permissions of the row.             *)
FailedEditIsRolledBack ==
  Saved /\ section = "tools" /\ editors[Editor].error /\ ~ Excused({"stale", "lost"})
    => editors[Editor].tools = personaRow.tools
=============================================================================
