------------------------------ MODULE LoopNotes ------------------------------
(***************************************************************************)
(* One loop note of a persona, which its turns read and write as a whole   *)
(* (tools/builtin.ts, memory-tools.ts; persona_state), and the Memory      *)
(* panel, on which the owner makes the persona forget the note, or a fact  *)
(* (components/persona-side-panel.tsx, persona-state-routes.ts,            *)
(* persona-memory-routes.ts).                                              *)
(***************************************************************************)
EXTENDS Naturals

CONSTANTS
  Holders,   \* turns of the persona
  MaxItems   \* bound on writes of the note and of the fact

ASSUME LoopNotesAssumption == MaxItems \in Nat

VARIABLES
  note,      \* the persona_state row of one key; its content is a set of items
  fact,      \* the versions under one label: their number, which was deleted
  holders,   \* each turn: its attempt, what it read, and the effect it staged
  keeping,   \* the panel: what it lists, and the requests to forget
  told,      \* items that a turn was told are written
  dropped,   \* ghost: items of notes that were forgotten
  upsets     \* ghost: what may separate panel, note and turns

notesVars == <<note, fact, holders, keeping, told, dropped, upsets>>

Entries == {"note", "fact"}
Unread == [read |-> FALSE, items |-> {}]
NoEffect == [op |-> "none", items |-> {}]
Idle == [pc |-> "idle", live |-> FALSE, seen |-> Unread, staged |-> NoEffect]
LiveHolders == {h \in Holders : holders[h].live}
Live(f) == f.version \notin f.deleted

NotesInit ==
  /\ note \in [kept : BOOLEAN, items : {{}}]
  /\ fact = [version |-> 1, deleted |-> {}]
  /\ holders = [h \in Holders |-> Idle]
  /\ keeping = [e \in Entries |-> [listed |-> e = "fact" \/ note.kept, pc |-> "none"]]
  /\ told = {} /\ dropped = {} /\ upsets = {}

-----------------------------------------------------------------------------
(* The turns.                                                              *)

Holding(h, next) ==
  /\ holders' = [holders EXCEPT ![h] = next]
  /\ UNCHANGED <<fact, keeping>>

\* The worker may run two jobs of one persona beside each other.
BeginTurn(h) ==
  /\ holders[h].pc = "idle"
  /\ Holding(h, [Idle EXCEPT !.pc = "on", !.live = TRUE])
  /\ upsets' = IF LiveHolders # {} THEN upsets \cup {"beside"} ELSE upsets
  /\ UNCHANGED <<note, told, dropped>>

\* The turn is stopped, or recovery takes it; the process that runs it need
\* not know.
LoseLease(h) ==
  /\ holders[h].live
  /\ Holding(h, [holders[h] EXCEPT !.live = FALSE])
  /\ UNCHANGED <<note, told, dropped, upsets>>

\* read_state: the empty string when there is no row.
ReadState(h) ==
  /\ holders[h].pc = "on"
  /\ Holding(h, [holders[h] EXCEPT !.seen = [read |-> TRUE, items |-> note.items]])
  /\ UNCHANGED <<note, told, dropped, upsets>>

Stage(h, op, items) ==
  /\ holders[h].pc = "on"
  /\ Holding(h, [holders[h] EXCEPT !.pc = "staged", !.staged = [op |-> op, items |-> items]])
  /\ UNCHANGED <<note, told, dropped, upsets>>

\* write_state is staged: the model writes what it has read and one item more.
WriteState(h) ==
  LET used == UNION {holders[g].staged.items : g \in Holders} \cup told \cup dropped IN
  /\ holders[h].seen.read
  /\ \E item \in (1 .. MaxItems) \ used : Stage(h, "write", holders[h].seen.items \cup {item})

\* forget_state is staged, too.
ForgetState(h) == Stage(h, "delete", {})

\* Mutant: effects are written whether or not the attempt is live.
Unfenced(h) == TRUE

\* applyEffects() locks the attempt and refuses one that is not running.
AssertLive(h) == holders[h].live

\* The row and the result of the tool are written in one transaction.
ApplyStaged(h) ==
  LET effect == holders[h].staged IN
  /\ holders[h].pc = "staged" /\ AssertLive(h)
  /\ IF effect.op = "write"
     THEN /\ note' = [kept |-> TRUE, items |-> effect.items]
          /\ told' = told \cup effect.items
          /\ upsets' = IF note.kept THEN upsets ELSE upsets \cup {"anew"}
          /\ UNCHANGED dropped
     ELSE /\ note' = [kept |-> FALSE, items |-> {}]
          /\ dropped' = dropped \cup note.items
          /\ upsets' = upsets \cup {"anew"}
          /\ UNCHANGED told
  /\ Holding(h, [holders[h] EXCEPT !.pc = "on", !.staged = NoEffect,
                   !.seen = [read |-> TRUE, items |-> effect.items]])

RefuseStaged(h) ==
  /\ holders[h].pc = "staged" /\ ~ AssertLive(h)
  /\ Holding(h, [Idle EXCEPT !.pc = "ended"])
  /\ UNCHANGED <<note, told, dropped, upsets>>

EndTurn(h) ==
  /\ holders[h].pc = "on"
  /\ Holding(h, [Idle EXCEPT !.pc = "ended"])
  /\ UNCHANGED <<note, told, dropped, upsets>>

\* remember() under the label supersedes the version that is live, if any.
CorrectFact ==
  /\ fact.version < MaxItems
  /\ fact' = [fact EXCEPT !.version = @ + 1]
  /\ upsets' = upsets \cup {"corrected"}
  /\ UNCHANGED <<note, holders, keeping, told, dropped>>

-----------------------------------------------------------------------------
(* The panel.  It listed the rows when the workspace was opened.           *)

Asking(e, pc) == keeping' = [keeping EXCEPT ![e] = [@ EXCEPT !.pc = pc]]

ForgetEntry(e) ==
  /\ keeping[e].listed /\ keeping[e].pc = "none"
  /\ Asking(e, "sent")
  /\ UNCHANGED <<note, fact, holders, told, dropped, upsets>>

\* Of the note, whatever it says by now; a 404 when there is none.
DeleteNote ==
  /\ keeping["note"].pc = "sent"
  /\ Asking("note", IF note.kept THEN "done" ELSE "failed")
  /\ note' = [kept |-> FALSE, items |-> {}]
  /\ dropped' = dropped \cup note.items
  /\ upsets' = IF LiveHolders # {} THEN upsets \cup {"beside"} ELSE upsets
  /\ UNCHANGED <<fact, holders, told>>

\* Of the version that was listed, superseded or not.
DeleteFact ==
  /\ keeping["fact"].pc = "sent"
  /\ Asking("fact", IF 1 \notin fact.deleted THEN "done" ELSE "failed")
  /\ fact' = [fact EXCEPT !.deleted = @ \cup {1}]
  /\ UNCHANGED <<note, holders, told, dropped, upsets>>

DeleteFails(e) ==
  /\ keeping[e].pc = "sent" /\ Asking(e, "failed")
  /\ UNCHANGED <<note, fact, holders, told, dropped, upsets>>

DeleteUnheard(e) ==
  /\ keeping[e].pc = "done" /\ Asking(e, "failed")
  /\ upsets' = upsets \cup {"unheard"}
  /\ UNCHANGED <<note, fact, holders, told, dropped>>

\* Mutant: the entry goes whatever the answer says.
AnyAnswer(e) == keeping[e].pc \in {"done", "failed"}

RowDeleted(e) == keeping[e].pc = "done"

\* onDeleted(): the page forgets the row.
EntryForgotten(e) ==
  /\ RowDeleted(e)
  /\ keeping' = [keeping EXCEPT ![e] = [listed |-> FALSE, pc |-> "none"]]
  /\ UNCHANGED <<note, fact, holders, told, dropped, upsets>>

\* "Couldn't forget that.", and the button is enabled again.
EntryStays(e) ==
  /\ keeping[e].pc = "failed" /\ Asking(e, "none")
  /\ UNCHANGED <<note, fact, holders, told, dropped, upsets>>

NotesNext ==
  \/ \E h \in Holders :
       BeginTurn(h) \/ LoseLease(h) \/ ReadState(h) \/ WriteState(h) \/ ForgetState(h)
       \/ ApplyStaged(h) \/ RefuseStaged(h) \/ EndTurn(h)
  \/ CorrectFact \/ DeleteNote \/ DeleteFact
  \/ \E e \in Entries :
       ForgetEntry(e) \/ DeleteFails(e) \/ DeleteUnheard(e) \/ EntryForgotten(e) \/ EntryStays(e)

NotesSpec == NotesInit /\ [][NotesNext]_notesVars

-----------------------------------------------------------------------------
NotesTypeOK ==
  /\ note \in [kept : BOOLEAN, items : SUBSET (1 .. MaxItems)]
  /\ {told, dropped} \subseteq SUBSET (1 .. MaxItems)
  /\ upsets \subseteq {"beside", "anew", "corrected", "unheard"}

(* What a turn was told is written stays in the note until the note is     *)
(* forgotten, and the note holds nothing else: of a turn that was stopped  *)
(* or taken over, not even what it staged before.  Turns that hold the     *)
(* note beside each other, or while the owner deletes it, do lose items    *)
(* of each other, for each writes the whole of what it read.               *)
NotesAreKept ==
  "beside" \in upsets \/ (note.items \subseteq told /\ told \ dropped \subseteq note.items)

(* The panel stops listing a row only when it is deleted: the persona has  *)
(* the note no more unless it wrote it anew, and the fact no more unless   *)
(* it corrected it, in which case the row deleted is the superseded one.   *)
(* An entry that stays, and is not being forgotten, is there unless the    *)
(* persona itself forgot it or the answer was lost.                        *)
PanelForgetsTheRows ==
  /\ keeping["note"].listed \/ ~ note.kept \/ "anew" \in upsets
  /\ keeping["note"].listed /\ keeping["note"].pc = "none" =>
       note.kept \/ upsets \cap {"anew", "unheard"} # {}
  /\ keeping["fact"].listed \/ ~ Live(fact) \/ "corrected" \in upsets
  /\ keeping["fact"].listed \/ 1 \in fact.deleted

=============================================================================
