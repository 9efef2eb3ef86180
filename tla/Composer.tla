------------------------------ MODULE Composer ------------------------------
(***************************************************************************)
(* How a message reaches a chat: the composer of the chat page, with the   *)
(* chat that is selected and the job the page holds, and the dialog that   *)
(* asks somebody from anywhere (app/roster/[personaId]/page.tsx,           *)
(* components/dispatch-dialog.tsx, today-composer.tsx, jobs/job-routes.ts, *)
(* control/job-service.ts).  The branch of submit() that holds a message   *)
(* back while offline tests the `online` of the render in which it was     *)
(* sent, when the composer was enabled: it is never taken.                 *)
(***************************************************************************)
EXTENDS Naturals, Sequences, FiniteSets

CONSTANTS
  MaxChats,     \* bound on jobs: the page's first ones and the created ones
  MaxSends,     \* bound on requests that send a message
  MaxSelects    \* bound on changes of the selection

ASSUME ComposerAssumption == {MaxChats, MaxSends, MaxSelects} \subseteq Nat

VARIABLES
  chats,     \* jobs of the persona: the messages said in each, and whether it is idle
  sends,     \* the request of the composer and of the dialog
  drafts,    \* the message in each of them, or None
  screen,    \* whether ?chat= is given, activeJobId, and activeJob as the page knows it
  fetches,   \* getJob() under way: of the selection, and those nothing cancels
  written,   \* messages written so far
  tries,     \* requests made, and selections
  meant,     \* ghost: the chat on screen when each message was sent, and whether the
             \*   page was then known to hold another one
  unheard,   \* ghost: messages of which an answer was lost
  slipped    \* ghost: a late or failed getJob() left the page with another chat

composerVars ==
  <<chats, sends, drafts, screen, fetches, written, tries, meant, unheard, slipped>>

Forms == {"composer", "dialog"}
None == 0                                \* no chat, no message
NoSend == [pc |-> "none", message |-> None, chat |-> None, new |-> FALSE]
NoIntent == [chat |-> None, excused |-> FALSE]
NoJob == [chat |-> None, idle |-> TRUE]
Chats == 1 .. Len(chats)

ComposerInit ==
  /\ \E n \in 0 .. 2 : chats = [c \in 1 .. n |-> [said |-> <<None>>, idle |-> TRUE]]
  /\ sends = [f \in Forms |-> NoSend]
  /\ drafts = [f \in Forms |-> None]
  /\ \E s \in {None} \cup Chats :
       /\ screen = [pinned |-> FALSE, selected |-> s, open |-> [NoJob EXCEPT !.chat = s]]
       /\ s = None <=> chats = <<>>
  /\ fetches = [selection |-> None, late |-> {}]
  /\ written = 0 /\ meant = <<>> /\ unheard = {} /\ slipped = FALSE
  /\ tries = [sent |-> 0, selected |-> 0]

-----------------------------------------------------------------------------
(* The chat on screen.                                                     *)

\* Mutant: the job of the chat that was selected is not fetched.
Forget(c) == [fetches EXCEPT !.selection = None]

\* The two effects of activeJobId: one cancels the fetch of the chat before,
\* the other (for the pending approvals) never does.
Fetch(c) == [fetches EXCEPT !.selection = c, !.late = @ \cup {c}]

\* setActiveJobId(c), and what the effects do when it changed.
Select(c, pinned) ==
  /\ screen' = [screen EXCEPT !.pinned = pinned, !.selected = c,
                              !.open = IF c = None THEN NoJob ELSE @]
  /\ fetches' = IF c = screen.selected THEN fetches
                ELSE IF c = None THEN [fetches EXCEPT !.selection = None]
                ELSE Fetch(c)
  /\ slipped' = (slipped /\ c = screen.selected)

SelectChat(c) ==
  /\ tries.selected < MaxSelects /\ tries' = [tries EXCEPT !.selected = @ + 1]
  /\ c \in Chats /\ c # screen.selected
  /\ Select(c, TRUE)
  /\ UNCHANGED <<chats, sends, drafts, written, meant, unheard>>

StartNewChat ==
  /\ tries.selected < MaxSelects /\ tries' = [tries EXCEPT !.selected = @ + 1]
  /\ Select(None, TRUE)
  /\ drafts' = [drafts EXCEPT !["composer"] = None]
  /\ UNCHANGED <<chats, sends, written, meant, unheard>>

\* The chats were listed again: without ?chat=, the one updated last is selected.
Relist(c) ==
  /\ ~ screen.pinned /\ c \in Chats /\ c # screen.selected
  /\ tries.selected < MaxSelects /\ tries' = [tries EXCEPT !.selected = @ + 1]
  /\ Select(c, FALSE)
  /\ UNCHANGED <<chats, sends, drafts, written, meant, unheard>>

\* An approval of the chat was asked or resolved.
ApprovalsChanged ==
  /\ screen.selected # None
  /\ fetches' = [fetches EXCEPT !.late = @ \cup {screen.selected}]
  /\ fetches' # fetches
  /\ UNCHANGED <<chats, sends, drafts, screen, written, tries, meant, unheard, slipped>>

SelectionFetched ==
  /\ fetches.selection # None
  /\ screen' = [screen EXCEPT !.open =
       [chat |-> fetches.selection, idle |-> chats[fetches.selection].idle]]
  /\ fetches' = [fetches EXCEPT !.selection = None]
  /\ slipped' = FALSE
  /\ UNCHANGED <<chats, sends, drafts, written, tries, meant, unheard>>

LateFetched(c) ==
  /\ c \in fetches.late
  /\ screen' = [screen EXCEPT !.open = [chat |-> c, idle |-> chats[c].idle]]
  /\ fetches' = [fetches EXCEPT !.late = @ \ {c}]
  /\ slipped' = (c # screen.selected)
  /\ UNCHANGED <<chats, sends, drafts, written, tries, meant, unheard>>

\* Both fail without a word: the job of the chat before stays.
FetchFails ==
  /\ \/ fetches.selection # None /\ fetches' = [fetches EXCEPT !.selection = None]
     \/ \E c \in fetches.late : fetches' = [fetches EXCEPT !.late = @ \ {c}]
  /\ slipped' = (screen.open.chat # screen.selected)
  /\ UNCHANGED <<chats, sends, drafts, screen, written, tries, meant, unheard>>

-----------------------------------------------------------------------------
(* Messages.                                                               *)

WriteMessage(f) ==
  /\ drafts[f] = None /\ sends[f] = NoSend
  /\ f = "composer" => screen.open.idle
  /\ written < MaxSends /\ written' = written + 1
  /\ drafts' = [drafts EXCEPT ![f] = written + 1]
  /\ meant' = Append(meant, NoIntent)
  /\ UNCHANGED <<chats, sends, screen, fetches, tries, unheard, slipped>>

\* submit(): with a key of its own, minted here; the dialog sends none, and
\* the server mints it.  The composer continues the job the page holds.
Submit(f) ==
  /\ drafts[f] # None /\ sends[f] = NoSend
  /\ f = "composer" => screen.open.idle
  /\ tries.sent < MaxSends /\ tries' = [tries EXCEPT !.sent = @ + 1]
  /\ LET c == IF f = "composer" THEN screen.open.chat ELSE None IN
     sends' = [sends EXCEPT ![f] =
       [pc |-> "sent", message |-> drafts[f], chat |-> c, new |-> c = None]]
  /\ meant' = [meant EXCEPT ![drafts[f]] =
       IF f = "dialog" THEN NoIntent
       ELSE [chat |-> screen.selected, excused |-> slipped \/ fetches.selection # None]]
  /\ UNCHANGED <<chats, drafts, screen, fetches, written, unheard, slipped>>

\* JobService.create(), or continue() of a chat that has ended its turn: no
\* two requests share a key, so that nothing is replayed.
ServeSend(f) ==
  LET c == sends[f].chat
      m == sends[f].message IN
  /\ sends[f].pc = "sent"
  /\ \/ /\ c = None /\ Len(chats) < MaxChats
        /\ chats' = Append(chats, [said |-> <<m>>, idle |-> FALSE])
        /\ sends' = [sends EXCEPT ![f] = [@ EXCEPT !.pc = "done", !.chat = Len(chats) + 1]]
     \/ /\ c # None /\ chats[c].idle
        /\ chats' = [chats EXCEPT ![c] = [said |-> Append(@.said, m), idle |-> FALSE]]
        /\ sends' = [sends EXCEPT ![f].pc = "done"]
     \/ /\ sends' = [sends EXCEPT ![f].pc = "failed"]
        /\ UNCHANGED chats   \* 409 while the turn runs; or the request was lost
  /\ UNCHANGED <<drafts, screen, fetches, written, tries, meant, unheard, slipped>>

\* The answer is lost, or the operation could not be completed after the job
\* was queued.
AnswerGoesMissing(f) ==
  /\ sends[f].pc = "done"
  /\ sends' = [sends EXCEPT ![f].pc = "failed"]
  /\ unheard' = unheard \cup {sends[f].message}
  /\ UNCHANGED <<chats, drafts, screen, fetches, written, tries, meant, slipped>>

\* The form that was answered is emptied, whatever chat is on screen by now.
Cleared(f) ==
  /\ sends' = [sends EXCEPT ![f] = NoSend]
  /\ drafts' = [drafts EXCEPT ![f] = None]

\* The created chat is selected, and its job fetched.
ChatCreated ==
  LET c == sends["composer"].chat IN
  /\ sends["composer"].pc = "done" /\ sends["composer"].new
  /\ Select(c, TRUE)
  /\ Cleared("composer")
  /\ UNCHANGED <<chats, written, tries, meant, unheard>>

\* setActiveJob(updated); the selection stays as it is by now.
ChatContinued ==
  LET c == sends["composer"].chat IN
  /\ sends["composer"].pc = "done" /\ ~ sends["composer"].new
  /\ screen' = [screen EXCEPT !.open = [chat |-> c, idle |-> FALSE]]
  /\ slipped' = (c # screen.selected)
  /\ Cleared("composer")
  /\ UNCHANGED <<chats, fetches, written, tries, meant, unheard>>

\* Another page is opened: the log of the job, or its chat.
DialogAnswered ==
  /\ sends["dialog"].pc = "done" /\ Cleared("dialog")
  /\ UNCHANGED <<chats, screen, fetches, written, tries, meant, unheard, slipped>>

\* An error is shown; the text stays, to be sent again.
SendFailed(f) ==
  /\ sends[f].pc = "failed"
  /\ sends' = [sends EXCEPT ![f] = NoSend]
  /\ UNCHANGED <<chats, drafts, screen, fetches, written, tries, meant, unheard, slipped>>

-----------------------------------------------------------------------------
TurnEnds(c) ==
  /\ ~ chats[c].idle /\ chats' = [chats EXCEPT ![c].idle = TRUE]
  /\ UNCHANGED <<sends, drafts, screen, fetches, written, tries, meant, unheard, slipped>>

\* The transcript stream of the job the page holds tells its status.
StatusTold ==
  /\ screen.open.chat # None
  /\ screen' = [screen EXCEPT !.open.idle = chats[screen.open.chat].idle]
  /\ UNCHANGED <<chats, sends, drafts, fetches, written, tries, meant, unheard, slipped>>

ComposerNext ==
  \/ StartNewChat \/ ApprovalsChanged \/ SelectionFetched \/ FetchFails
  \/ ChatCreated \/ ChatContinued \/ DialogAnswered \/ StatusTold
  \/ \E c \in Chats : SelectChat(c) \/ Relist(c) \/ LateFetched(c) \/ TurnEnds(c)
  \/ \E f \in Forms :
       WriteMessage(f) \/ Submit(f) \/ ServeSend(f) \/ AnswerGoesMissing(f) \/ SendFailed(f)

ComposerSpec == ComposerInit /\ [][ComposerNext]_composerVars

-----------------------------------------------------------------------------
ComposerTypeOK ==
  /\ \A c \in Chats : chats[c].idle \in BOOLEAN
  /\ {screen.selected, screen.open.chat, fetches.selection} \cup fetches.late
       \subseteq {None} \cup Chats
  /\ \A f \in Forms : sends[f].pc \in {"none", "sent", "done", "failed"}
  /\ Len(meant) = written /\ written <= MaxSends /\ slipped \in BOOLEAN

\* Where a message was said.
Places(m) == {p \in Chats \X (1 .. MaxSends + 1) :
                p[2] <= Len(chats[p[1]].said) /\ chats[p[1]].said[p[2]] = m}

(* A message of which no answer was lost is said at most once; and in the  *)
(* chat that was on screen when it was sent (at the start of a new one if  *)
(* none was), unless the selected chat was still being fetched, or a late  *)
(* answer or a failed fetch had left the page with another chat's job.     *)
EachMessageInItsChat ==
  \A m \in 1 .. written : m \notin unheard =>
    /\ Cardinality(Places(m)) <= 1
    /\ meant[m].excused \/ \A p \in Places(m) :
         IF meant[m].chat = None THEN p[2] = 1 ELSE p[1] = meant[m].chat

(* A lost answer makes no second job and no second turn: what the comment  *)
(* in submit() says the idempotency key is for.                            *)
LostAnswerMakesNoSecondJob ==
  \A m \in 1 .. written : Cardinality(Places(m)) <= 1

=============================================================================
