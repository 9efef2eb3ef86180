---------------------------- MODULE Conversation ----------------------------
(***************************************************************************)
(* What the model is shown of a long chat: the append-only messages of the *)
(* graph checkpoint, the running summary that stands for the oldest of     *)
(* them, and the view that callModel makes of both (graph/persona-graph.ts,*)
(* thread-hygiene.ts, message-mapping.ts, dispatcher.ts).                  *)
(*                                                                         *)
(* Three stores may disagree after a crash: the transcript rows, written   *)
(* when a turn is asked for; the checkpoint, written behind the graph by   *)
(* LangGraph; and the summary in persona_memories, written by the hygiene  *)
(* node ahead of its own checkpoint.  A message costs one token.           *)
(***************************************************************************)
EXTENDS Naturals, Sequences, FiniteSets, SequencesExt

CONSTANTS
  THREAD_TOKEN_THRESHOLD, RECENT_CONTEXT_TOKEN_BUDGET,  \* of thread-hygiene.ts
  MaxPrompts,    \* bound: turns asked for
  MaxGraphRuns,  \* bound: attempts
  MaxMessages    \* bound: messages of the thread

ASSUME ConversationAssumption ==
  {THREAD_TOKEN_THRESHOLD, RECENT_CONTEXT_TOKEN_BUDGET, MaxPrompts, MaxGraphRuns, MaxMessages}
    \subseteq Nat \ {0}

VARIABLES
  prompts,   \* user rows of the transcript
  chat,      \* the status of the job, and the input of its queued attempt
  thread,    \* the newest checkpoint: messages and summary
  stored,    \* the live job-summary memory
  run        \* the graph in the worker's memory

conversationVars == <<prompts, chat, thread, stored, run>>

\* calls: an assistant message with a tool call; tool: its result.  "at" is
\* the attempt that wrote the message, "nth" its place.
ChatMessage == [role : {"user", "assistant", "calls", "tool"}, turn : 1 .. MaxPrompts,
                at : 1 .. MaxGraphRuns, nth : 1 .. MaxMessages]

\* A summary tells of the messages it was made from, up to a boundary.
NoSummary == [count |-> 0, tells |-> {}]
Summary == [count : 0 .. MaxMessages, tells : SUBSET ChatMessage]
NoRun == [pc |-> "none", number |-> 0]

ConversationTypeOK ==
  /\ prompts \in 0 .. MaxPrompts
  /\ chat \in [status : {"new", "queued", "running", "done", "failed", "cancelled"},
               input : {"user_message", "retry"}, runs : 0 .. MaxGraphRuns]
  /\ thread.messages \in Seq(ChatMessage) /\ thread.summary \in Summary
  /\ stored \in Summary
  /\ run.pc \in {"none", "thread_hygiene", "model", "tools", "end"}

ConversationInit ==
  /\ prompts = 0
  /\ chat = [status |-> "new", input |-> "user_message", runs |-> 0]
  /\ thread = [messages |-> <<>>, summary |-> NoSummary]
  /\ stored = NoSummary
  /\ run = NoRun

-----------------------------------------------------------------------------
(* The pure parts: what is old, what may be kept, what the model sees.      *)

IsUser(messages, i) == messages[i].role = "user"

\* Mutant: cuts wherever the budget is used up, also between a call and its
\* result.
CutAnywhere(messages) ==
  IF Len(messages) > RECENT_CONTEXT_TOKEN_BUDGET
    THEN Len(messages) - RECENT_CONTEXT_TOKEN_BUDGET ELSE 0

\* How many messages are old: all before the earliest user turn that fits the
\* budget, or before the newest user turn if none does.  The first message
\* alone is never old.
recentContextStart(messages) ==
  LET turns == {i \in 2 .. Len(messages) : IsUser(messages, i)}
      fitting == {i \in turns : Len(messages) - i + 1 <= RECENT_CONTEXT_TOKEN_BUDGET}
  IN  IF fitting # {} THEN (CHOOSE i \in fitting : \A j \in fitting : i <= j) - 1
      ELSE IF turns # {} THEN (CHOOSE i \in turns : \A j \in turns : j <= i) - 1
      ELSE 0

ValidAtSafeBoundary(summary, messages) ==
  \/ summary.count = 0
  \/ summary.count < Len(messages) /\ IsUser(messages, summary.count + 1)

\* The checkpoint's summary, unless the memory loaded when the run began is
\* valid and at least as far.
selectThreadSummary(checkpoint, initial, messages) ==
  LET valid == {s \in {checkpoint, initial} : ValidAtSafeBoundary(s, messages)}
  IN  IF valid = {} THEN NoSummary
      ELSE IF valid = {checkpoint, initial}
        THEN IF checkpoint.count > initial.count THEN checkpoint ELSE initial
      ELSE CHOOSE s \in valid : TRUE

Results(messages, i) == i < Len(messages) /\ messages[i + 1].role = "tool"

\* toModelMessages: a call without its result goes, and so does a result
\* without its call.
toModelMessages(messages) ==
  {messages[i] : i \in {j \in DOMAIN messages :
     CASE messages[j].role = "calls" -> Results(messages, j)
       [] messages[j].role = "tool" -> j > 1 /\ messages[j - 1].role = "calls"
       [] OTHER -> TRUE}}

Shown(summary, messages) ==
  summary.tells \cup toModelMessages(SubSeq(messages, summary.count + 1, Len(messages)))

-----------------------------------------------------------------------------
(* The turns of the chat.                                                   *)

Queue(input) == chat' = [chat EXCEPT !.status = "queued", !.input = input]

\* POST /jobs, or /continue from done or failed.
AskTurn ==
  /\ chat.status \in {"new", "done", "failed"} /\ prompts < MaxPrompts
  /\ prompts' = prompts + 1 /\ Queue("user_message")
  /\ UNCHANGED <<thread, stored, run>>

RetryTurn ==
  /\ chat.status \in {"failed", "cancelled"}
  /\ Queue("retry")
  /\ UNCHANGED <<prompts, thread, stored, run>>

\* Cancelled while queued, or failed before the graph starts.
EndUnstarted ==
  /\ chat.status = "queued"
  /\ \E status \in {"cancelled", "failed"} : chat' = [chat EXCEPT !.status = status]
  /\ UNCHANGED <<prompts, thread, stored, run>>

UserTurns(messages) == Cardinality({i \in DOMAIN messages : IsUser(messages, i)})

\* Mutant: a retry trusts the checkpoint to hold the prompt.
RetryWithNothing(messages) == FALSE

\* graphInputForRetry: the prompt is supplied again unless the checkpoint
\* holds as many user messages as the transcript.
Resupplied(messages) == UserTurns(messages) < prompts

StartGraph ==
  /\ chat.status = "queued" /\ chat.runs < MaxGraphRuns
  /\ LET number == chat.runs + 1
         prompt == [role |-> "user", turn |-> prompts, at |-> number,
                    nth |-> Len(thread.messages) + 1]
         asks == chat.input = "user_message" \/ Resupplied(thread.messages)
     IN  /\ Len(thread.messages) + 4 <= MaxMessages
         /\ run' = [pc |-> "thread_hygiene", number |-> number, initial |-> stored,
                    summary |-> thread.summary,
                    messages |-> thread.messages \o (IF asks THEN <<prompt>> ELSE <<>>)]
         /\ chat' = [chat EXCEPT !.status = "running", !.runs = number]
  /\ UNCHANGED <<prompts, thread, stored>>

\* applyThreadHygiene: saved in persona_memories before the node returns.
SummarizeOld ==
  /\ run.pc = "thread_hygiene" /\ Len(run.messages) > THREAD_TOKEN_THRESHOLD
  /\ LET current == selectThreadSummary(run.summary, run.initial, run.messages)
         start == recentContextStart(run.messages)
         next == [count |-> start, tells |->
                    current.tells \cup ToSet(SubSeq(run.messages, current.count + 1, start))]
     IN  \/ /\ start > current.count
            /\ stored' = next
            /\ run' = [run EXCEPT !.summary = next, !.pc = "model"]
         \* Nothing new is old, or the summary failed: the turn goes on.
         \/ /\ run' = [run EXCEPT !.summary = current, !.pc = "model"]
            /\ UNCHANGED stored
  /\ UNCHANGED <<prompts, chat, thread>>

SkipHygiene ==
  /\ run.pc = "thread_hygiene" /\ Len(run.messages) <= THREAD_TOKEN_THRESHOLD
  /\ run' = [run EXCEPT !.pc = "model"]
  /\ UNCHANGED <<prompts, chat, thread, stored>>

Append1(role, pc) ==
  run' = [run EXCEPT !.pc = pc, !.messages =
    Append(@, [role |-> role, turn |-> prompts, at |-> run.number, nth |-> Len(@) + 1])]

\* A reply, or a call while there is room for its result and a reply.
CallModel ==
  /\ run.pc = "model"
  /\ \/ Append1("assistant", "end")
     \/ Len(run.messages) + 3 <= MaxMessages /\ Append1("calls", "tools")
  /\ UNCHANGED <<prompts, chat, thread, stored>>

CallTools ==
  /\ run.pc = "tools"
  /\ Append1("tool", "thread_hygiene")
  /\ UNCHANGED <<prompts, chat, thread, stored>>

\* LangGraph writes the checkpoint of a finished step behind the next one.
WriteCheckpoint ==
  /\ run.pc # "none"
  /\ thread' = [messages |-> run.messages, summary |-> run.summary]
  /\ thread' # thread
  /\ UNCHANGED <<prompts, chat, stored, run>>

FinishGraph ==
  /\ run.pc = "end"
  /\ thread' = [messages |-> run.messages, summary |-> run.summary]
  /\ chat' = [chat EXCEPT !.status = "done"] /\ run' = NoRun
  /\ UNCHANGED <<prompts, stored>>

\* The process dies, the lease is lost, a provider fails, the owner cancels.
AbandonGraph ==
  /\ run.pc # "none"
  /\ \E status \in {"cancelled", "failed"} : chat' = [chat EXCEPT !.status = status]
  /\ run' = NoRun
  /\ UNCHANGED <<prompts, thread, stored>>

ConversationNext ==
  \/ AskTurn \/ RetryTurn \/ EndUnstarted \/ StartGraph
  \/ SummarizeOld \/ SkipHygiene \/ CallModel \/ CallTools
  \/ WriteCheckpoint \/ FinishGraph \/ AbandonGraph

ConversationSpec == ConversationInit /\ [][ConversationNext]_conversationVars

-----------------------------------------------------------------------------
\* When the model is called, every message of the thread is in front of it or
\* told by the summary in front of it, but for calls that never got a result,
\* whatever crashed between the summary, the checkpoint and the turn
\* (selectThreadSummary, recentContextStart, toModelMessages).
NothingLeftOut ==
  run.pc = "model" =>
    toModelMessages(run.messages)
      \subseteq Shown(selectThreadSummary(run.summary, run.initial, run.messages), run.messages)

\* The model answers the prompt the owner asked last, and sees no prompt twice
\* unless an earlier one never reached the thread (graphInputForRetry).
NewestPromptIsAsked ==
  run.pc = "model" =>
    LET asked == {i \in DOMAIN run.messages : IsUser(run.messages, i)}
        turnOf(i) == run.messages[i].turn
    IN  /\ \E i \in asked : turnOf(i) = prompts /\ \A j \in asked : j <= i
        /\ \/ \A i, j \in asked : turnOf(i) = turnOf(j) => i = j
           \/ \E turn \in 1 .. prompts : \A i \in asked : turnOf(i) # turn

\* What the model is shown: the whole thread, and the prompt that was asked last.
ModelIsToldTheThread == NothingLeftOut /\ NewestPromptIsAsked

=============================================================================
