---------------------------- MODULE PersonaProofs ----------------------------
(* What one persona keeps, and the pages on which its owner manages it, for *)
(* any number of writers, turns, labels, rows, tools, visits and requests.  *)
EXTENDS PersonaPages, RankingsProofs, SequenceTheorems

-----------------------------------------------------------------------------
(* The loop note.  Of turns that follow each other only one holds the note  *)
(* at a time; what it has read is what the note says, and what it stages    *)
(* keeps what the note says.                                                *)

Effect == [op : {"none", "write", "delete"}, items : SUBSET (1 .. MaxItems)]
Glimpse == [read : BOOLEAN, items : SUBSET (1 .. MaxItems)]
Holder == [pc : {"idle", "on", "staged", "ended"}, live : BOOLEAN, seen : Glimpse, staged : Effect]

NotesShape ==
  /\ note \in [kept : BOOLEAN, items : SUBSET (1 .. MaxItems)]
  /\ told \subseteq 1 .. MaxItems /\ dropped \subseteq 1 .. MaxItems
  /\ upsets \subseteq {"beside", "anew", "corrected", "unheard"}
  /\ fact = [version |-> fact.version, deleted |-> fact.deleted]
  /\ keeping \in [Entries -> [listed : BOOLEAN, pc : {"none", "sent", "done", "failed"}]]
  /\ holders \in [Holders -> Holder]

\* A turn that holds the note, as the only one.
InHand(g) ==
  /\ g.seen.read => g.seen.items = note.items
  /\ g.pc = "staged" =>
       IF g.staged.op = "write" THEN note.items \subseteq g.staged.items ELSE g.staged.items = {}

OneHolder ==
  /\ \A h, k \in LiveHolders : h = k
  /\ \A h \in LiveHolders : \A g \in {holders[h]} : InHand(g)
  /\ note.items \subseteq told /\ told \ dropped \subseteq note.items

\* The panel, whatever the turns do.
PanelKnows ==
  /\ keeping["note"].listed \/ ~ note.kept \/ "anew" \in upsets
  /\ keeping["note"].pc = "done" => ~ note.kept \/ "anew" \in upsets
  /\ keeping["note"].listed =>
       note.kept \/ upsets \cap {"anew", "unheard"} # {} \/ keeping["note"].pc = "done"
  /\ fact.version = 1 \/ "corrected" \in upsets
  /\ keeping["fact"].pc = "done" => 1 \in fact.deleted
  /\ keeping["fact"].listed \/ 1 \in fact.deleted

NotesInv == NotesShape /\ ("beside" \in upsets \/ OneHolder) /\ PanelKnows

\* Init establishes the invariant.
LEMMA NotesStart == NotesInit => NotesInv
<1> SUFFICES ASSUME NotesInit PROVE NotesInv
  OBVIOUS
<1>1. NotesShape
  <2>1. Idle \in Holder
    BY DEF Idle, Unread, NoEffect, Holder, Glimpse, Effect
  <2> QED BY <2>1 DEF NotesInit, NotesShape, Entries
<1>2. LiveHolders = {}
  BY DEF NotesInit, LiveHolders, Idle
<1>3. OneHolder
  BY <1>2 DEF NotesInit, OneHolder
<1>4. PanelKnows
  BY DEF NotesInit, PanelKnows, Entries
<1> QED BY <1>1, <1>3, <1>4 DEF NotesInv

\* What moves no turn and no note leaves the holder as it was.
LEMMA HolderStays ==
  OneHolder /\ UNCHANGED <<note, told, dropped, holders>> => OneHolder'
  BY DEF OneHolder, LiveHolders, InHand

\* What an action does to a holder leaves a holder.
LEMMA HolderFacts ==
  /\ Idle \in Holder
  /\ \A g \in Holder :
       /\ [Idle EXCEPT !.pc = "on", !.live = TRUE] \in Holder
       /\ [Idle EXCEPT !.pc = "ended"] \in Holder
       /\ [g EXCEPT !.live = FALSE] \in Holder
       /\ \A r \in BOOLEAN, items \in SUBSET (1 .. MaxItems) :
            /\ [g EXCEPT !.seen = [read |-> r, items |-> items]] \in Holder
            /\ [g EXCEPT !.pc = "on", !.staged = NoEffect,
                  !.seen = [read |-> r, items |-> items]] \in Holder
       /\ \A effect \in Effect : [g EXCEPT !.pc = "staged", !.staged = effect] \in Holder
<1>1. Idle \in Holder /\ NoEffect \in Effect
  BY DEF Idle, Unread, NoEffect, Holder, Glimpse, Effect
<1>2. \A r \in BOOLEAN, items \in SUBSET (1 .. MaxItems) : [read |-> r, items |-> items] \in Glimpse
  BY DEF Glimpse
<1> QED BY <1>1, <1>2 DEF Holder

\* What the panel asks changes one entry.
LEMMA AskingFacts ==
  ASSUME NotesShape, NEW e \in Entries, NEW pc \in {"none", "sent", "done", "failed"}, Asking(e, pc)
  PROVE  /\ keeping' \in [Entries -> [listed : BOOLEAN, pc : {"none", "sent", "done", "failed"}]]
         /\ keeping'[e].pc = pc /\ keeping'[e].listed = keeping[e].listed
         /\ \A d \in Entries \ {e} : keeping'[d] = keeping[d]
  BY DEF NotesShape, Asking

\* The parts of the invariant, one kind of action each.
LEMMA TurnStep ==
  ASSUME NotesInv, NEW h \in Holders,
         BeginTurn(h) \/ LoseLease(h) \/ ReadState(h) \/ RefuseStaged(h) \/ EndTurn(h)
  PROVE NotesInv'
<1>1. NotesShape'
  <2>1. CASE BeginTurn(h)
    BY <2>1, HolderFacts DEF NotesInv, NotesShape, BeginTurn, Holding
  <2>2. CASE LoseLease(h)
    BY <2>2, HolderFacts DEF NotesInv, NotesShape, LoseLease, Holding
  <2>3. CASE ReadState(h)
    BY <2>3, HolderFacts DEF NotesInv, NotesShape, ReadState, Holding
  <2>4. CASE RefuseStaged(h)
    BY <2>4, HolderFacts DEF NotesInv, NotesShape, RefuseStaged, Holding
  <2>5. CASE EndTurn(h)
    BY <2>5, HolderFacts DEF NotesInv, NotesShape, EndTurn, Holding
  <2> QED BY <2>1, <2>2, <2>3, <2>4, <2>5
<1>2. /\ note' = note /\ told' = told /\ dropped' = dropped /\ fact' = fact /\ keeping' = keeping
      /\ upsets \subseteq upsets'
      /\ "beside" \notin upsets' => (BeginTurn(h) => LiveHolders = {})
      /\ upsets' \cap {"anew", "unheard", "corrected"} = upsets \cap {"anew", "unheard", "corrected"}
  BY DEF BeginTurn, LoseLease, ReadState, RefuseStaged, EndTurn, Holding
<1>3. ASSUME "beside" \notin upsets' PROVE OneHolder'
  <2>1. OneHolder
    BY <1>2, <1>3 DEF NotesInv
  <2>2. \A k \in Holders \ {h} : holders'[k] = holders[k]
    BY DEF NotesInv, NotesShape, BeginTurn, LoseLease, ReadState, RefuseStaged, EndTurn, Holding
  <2>3. CASE BeginTurn(h)
    <3>1. LiveHolders' = {h} /\ holders'[h].seen.read = FALSE /\ holders'[h].pc = "on"
      BY <1>2, <1>3, <2>2, <2>3
         DEF BeginTurn, Holding, LiveHolders, Idle, Unread, NotesInv, NotesShape
    <3> QED BY <1>2, <2>1, <3>1 DEF OneHolder, InHand
  <2>4. CASE ReadState(h)
    <3>1. LiveHolders' = LiveHolders /\ holders'[h].seen.items = note.items /\ holders'[h].pc = "on"
      BY <2>2, <2>4 DEF ReadState, Holding, LiveHolders, NotesInv, NotesShape, Holder
    <3> QED BY <1>2, <2>1, <2>2, <3>1 DEF OneHolder, InHand, LiveHolders
  <2>5. CASE LoseLease(h) \/ RefuseStaged(h) \/ EndTurn(h)
    <3>1. holders'[h].live = FALSE
      BY <2>5 DEF LoseLease, RefuseStaged, EndTurn, Holding, Idle, NotesInv, NotesShape, Holder
    <3>2. LiveHolders' = LiveHolders \ {h}
      BY <2>2, <3>1 DEF LiveHolders
    <3> QED BY <1>2, <2>1, <2>2, <3>2 DEF OneHolder, InHand, LiveHolders
  <2> QED BY <2>3, <2>4, <2>5
<1>4. PanelKnows'
  BY <1>2 DEF PanelKnows, NotesInv
<1> QED BY <1>1, <1>3, <1>4 DEF NotesInv

LEMMA StageStep ==
  ASSUME NotesInv, NEW h \in Holders, WriteState(h) \/ ForgetState(h)
  PROVE NotesInv'
<1>1. PICK effect \in [op : {"write", "delete"}, items : SUBSET (1 .. MaxItems)] :
         /\ Stage(h, effect.op, effect.items)
         /\ effect.op = "write" => holders[h].seen.read /\ holders[h].seen.items \subseteq effect.items
         /\ effect.op = "delete" => effect.items = {}
  <2>1. CASE ForgetState(h)
    <3> DEFINE e == [op |-> "delete", items |-> {}]
    <3>1. e \in [op : {"write", "delete"}, items : SUBSET (1 .. MaxItems)] /\ Stage(h, e.op, e.items)
      BY <2>1 DEF ForgetState
    <3> QED BY <3>1
  <2>2. CASE WriteState(h)
    <3>1. PICK item \in 1 .. MaxItems : Stage(h, "write", holders[h].seen.items \cup {item})
      BY <2>2 DEF WriteState
    <3> DEFINE e == [op |-> "write", items |-> holders[h].seen.items \cup {item}]
    <3>2. e \in [op : {"write", "delete"}, items : SUBSET (1 .. MaxItems)] /\ Stage(h, e.op, e.items)
      BY <3>1 DEF NotesInv, NotesShape, Holder, Glimpse
    <3>3. holders[h].seen.read
      BY <2>2 DEF WriteState
    <3> QED BY <3>2, <3>3
  <2> QED BY <2>1, <2>2
<1>2. /\ UNCHANGED <<note, told, dropped, upsets, fact, keeping>>
      /\ holders' = [holders EXCEPT ![h] =
           [holders[h] EXCEPT !.pc = "staged", !.staged = [op |-> effect.op, items |-> effect.items]]]
  BY <1>1 DEF Stage, Holding
<1>3. NotesShape'
  BY <1>2, HolderFacts DEF NotesInv, NotesShape, Effect
<1>4. LiveHolders' = LiveHolders /\ \A k \in Holders \ {h} : holders'[k] = holders[k]
  BY <1>2 DEF LiveHolders, NotesInv, NotesShape, Holder
<1>5. /\ holders'[h].seen = holders[h].seen /\ holders'[h].staged.op = effect.op
      /\ holders'[h].staged.items = effect.items
  BY <1>2 DEF NotesInv, NotesShape, Holder
<1>6. OneHolder => OneHolder'
  <2>1. SUFFICES ASSUME OneHolder, h \in LiveHolders PROVE InHand(holders[h])'
    BY <1>2, <1>4 DEF OneHolder, InHand, LiveHolders
  <2> QED BY <1>1, <1>2, <1>5, <2>1 DEF OneHolder, InHand
<1>7. PanelKnows'
  BY <1>2 DEF PanelKnows, NotesInv
<1> QED BY <1>2, <1>3, <1>6, <1>7 DEF NotesInv

LEMMA ApplyStep ==
  ASSUME NotesInv, NEW h \in Holders, ApplyStaged(h)
  PROVE NotesInv'
<1> DEFINE effect == holders[h].staged
<1>1. /\ effect \in [op : {"none", "write", "delete"}, items : SUBSET (1 .. MaxItems)]
      /\ holders[h].pc = "staged" /\ holders[h].live
  BY DEF NotesInv, NotesShape, Holder, Effect, ApplyStaged, AssertLive
<1>2. /\ UNCHANGED <<fact, keeping>>
      /\ holders' = [holders EXCEPT ![h] = [holders[h] EXCEPT !.pc = "on", !.staged = NoEffect,
                       !.seen = [read |-> TRUE, items |-> effect.items]]]
  BY DEF ApplyStaged, Holding
<1>3. IF effect.op = "write"
        THEN /\ note' = [kept |-> TRUE, items |-> effect.items] /\ told' = told \cup effect.items
             /\ upsets' = (IF note.kept THEN upsets ELSE upsets \cup {"anew"}) /\ dropped' = dropped
        ELSE /\ note' = [kept |-> FALSE, items |-> {}] /\ dropped' = dropped \cup note.items
             /\ upsets' = upsets \cup {"anew"} /\ told' = told
  BY DEF ApplyStaged
<1> HIDE DEF effect
<1>4. NotesShape'
  <2>1. holders' \in [Holders -> Holder]
    BY <1>1, <1>2, HolderFacts DEF NotesInv, NotesShape
  <2>2. effect.items \subseteq 1 .. MaxItems /\ note.items \subseteq 1 .. MaxItems
    BY <1>1 DEF NotesInv, NotesShape
  <2>3. /\ note' \in [kept : BOOLEAN, items : SUBSET (1 .. MaxItems)]
        /\ told' \subseteq 1 .. MaxItems /\ dropped' \subseteq 1 .. MaxItems
        /\ upsets' \subseteq {"beside", "anew", "corrected", "unheard"}
    <3>1. note' \in [kept : BOOLEAN, items : SUBSET (1 .. MaxItems)]
      <4>1. \A k \in BOOLEAN, S \in SUBSET (1 .. MaxItems) :
              [kept |-> k, items |-> S] \in [kept : BOOLEAN, items : SUBSET (1 .. MaxItems)]
        OBVIOUS
      <4>2. effect.items \in SUBSET (1 .. MaxItems) /\ {} \in SUBSET (1 .. MaxItems)
        BY <2>2
      <4>3. CASE effect.op = "write"
        BY <1>3, <4>1, <4>2, <4>3
      <4>4. CASE effect.op # "write"
        BY <1>3, <4>1, <4>2, <4>4
      <4> QED BY <4>3, <4>4
    <3>2. told' \subseteq 1 .. MaxItems
      BY <1>3, <2>2 DEF NotesInv, NotesShape
    <3>3. dropped' \subseteq 1 .. MaxItems
      BY <1>3, <2>2 DEF NotesInv, NotesShape
    <3>4. upsets' \subseteq {"beside", "anew", "corrected", "unheard"}
      BY <1>3 DEF NotesInv, NotesShape
    <3> QED BY <3>1, <3>2, <3>3, <3>4
  <2> QED BY <1>2, <2>1, <2>3 DEF NotesInv, NotesShape
<1>5. LiveHolders' = LiveHolders /\ h \in LiveHolders /\ \A k \in Holders \ {h} : holders'[k] = holders[k]
  BY <1>1, <1>2 DEF LiveHolders, NotesInv, NotesShape, Holder
<1>6. holders'[h].seen.items = effect.items /\ holders'[h].pc = "on"
  BY <1>1, <1>2 DEF NotesInv, NotesShape, Holder
<1>7. OneHolder => OneHolder'
  <2> SUFFICES ASSUME OneHolder PROVE OneHolder'
    OBVIOUS
  <2>1. LiveHolders = {h}
    BY <1>5 DEF OneHolder
  <2>2. IF effect.op = "write" THEN note.items \subseteq effect.items ELSE effect.items = {}
    BY <1>1, <2>1 DEF OneHolder, InHand, effect
  <2>3. note'.items = effect.items
    BY <1>3, <2>2
  <2>4. InHand(holders[h])'
    BY <1>6, <2>3 DEF InHand
  <2>5. note'.items \subseteq told' /\ told' \ dropped' \subseteq note'.items
    BY <1>3, <2>2 DEF OneHolder
  <2> QED BY <1>5, <2>1, <2>4, <2>5 DEF OneHolder
<1>8. PanelKnows'
  <2>1. CASE effect.op = "write"
    BY <1>2, <1>3, <2>1 DEF PanelKnows, NotesInv
  <2>2. CASE effect.op # "write"
    BY <1>2, <1>3, <2>2 DEF PanelKnows, NotesInv
  <2> QED BY <2>1, <2>2
<1>9. "beside" \in upsets => "beside" \in upsets'
  BY <1>3
<1> QED BY <1>4, <1>7, <1>8, <1>9 DEF NotesInv

LEMMA PanelStep ==
  ASSUME NotesInv,
         \/ CorrectFact \/ DeleteNote \/ DeleteFact
         \/ \E e \in Entries : ForgetEntry(e) \/ DeleteFails(e) \/ DeleteUnheard(e)
                               \/ EntryForgotten(e) \/ EntryStays(e)
  PROVE NotesInv'
<1>1. CASE CorrectFact
  <2>1. NotesShape' /\ PanelKnows'
    BY <1>1 DEF CorrectFact, NotesInv, NotesShape, PanelKnows
  <2> QED BY <1>1, <2>1, HolderStays DEF CorrectFact, NotesInv
<1>2. CASE DeleteNote
  <2>1. NotesShape'
    BY <1>2, AskingFacts DEF DeleteNote, NotesInv, NotesShape, Entries
  <2>2. PanelKnows'
    BY <1>2, AskingFacts DEF DeleteNote, NotesInv, NotesShape, PanelKnows, Entries
  <2>3. ASSUME "beside" \notin upsets' PROVE OneHolder'
    <3>1. LiveHolders = {} /\ OneHolder /\ LiveHolders' = LiveHolders
      BY <1>2, <2>3 DEF DeleteNote, NotesInv, LiveHolders
    <3> QED BY <1>2, <3>1 DEF DeleteNote, OneHolder
  <2> QED BY <2>1, <2>2, <2>3 DEF NotesInv
<1>3. CASE DeleteFact
  <2>1. NotesShape'
    BY <1>3, AskingFacts DEF DeleteFact, NotesInv, NotesShape, Entries
  <2>2. PanelKnows'
    BY <1>3, AskingFacts DEF DeleteFact, NotesInv, NotesShape, PanelKnows, Entries
  <2> QED BY <1>3, <2>1, <2>2, HolderStays DEF DeleteFact, NotesInv
<1>4. ASSUME NEW e \in Entries, ForgetEntry(e) PROVE NotesInv'
  <2>1. NotesShape' /\ PanelKnows'
    BY <1>4, AskingFacts DEF ForgetEntry, NotesInv, NotesShape, PanelKnows, Entries
  <2> QED BY <1>4, <2>1, HolderStays DEF ForgetEntry, NotesInv
<1>5. ASSUME NEW e \in Entries, DeleteFails(e) PROVE NotesInv'
  <2>1. NotesShape' /\ PanelKnows'
    BY <1>5, AskingFacts DEF DeleteFails, NotesInv, NotesShape, PanelKnows, Entries
  <2> QED BY <1>5, <2>1, HolderStays DEF DeleteFails, NotesInv
<1>6. ASSUME NEW e \in Entries, DeleteUnheard(e) PROVE NotesInv'
  <2>1. NotesShape' /\ PanelKnows'
    BY <1>6, AskingFacts DEF DeleteUnheard, NotesInv, NotesShape, PanelKnows, Entries
  <2> QED BY <1>6, <2>1, HolderStays DEF DeleteUnheard, NotesInv
<1>7. ASSUME NEW e \in Entries, EntryForgotten(e) PROVE NotesInv'
  <2>1. NotesShape' /\ PanelKnows'
    BY <1>7 DEF EntryForgotten, RowDeleted, NotesInv, NotesShape, PanelKnows, Entries
  <2> QED BY <1>7, <2>1, HolderStays DEF EntryForgotten, NotesInv
<1>8. ASSUME NEW e \in Entries, EntryStays(e) PROVE NotesInv'
  <2>1. NotesShape' /\ PanelKnows'
    BY <1>8, AskingFacts DEF EntryStays, NotesInv, NotesShape, PanelKnows, Entries
  <2> QED BY <1>8, <2>1, HolderStays DEF EntryStays, NotesInv
<1> QED BY <1>1, <1>2, <1>3, <1>4, <1>5, <1>6, <1>7, <1>8

(* What a turn was told stays in the note, and the panel lists what is      *)
(* there, for any number of turns and writes.                               *)
THEOREM NotesAndTheirPanel == NotesSpec => [](NotesTypeOK /\ NotesAreKept /\ PanelForgetsTheRows)
<1>1. NotesInit => NotesInv
  BY NotesStart
<1>2. NotesInv /\ [NotesNext]_notesVars => NotesInv'
  <2> SUFFICES ASSUME NotesInv, [NotesNext]_notesVars PROVE NotesInv'
    OBVIOUS
  <2>1. CASE UNCHANGED notesVars
    BY <2>1, HolderStays DEF notesVars, NotesInv, NotesShape, PanelKnows
  <2>2. CASE NotesNext
    BY <2>2, TurnStep, StageStep, ApplyStep, PanelStep, Zenon DEF NotesNext
  <2> QED BY <2>1, <2>2
<1>3. NotesInv => NotesTypeOK /\ NotesAreKept /\ PanelForgetsTheRows
  BY DEF NotesInv, NotesShape, OneHolder, PanelKnows, NotesTypeOK, NotesAreKept,
         PanelForgetsTheRows, Live
<1> QED BY <1>1, <1>2, <1>3, PTL DEF NotesSpec

-----------------------------------------------------------------------------
(* The routine's row and its menu.  While others leave the routine alone,   *)
(* every request tells its answer and the form is not open while notify is  *)
(* toggled, the page lags behind the row only by answers still to come.     *)

RoutineFields == [enabled : BOOLEAN, notify : BOOLEAN, text : 0 .. MaxAsks]
PanelAsk == [pc : {"none", "sent", "done", "failed"}, fields : SUBSET Fields,
             body : RoutineFields, answer : RoutineFields]
SentBy(a) == CASE a = "toggle" -> {"enabled"}
               [] a = "notify" -> {"notify"}
               [] a = "form"   -> {"notify", "text"}
               [] OTHER        -> {}

RoutineTypes ==
  /\ routineRow \in RoutineFields /\ shownRoutine \in RoutineFields /\ wanted \in RoutineFields
  /\ details \in [open : BOOLEAN, notify : BOOLEAN]
  /\ asks \in [Patching \cup Posting -> PanelAsk]
  /\ \A a \in Patching \cup Posting :
       IF asks[a].pc = "none" THEN asks[a] = NoAsk ELSE asks[a].fields = SentBy(a)
  /\ totals \in [Posting -> [made : Nat, heard : Nat]]
  /\ asked \in 0 .. MaxAsks
  /\ faults \subseteq {"form", "unheard", "elsewhere", "crossed"}

\* The page shows the row, or an answer that does is still to come.
ShownOrToCome ==
  \/ shownRoutine = routineRow
  \/ \E b \in Patching : asks[b].pc = "done" /\ asks[b].answer = routineRow
  \/ faults \cap {"elsewhere", "unheard", "crossed"} # {}

\* As many as the page was told, but for an answer still to come.
CountsAgree ==
  "unheard" \in faults
    \/ \A a \in Posting : totals[a].made = totals[a].heard + (IF asks[a].pc = "done" THEN 1 ELSE 0)

\* A field that one action writes: wanted is the row, or what is under way.
OwnField(a, f) ==
  /\ asks[a].pc \in {"none", "done"} => wanted[f] = routineRow[f]
  /\ asks[a].pc = "sent" => wanted[f] = asks[a].body[f]

\* notify, which two actions write, though never beside each other.
NotifyField ==
  /\ asks["notify"] # NoAsk => ~ details.open /\ asks["form"] = NoAsk
  /\ asks["notify"].pc \in {"none", "done"} /\ asks["form"].pc \in {"none", "done"} =>
       wanted.notify = routineRow.notify
  /\ asks["notify"].pc # "done" /\ asks["form"].pc # "done" =>
       shownRoutine.notify = routineRow.notify
  /\ \A b \in {"notify", "form"} :
       /\ asks[b].pc = "sent" => wanted.notify = asks[b].body.notify
       /\ asks[b].pc = "done" => asks[b].answer.notify = routineRow.notify
  /\ details.open /\ asks["form"].pc # "done" => details.notify = routineRow.notify

RoutineInv ==
  /\ RoutineTypes /\ ShownOrToCome /\ CountsAgree
  /\ faults = {} => OwnField("toggle", "enabled") /\ OwnField("form", "text") /\ NotifyField

\* A routine with a field or two replaced is a routine.
LEMMA RoutineFieldFacts ==
  /\ NoRoutine \in RoutineFields
  /\ \A r \in RoutineFields, b \in BOOLEAN, n \in 0 .. MaxAsks :
       /\ [r EXCEPT !.enabled = b] \in RoutineFields /\ [r EXCEPT !.notify = b] \in RoutineFields
       /\ [r EXCEPT !.notify = b, !.text = n] \in RoutineFields
       /\ [r EXCEPT !.text = n, !.notify = b] \in RoutineFields
       /\ r.enabled \in BOOLEAN /\ r.notify \in BOOLEAN /\ r.text \in 0 .. MaxAsks
<1>1. NoRoutine \in RoutineFields
  <2>1. 0 \in 0 .. MaxAsks
    BY RoutinePanelAssumption
  <2> QED BY <2>1 DEF RoutineFields, NoRoutine
<1>2. ASSUME NEW r \in RoutineFields, NEW b \in BOOLEAN, NEW n \in 0 .. MaxAsks
      PROVE  /\ [r EXCEPT !.enabled = b] \in RoutineFields /\ [r EXCEPT !.notify = b] \in RoutineFields
             /\ [r EXCEPT !.notify = b, !.text = n] \in RoutineFields
             /\ [r EXCEPT !.text = n, !.notify = b] \in RoutineFields
             /\ r.enabled \in BOOLEAN /\ r.notify \in BOOLEAN /\ r.text \in 0 .. MaxAsks
  BY DEF RoutineFields
<1> QED BY <1>1, <1>2

\* Each field is taken from the one or from the other.
LEMMA PatchedFacts ==
  ASSUME NEW r \in RoutineFields, NEW b \in RoutineFields, NEW fields \in SUBSET Fields
  PROVE  /\ Patched(r, fields, b) \in RoutineFields
         /\ \A f \in Fields : Patched(r, fields, b)[f] = IF f \in fields THEN b[f] ELSE r[f]
         /\ Patched(r, fields, b).enabled = IF "enabled" \in fields THEN b.enabled ELSE r.enabled
         /\ Patched(r, fields, b).notify = IF "notify" \in fields THEN b.notify ELSE r.notify
         /\ Patched(r, fields, b).text = IF "text" \in fields THEN b.text ELSE r.text
<1> DEFINE p == Patched(r, fields, b)
<1>1. p = [enabled |-> p.enabled, notify |-> p.notify, text |-> p.text]
  BY DEF Patched, Fields
<1>2. \A f \in Fields : p[f] = IF f \in fields THEN b[f] ELSE r[f]
  BY DEF Patched
<1>3. /\ p.enabled = IF "enabled" \in fields THEN b.enabled ELSE r.enabled
      /\ p.notify = IF "notify" \in fields THEN b.notify ELSE r.notify
      /\ p.text = IF "text" \in fields THEN b.text ELSE r.text
  BY <1>2 DEF Fields
<1>4. p.enabled \in BOOLEAN /\ p.notify \in BOOLEAN /\ p.text \in 0 .. MaxAsks
  BY <1>3 DEF RoutineFields
<1> HIDE DEF p
<1>5. p \in RoutineFields
  BY <1>1, <1>4 DEF RoutineFields
<1> QED BY <1>2, <1>3, <1>5 DEF p

\* A request that is made.
LEMMA AskFacts ==
  ASSUME RoutineTypes, NEW a \in Patching \cup Posting, NEW body \in RoutineFields,
         Ask(a, SentBy(a), body)
  PROVE  /\ asks[a] = NoAsk /\ asks[a].pc = "none" /\ asks'[a].pc = "sent" /\ asks'[a].body = body
         /\ asks' \in [Patching \cup Posting -> PanelAsk] /\ asks'[a].fields = SentBy(a)
         /\ \A c \in (Patching \cup Posting) \ {a} : asks'[c] = asks[c]
         /\ asked' \in 0 .. MaxAsks
         /\ routineRow' = routineRow /\ shownRoutine' = shownRoutine /\ totals' = totals
<1>1. SentBy(a) \in SUBSET Fields
  BY DEF SentBy, Fields, Patching, Posting
<1>2. NoAsk \in PanelAsk /\ NoAsk.pc = "none"
  BY RoutineFieldFacts DEF NoAsk, PanelAsk
<1>3. ASSUME NEW r \in PanelAsk, NEW fields \in SUBSET Fields
      PROVE  /\ [r EXCEPT !.pc = "sent", !.fields = fields, !.body = body] \in PanelAsk
             /\ [r EXCEPT !.pc = "sent", !.fields = fields, !.body = body].pc = "sent"
             /\ [r EXCEPT !.pc = "sent", !.fields = fields, !.body = body].fields = fields
             /\ [r EXCEPT !.pc = "sent", !.fields = fields, !.body = body].body = body
  BY DEF PanelAsk
<1> DEFINE next == [NoAsk EXCEPT !.pc = "sent", !.fields = SentBy(a), !.body = body]
<1>4. /\ asks[a] = NoAsk /\ asked < MaxAsks /\ asked' = asked + 1
      /\ asks' = [asks EXCEPT ![a] = next]
      /\ UNCHANGED <<routineRow, shownRoutine, totals>>
  BY DEF Ask
<1>5. next \in PanelAsk /\ next.pc = "sent" /\ next.fields = SentBy(a) /\ next.body = body
  BY <1>1, <1>2, <1>3
<1> HIDE DEF next
<1> QED BY <1>2, <1>4, <1>5, RoutinePanelAssumption DEF RoutineTypes

\* A request that moves on.
LEMMA AskMoves ==
  ASSUME RoutineTypes, NEW a \in Patching \cup Posting, NEW next \in PanelAsk,
         asks' = [asks EXCEPT ![a] = next],
         IF next.pc = "none" THEN next = NoAsk ELSE next.fields = SentBy(a)
  PROVE  /\ asks' \in [Patching \cup Posting -> PanelAsk]
         /\ \A c \in Patching \cup Posting :
              IF asks'[c].pc = "none" THEN asks'[c] = NoAsk ELSE asks'[c].fields = SentBy(c)
         /\ asks'[a] = next /\ \A c \in (Patching \cup Posting) \ {a} : asks'[c] = asks[c]
  BY DEF RoutineTypes

LEMMA RoutineStarts == RoutinePanelInit => RoutineInv
<1> SUFFICES ASSUME RoutinePanelInit PROVE RoutineInv
  OBVIOUS
<1>1. NoAsk \in PanelAsk /\ NoAsk.pc = "none"
  BY RoutineFieldFacts DEF NoAsk, PanelAsk
<1>2. routineRow \in RoutineFields
  <2>1. 0 \in 0 .. MaxAsks
    BY RoutinePanelAssumption
  <2> QED BY <2>1 DEF RoutinePanelInit, RoutineFields
<1>3. RoutineTypes
  BY <1>1, <1>2, RoutinePanelAssumption DEF RoutinePanelInit, RoutineTypes, Shut
<1>4. ShownOrToCome /\ CountsAgree
  BY <1>1 DEF RoutinePanelInit, ShownOrToCome, CountsAgree, Posting
<1>5. OwnField("toggle", "enabled") /\ OwnField("form", "text") /\ NotifyField
  BY <1>1 DEF RoutinePanelInit, OwnField, NotifyField, Patching, Shut
<1> QED BY <1>3, <1>4, <1>5 DEF RoutineInv

LEMMA ToggleStep == RoutineInv /\ ToggleEnabled => RoutineInv'
<1> SUFFICES ASSUME RoutineInv, ToggleEnabled PROVE RoutineInv'
  OBVIOUS
<1> DEFINE body == [shownRoutine EXCEPT !.enabled = ~ shownRoutine.enabled]
<1>1. body \in RoutineFields /\ body.enabled = ~ shownRoutine.enabled
  BY RoutineFieldFacts DEF RoutineInv, RoutineTypes, RoutineFields
<1>2. Ask("toggle", SentBy("toggle"), body) /\ UNCHANGED <<details, faults>>
      /\ wanted' = [wanted EXCEPT !.enabled = ~ shownRoutine.enabled]
  BY DEF ToggleEnabled, SentBy
<1> HIDE DEF body
<1>3. /\ asks["toggle"].pc = "none" /\ asks'["toggle"].pc = "sent" /\ asks'["toggle"].body = body
      /\ asks' \in [Patching \cup Posting -> PanelAsk] /\ asks'["toggle"].fields = SentBy("toggle")
      /\ \A c \in (Patching \cup Posting) \ {"toggle"} : asks'[c] = asks[c]
      /\ asked' \in 0 .. MaxAsks
      /\ routineRow' = routineRow /\ shownRoutine' = shownRoutine /\ totals' = totals
  BY <1>1, <1>2, AskFacts DEF RoutineInv, Patching
<1>4. /\ wanted' \in RoutineFields /\ wanted'.enabled = body.enabled
      /\ wanted'.notify = wanted.notify /\ wanted'.text = wanted.text
  BY <1>1, <1>2, RoutineFieldFacts DEF RoutineInv, RoutineTypes, RoutineFields
<1>5. RoutineTypes'
  BY <1>2, <1>3, <1>4 DEF RoutineInv, RoutineTypes
<1>6. ShownOrToCome' /\ CountsAgree'
  BY <1>2, <1>3 DEF RoutineInv, ShownOrToCome, CountsAgree, Patching, Posting
<1>7. ASSUME faults = {} PROVE OwnField("toggle", "enabled")' /\ OwnField("form", "text")' /\ NotifyField'
  BY <1>2, <1>3, <1>4, <1>7 DEF RoutineInv, OwnField, NotifyField, Patching
<1> QED BY <1>2, <1>5, <1>6, <1>7 DEF RoutineInv

LEMMA NotifyStep == RoutineInv /\ ToggleNotify => RoutineInv'
<1> SUFFICES ASSUME RoutineInv, ToggleNotify PROVE RoutineInv'
  OBVIOUS
<1> DEFINE body == [shownRoutine EXCEPT !.notify = ~ shownRoutine.notify]
<1>1. body \in RoutineFields /\ body.notify = ~ shownRoutine.notify
  BY RoutineFieldFacts DEF RoutineInv, RoutineTypes, RoutineFields
<1>2. /\ Ask("notify", SentBy("notify"), body) /\ UNCHANGED details
      /\ wanted' = [wanted EXCEPT !.notify = ~ shownRoutine.notify]
      /\ faults' = IF details.open \/ asks["form"] # NoAsk THEN faults \cup {"form"} ELSE faults
  BY DEF ToggleNotify, SentBy
<1> HIDE DEF body
<1>3. /\ asks["notify"].pc = "none" /\ asks'["notify"].pc = "sent" /\ asks'["notify"].body = body
      /\ asks' \in [Patching \cup Posting -> PanelAsk] /\ asks'["notify"].fields = SentBy("notify")
      /\ \A c \in (Patching \cup Posting) \ {"notify"} : asks'[c] = asks[c]
      /\ asked' \in 0 .. MaxAsks
      /\ routineRow' = routineRow /\ shownRoutine' = shownRoutine /\ totals' = totals
  BY <1>1, <1>2, AskFacts DEF RoutineInv, Patching
<1>4. /\ wanted' \in RoutineFields /\ wanted'.notify = body.notify
      /\ wanted'.enabled = wanted.enabled /\ wanted'.text = wanted.text
  BY <1>1, <1>2, RoutineFieldFacts DEF RoutineInv, RoutineTypes, RoutineFields
<1>5. RoutineTypes'
  BY <1>2, <1>3, <1>4 DEF RoutineInv, RoutineTypes
<1>6. ShownOrToCome' /\ CountsAgree'
  BY <1>2, <1>3 DEF RoutineInv, ShownOrToCome, CountsAgree, Patching, Posting
<1>7. ASSUME faults' = {}
      PROVE  OwnField("toggle", "enabled")' /\ OwnField("form", "text")' /\ NotifyField'
  <2>1. faults = {} /\ ~ details.open /\ asks["form"] = NoAsk
    BY <1>2, <1>7
  <2>2. NoAsk.pc = "none"
    BY DEF NoAsk
  <2> QED BY <1>2, <1>3, <1>4, <2>1, <2>2 DEF RoutineInv, OwnField, NotifyField, Patching
<1> QED BY <1>5, <1>6, <1>7 DEF RoutineInv

LEMMA DetailsStep == RoutineInv /\ (EditDetails \/ CancelDetails) => RoutineInv'
<1> SUFFICES ASSUME RoutineInv, EditDetails \/ CancelDetails PROVE RoutineInv'
  OBVIOUS
<1>1. /\ UNCHANGED <<routineRow, shownRoutine, asks, totals, asked, wanted>>
      /\ faults \subseteq faults' /\ faults' \subseteq faults \cup {"form"}
      /\ details' \in [open : BOOLEAN, notify : BOOLEAN]
  <2>1. shownRoutine.notify \in BOOLEAN
    BY RoutineFieldFacts, RoutinePanelAssumption DEF RoutineInv, RoutineTypes
  <2>2. \A o, n \in BOOLEAN : [open |-> o, notify |-> n] \in [open : BOOLEAN, notify : BOOLEAN]
    OBVIOUS
  <2>3. CASE EditDetails
    BY <2>1, <2>2, <2>3 DEF EditDetails, RoutineInv, RoutineTypes
  <2>4. CASE CancelDetails
    BY <2>2, <2>4 DEF CancelDetails, Shut, RoutineInv, RoutineTypes
  <2> QED BY <2>3, <2>4
<1>2. RoutineTypes' /\ ShownOrToCome' /\ CountsAgree'
  BY <1>1 DEF RoutineInv, RoutineTypes, ShownOrToCome, CountsAgree
<1>3. ASSUME faults' = {}
      PROVE  OwnField("toggle", "enabled")' /\ OwnField("form", "text")' /\ NotifyField'
  <2>1. faults = {} /\ (details'.open =>
           details'.notify = shownRoutine.notify /\ asks["notify"] = NoAsk)
    BY <1>1, <1>3 DEF EditDetails, CancelDetails, Shut
  <2>2. NoAsk.pc = "none"
    BY DEF NoAsk
  <2> QED BY <1>1, <2>1, <2>2 DEF RoutineInv, OwnField, NotifyField
<1> QED BY <1>2, <1>3 DEF RoutineInv

LEMMA SaveStep ==
  ASSUME RoutineInv, NEW notify \in BOOLEAN, SaveDetails(notify)
  PROVE  RoutineInv'
<1> DEFINE body == [shownRoutine EXCEPT !.notify = notify, !.text = asked + 1]
           kept == IF notify = details.notify THEN wanted.notify ELSE notify
<1>1. asked + 1 \in 0 .. MaxAsks
  BY RoutinePanelAssumption DEF SaveDetails, Ask, RoutineInv, RoutineTypes
<1>2. body \in RoutineFields /\ body.notify = notify /\ body.text = asked + 1
  BY <1>1, RoutineFieldFacts DEF RoutineInv, RoutineTypes, RoutineFields
<1>3. /\ Ask("form", SentBy("form"), body) /\ UNCHANGED <<details, faults>> /\ details.open
      /\ wanted' = [wanted EXCEPT !.text = asked + 1, !.notify = kept]
  BY DEF SaveDetails, SentBy
<1>4. kept \in BOOLEAN
  BY RoutineFieldFacts DEF RoutineInv, RoutineTypes
<1>5. kept = IF notify = details.notify THEN wanted.notify ELSE notify
  OBVIOUS
<1> HIDE DEF body, kept
<1>6. /\ asks["form"].pc = "none" /\ asks'["form"].pc = "sent" /\ asks'["form"].body = body
      /\ asks' \in [Patching \cup Posting -> PanelAsk] /\ asks'["form"].fields = SentBy("form")
      /\ \A c \in (Patching \cup Posting) \ {"form"} : asks'[c] = asks[c]
      /\ asked' \in 0 .. MaxAsks
      /\ routineRow' = routineRow /\ shownRoutine' = shownRoutine /\ totals' = totals
  BY <1>2, <1>3, AskFacts DEF RoutineInv, Patching
<1>7. /\ wanted' \in RoutineFields /\ wanted'.notify = kept
      /\ wanted'.enabled = wanted.enabled /\ wanted'.text = body.text
  BY <1>1, <1>2, <1>3, <1>4, RoutineFieldFacts DEF RoutineInv, RoutineTypes, RoutineFields
<1>8. RoutineTypes'
  BY <1>3, <1>6, <1>7 DEF RoutineInv, RoutineTypes
<1>9. ShownOrToCome' /\ CountsAgree'
  BY <1>3, <1>6 DEF RoutineInv, ShownOrToCome, CountsAgree, Patching, Posting
<1>10. ASSUME faults = {} PROVE OwnField("toggle", "enabled")' /\ OwnField("form", "text")' /\ NotifyField'
  <2>1. NotifyField /\ OwnField("toggle", "enabled")
    BY <1>10 DEF RoutineInv
  <2>2. asks["notify"] = NoAsk /\ asks["notify"].pc = "none"
    BY <1>3, <2>1 DEF NotifyField, NoAsk
  <2>3. kept = body.notify
    BY <1>2, <1>3, <1>5, <1>6, <2>1, <2>2 DEF NotifyField
  <2>4. OwnField("toggle", "enabled")' /\ OwnField("form", "text")'
    BY <1>6, <1>7, <2>1 DEF OwnField, Patching
  <2>5. NotifyField'
    BY <1>3, <1>6, <1>7, <2>1, <2>2, <2>3 DEF NotifyField, Patching
  <2> QED BY <2>4, <2>5
<1> QED BY <1>3, <1>8, <1>9, <1>10 DEF RoutineInv

\* Run-now and adding touch no field.
LEMMA PostStep == RoutineInv /\ (RunNow \/ AddRoutine) => RoutineInv'
<1> SUFFICES ASSUME RoutineInv, NEW a \in Posting, Ask(a, {}, NoRoutine),
                    UNCHANGED <<details, wanted, faults>>
             PROVE  RoutineInv'
  BY DEF RunNow, AddRoutine, Posting
<1>1. Ask(a, SentBy(a), NoRoutine) /\ a \in Patching \cup Posting /\ NoRoutine \in RoutineFields
  BY RoutineFieldFacts DEF SentBy, Posting
<1>2. /\ asks[a].pc = "none" /\ asks'[a].pc = "sent"
      /\ asks' \in [Patching \cup Posting -> PanelAsk] /\ asks'[a].fields = SentBy(a)
      /\ \A c \in (Patching \cup Posting) \ {a} : asks'[c] = asks[c]
      /\ asked' \in 0 .. MaxAsks
      /\ routineRow' = routineRow /\ shownRoutine' = shownRoutine /\ totals' = totals
  BY <1>1, AskFacts DEF RoutineInv
<1>3. \A b \in Patching : asks'[b] = asks[b]
  BY <1>2 DEF Patching, Posting
<1>4. RoutineTypes'
  BY <1>2 DEF RoutineInv, RoutineTypes
<1>5. ShownOrToCome' /\ CountsAgree'
  BY <1>2, <1>3 DEF RoutineInv, ShownOrToCome, CountsAgree
<1>6. ASSUME faults = {} PROVE OwnField("toggle", "enabled")' /\ OwnField("form", "text")' /\ NotifyField'
  BY <1>2, <1>3, <1>6 DEF RoutineInv, OwnField, NotifyField, Patching
<1> QED BY <1>4, <1>5, <1>6 DEF RoutineInv

\* The request of a with a new state, and the answer of it.
LEMMA PanelAskFacts ==
  ASSUME NEW r \in PanelAsk, NEW pc \in {"none", "sent", "done", "failed"}, NEW answer \in RoutineFields
  PROVE  /\ [r EXCEPT !.pc = pc] \in PanelAsk /\ [r EXCEPT !.pc = pc, !.answer = answer] \in PanelAsk
         /\ [r EXCEPT !.pc = pc].pc = pc /\ [r EXCEPT !.pc = pc].fields = r.fields
         /\ [r EXCEPT !.pc = pc].body = r.body /\ [r EXCEPT !.pc = pc].answer = r.answer
         /\ [r EXCEPT !.pc = pc, !.answer = answer].pc = pc
         /\ [r EXCEPT !.pc = pc, !.answer = answer].fields = r.fields
         /\ [r EXCEPT !.pc = pc, !.answer = answer].body = r.body
         /\ [r EXCEPT !.pc = pc, !.answer = answer].answer = answer
  BY DEF PanelAsk

LEMMA ServeStep ==
  ASSUME RoutineInv, NEW a \in Patching \cup Posting, ServeAsk(a)
  PROVE  RoutineInv'
<1>1. /\ asks[a].pc = "sent" /\ asks[a] \in PanelAsk /\ asks[a].fields = SentBy(a)
      /\ routineRow \in RoutineFields /\ asks[a].body \in RoutineFields /\ SentBy(a) \in SUBSET Fields
  <2>1. asks[a].pc = "sent" /\ asks[a] \in PanelAsk /\ routineRow \in RoutineFields
    BY DEF ServeAsk, RoutineInv, RoutineTypes
  <2> QED BY <2>1 DEF RoutineInv, RoutineTypes, PanelAsk, SentBy, Fields, Patching, Posting
<1> DEFINE answer == IF a \in Patching THEN routineRow' ELSE asks[a].answer
           next == [asks[a] EXCEPT !.pc = "done", !.answer = answer]
<1>2. /\ routineRow' = IF a \in Patching THEN Patched(routineRow, SentBy(a), asks[a].body) ELSE routineRow
      /\ routineRow' \in RoutineFields
  BY <1>1, PatchedFacts DEF ServeAsk
<1>3. answer \in RoutineFields
  BY <1>1, <1>2 DEF PanelAsk
<1>4. asks' = [asks EXCEPT ![a] = next]
  BY DEF ServeAsk
<1>5. answer = IF a \in Patching THEN routineRow' ELSE asks[a].answer
  OBVIOUS
<1> HIDE DEF answer
<1>6. next \in PanelAsk /\ next.pc = "done" /\ next.fields = asks[a].fields
      /\ next.body = asks[a].body /\ next.answer = answer
  <2>1. \A r \in PanelAsk, n \in RoutineFields :
          /\ [r EXCEPT !.pc = "done", !.answer = n] \in PanelAsk
          /\ [r EXCEPT !.pc = "done", !.answer = n].pc = "done"
          /\ [r EXCEPT !.pc = "done", !.answer = n].fields = r.fields
          /\ [r EXCEPT !.pc = "done", !.answer = n].body = r.body
          /\ [r EXCEPT !.pc = "done", !.answer = n].answer = n
    BY DEF PanelAsk
  <2> QED BY <1>1, <1>3, <2>1, Zenon
<1> HIDE DEF next
<1>7. /\ asks' = [asks EXCEPT ![a] = next]
      /\ next \in PanelAsk /\ next.pc = "done" /\ next.fields = asks[a].fields
      /\ next.body = asks[a].body
      /\ next.answer = IF a \in Patching THEN routineRow' ELSE asks[a].answer
  BY <1>4, <1>5, <1>6
<1>8. /\ asks' \in [Patching \cup Posting -> PanelAsk]
      /\ \A c \in Patching \cup Posting :
           IF asks'[c].pc = "none" THEN asks'[c] = NoAsk ELSE asks'[c].fields = SentBy(c)
      /\ asks'[a] = next /\ \A c \in (Patching \cup Posting) \ {a} : asks'[c] = asks[c]
  BY <1>1, <1>7, AskMoves DEF RoutineInv
<1>9. UNCHANGED <<shownRoutine, details, asked, wanted, faults>>
  BY DEF ServeAsk
<1>10. totals' \in [Posting -> [made : Nat, heard : Nat]]
      /\ \A c \in Posting : totals'[c].heard = totals[c].heard
                            /\ totals'[c].made = totals[c].made + (IF c = a THEN 1 ELSE 0)
  <2>1. CASE a \in Posting
    <3>1. totals' = [totals EXCEPT ![a].made = totals[a].made + 1]
      BY <2>1 DEF ServeAsk
    <3> QED BY <2>1, <3>1 DEF RoutineInv, RoutineTypes
  <2>2. CASE a \notin Posting
    BY <2>2 DEF ServeAsk, RoutineInv, RoutineTypes
  <2> QED BY <2>1, <2>2
<1>11. RoutineTypes'
  BY <1>8, <1>9, <1>2, <1>10 DEF RoutineInv, RoutineTypes
<1>12. ShownOrToCome'
  <2>1. CASE a \in Patching
    BY <1>7, <1>8, <2>1 DEF ShownOrToCome
  <2>2. CASE a \notin Patching
    BY <1>8, <1>9, <1>2, <2>2 DEF RoutineInv, ShownOrToCome
  <2> QED BY <2>1, <2>2
<1>13. CountsAgree'
  <2> SUFFICES ASSUME "unheard" \notin faults, NEW c \in Posting
               PROVE  totals'[c].made = totals'[c].heard + (IF asks'[c].pc = "done" THEN 1 ELSE 0)
    BY <1>9 DEF CountsAgree
  <2>1. totals[c].made = totals[c].heard + (IF asks[c].pc = "done" THEN 1 ELSE 0)
        /\ totals[c].heard \in Nat
    BY DEF RoutineInv, CountsAgree, RoutineTypes
  <2>2. CASE c = a
    BY <1>1, <1>7, <1>8, <1>10, <2>1, <2>2
  <2>3. CASE c # a
    <3>1. asks'[c] = asks[c]
      BY <1>8, <2>3
    <3> QED BY <1>10, <2>1, <2>3, <3>1
  <2> QED BY <2>2, <2>3
<1>14. ASSUME faults = {}
       PROVE  OwnField("toggle", "enabled")' /\ OwnField("form", "text")' /\ NotifyField'
  <2>0. NotifyField /\ OwnField("toggle", "enabled") /\ OwnField("form", "text")
    BY <1>14 DEF RoutineInv
  <2>1. /\ routineRow'.enabled = IF a = "toggle" THEN asks[a].body.enabled ELSE routineRow.enabled
        /\ routineRow'.text = IF a = "form" THEN asks[a].body.text ELSE routineRow.text
        /\ routineRow'.notify = IF a \in {"notify", "form"} THEN asks[a].body.notify ELSE routineRow.notify
    <3>1. CASE a \in Patching
      <4>1. routineRow' = Patched(routineRow, SentBy(a), asks[a].body)
        BY <1>2, <3>1
      <4>2. /\ routineRow'.enabled = IF "enabled" \in SentBy(a) THEN asks[a].body.enabled ELSE routineRow.enabled
            /\ routineRow'.notify = IF "notify" \in SentBy(a) THEN asks[a].body.notify ELSE routineRow.notify
            /\ routineRow'.text = IF "text" \in SentBy(a) THEN asks[a].body.text ELSE routineRow.text
        BY <1>1, <4>1, PatchedFacts
      <4>3. /\ "enabled" \in SentBy(a) <=> a = "toggle"
            /\ "text" \in SentBy(a) <=> a = "form"
            /\ "notify" \in SentBy(a) <=> a \in {"notify", "form"}
        BY <3>1 DEF SentBy, Patching
      <4> QED BY <4>2, <4>3
    <3>2. CASE a \notin Patching
      BY <1>2, <3>2 DEF Patching
    <3> QED BY <3>1, <3>2
  <2>2. asks[a] # NoAsk
    BY <1>1 DEF NoAsk
  <2>3. OwnField("toggle", "enabled")'
    <3>1. CASE a = "toggle"
      BY <1>1, <1>7, <1>8, <1>9, <2>0, <2>1, <3>1 DEF OwnField
    <3>2. CASE a # "toggle"
      <4>1. asks'["toggle"] = asks["toggle"]
        BY <1>8, <3>2 DEF Patching
      <4> QED BY <1>9, <2>0, <2>1, <3>2, <4>1 DEF OwnField
    <3> QED BY <3>1, <3>2
  <2>4. OwnField("form", "text")'
    <3>1. CASE a = "form"
      BY <1>1, <1>7, <1>8, <1>9, <2>0, <2>1, <3>1 DEF OwnField
    <3>2. CASE a # "form"
      <4>1. asks'["form"] = asks["form"]
        BY <1>8, <3>2 DEF Patching
      <4> QED BY <1>9, <2>0, <2>1, <3>2, <4>1 DEF OwnField
    <3> QED BY <3>1, <3>2
  <2>5. NotifyField'
    <3>0. NoAsk.pc = "none"
      BY DEF NoAsk
    <3>1. CASE a = "notify"
      <4>1. asks'["form"] = asks["form"] /\ asks["form"] = NoAsk /\ ~ details.open
        BY <1>8, <2>0, <2>2, <3>1 DEF Patching, NotifyField
      <4> QED BY <1>1, <1>7, <1>8, <1>9, <2>0, <2>1, <3>0, <3>1, <4>1 DEF NotifyField, Patching
    <3>2. CASE a = "form"
      <4>1. asks'["notify"] = asks["notify"] /\ asks["notify"] = NoAsk
        BY <1>8, <2>0, <2>2, <3>2 DEF Patching, NotifyField
      <4> QED BY <1>1, <1>7, <1>8, <1>9, <2>0, <2>1, <3>0, <3>2, <4>1 DEF NotifyField, Patching
    <3>3. CASE a \notin {"notify", "form"}
      <4>1. asks'["notify"] = asks["notify"] /\ asks'["form"] = asks["form"]
        BY <1>8, <3>3 DEF Patching
      <4> QED BY <1>9, <2>0, <2>1, <3>3, <4>1 DEF NotifyField
    <3> QED BY <3>1, <3>2, <3>3
  <2> QED BY <2>3, <2>4, <2>5
<1> QED BY <1>9, <1>11, <1>12, <1>13, <1>14 DEF RoutineInv

\* A request fails, before or after the change; others write.
LEMMA DisturbedStep ==
  ASSUME RoutineInv, UpdateRoutineElsewhere \/ (\E a \in Patching \cup Posting : RefuseAsk(a) \/ AnswerIsAnError(a))
  PROVE  RoutineInv'
<1>1. CASE UpdateRoutineElsewhere
  <2>1. routineRow' \in RoutineFields
    BY <1>1, RoutineFieldFacts DEF UpdateRoutineElsewhere, RoutineInv, RoutineTypes, RoutineFields
  <2>2. "elsewhere" \in faults' /\ UNCHANGED <<shownRoutine, details, asks, totals, asked, wanted>>
        /\ faults' = faults \cup {"elsewhere"}
    BY <1>1 DEF UpdateRoutineElsewhere
  <2> QED BY <2>1, <2>2 DEF RoutineInv, RoutineTypes, ShownOrToCome, CountsAgree
<1>2. ASSUME NEW a \in Patching \cup Posting, RefuseAsk(a) \/ AnswerIsAnError(a) PROVE RoutineInv'
  <2> DEFINE next == [asks[a] EXCEPT !.pc = "failed"]
  <2>1. /\ asks' = [asks EXCEPT ![a] = next]
        /\ UNCHANGED <<routineRow, shownRoutine, details, totals, asked, wanted>>
        /\ \/ asks[a].pc = "sent" /\ faults' = faults
           \/ asks[a].pc = "done" /\ faults' = faults \cup {"unheard"}
    BY <1>2 DEF RefuseAsk, AnswerIsAnError
  <2>2. asks[a] \in PanelAsk /\ asks[a].answer \in RoutineFields
    BY DEF RoutineInv, RoutineTypes, PanelAsk
  <2>3. next \in PanelAsk /\ next.pc = "failed" /\ next.fields = asks[a].fields
    BY <2>2, PanelAskFacts
  <2> HIDE DEF next
  <2>4. /\ asks' \in [Patching \cup Posting -> PanelAsk]
        /\ \A c \in Patching \cup Posting :
             IF asks'[c].pc = "none" THEN asks'[c] = NoAsk ELSE asks'[c].fields = SentBy(c)
        /\ asks'[a].pc = "failed" /\ \A c \in (Patching \cup Posting) \ {a} : asks'[c] = asks[c]
    BY <2>1, <2>3, AskMoves DEF RoutineInv, RoutineTypes
  <2>5. RoutineTypes'
    <3>1. faults' \subseteq {"form", "unheard", "elsewhere", "crossed"}
      BY <2>1 DEF RoutineInv, RoutineTypes
    <3> QED BY <2>1, <2>4, <3>1 DEF RoutineInv, RoutineTypes
  <2>6. CASE asks[a].pc = "done"
    <3>1. "unheard" \in faults'
      BY <2>1, <2>6
    <3> QED BY <2>5, <3>1 DEF RoutineInv, ShownOrToCome, CountsAgree
  <2>7. CASE asks[a].pc = "sent"
    <3>1. faults' = faults
      BY <2>1, <2>7
    <3>2. ShownOrToCome'
      <4>1. \A b \in Patching : asks[b].pc = "done" => asks'[b] = asks[b]
        BY <2>4, <2>7
      <4> QED BY <2>1, <3>1, <4>1 DEF RoutineInv, ShownOrToCome
    <3>3. CountsAgree'
      <4>1. \A c \in Posting : (asks'[c].pc = "done") <=> (asks[c].pc = "done")
        BY <2>4, <2>7
      <4> QED BY <2>1, <3>1, <4>1 DEF RoutineInv, CountsAgree
    <3>4. ASSUME faults = {}
          PROVE  OwnField("toggle", "enabled")' /\ OwnField("form", "text")' /\ NotifyField'
      <4>1. NotifyField /\ OwnField("toggle", "enabled") /\ OwnField("form", "text")
        BY <3>4 DEF RoutineInv
      <4>2. OwnField("toggle", "enabled")' /\ OwnField("form", "text")'
        BY <2>1, <2>4, <4>1 DEF OwnField, Patching
      <4>3. \A b \in {"notify", "form"} : asks'[b] # NoAsk => asks[b] # NoAsk
        BY <2>4, <2>7 DEF Patching, NoAsk
      <4>4. \A b \in {"notify", "form"} :
              asks'[b] = asks[b] \/ (asks'[b].pc = "failed" /\ asks[b].pc = "sent")
        BY <2>4, <2>7 DEF Patching
      <4>5. asks'["notify"] # NoAsk => ~ details.open /\ asks'["form"] = NoAsk
        <5>1. asks["form"] = NoAsk => asks'["form"] = NoAsk
          BY <4>4 DEF NoAsk
        <5> QED BY <4>1, <4>3, <5>1 DEF NotifyField
      <4> QED BY <2>1, <4>1, <4>2, <4>4, <4>5 DEF NotifyField
    <3> QED BY <2>5, <3>1, <3>2, <3>3, <3>4 DEF RoutineInv
  <2> QED BY <2>1, <2>6, <2>7
<1> QED BY <1>1, <1>2

\* A request is over, and its button is enabled again.
LEMMA EnableFacts ==
  ASSUME RoutineInv, NEW a \in Patching \cup Posting, Enable(a)
  PROVE  /\ asks' \in [Patching \cup Posting -> PanelAsk]
         /\ \A c \in Patching \cup Posting :
              IF asks'[c].pc = "none" THEN asks'[c] = NoAsk ELSE asks'[c].fields = SentBy(c)
         /\ asks'[a] = NoAsk /\ asks'[a].pc = "none"
         /\ \A c \in (Patching \cup Posting) \ {a} : asks'[c] = asks[c]
<1>1. NoAsk \in PanelAsk /\ NoAsk.pc = "none"
  BY RoutineFieldFacts DEF NoAsk, PanelAsk
<1> QED BY <1>1, AskMoves DEF Enable, RoutineInv

LEMMA PatchAnsweredStep ==
  ASSUME RoutineInv, NEW a \in Patching, PatchAnswered(a)
  PROVE  RoutineInv'
<1>1. /\ asks[a].pc = "done" /\ Enable(a) /\ shownRoutine' = asks[a].answer
      /\ details' = IF a = "form" THEN Shut ELSE details
      /\ faults' = (IF \E b \in Patching : asks[b].pc = "done" /\ asks[b].answer = routineRow
                    THEN faults ELSE faults \cup {"crossed"})
      /\ UNCHANGED <<routineRow, totals, asked, wanted>>
  BY DEF PatchAnswered, ShowAnswer
<1>2. /\ asks' \in [Patching \cup Posting -> PanelAsk]
      /\ \A c \in Patching \cup Posting :
           IF asks'[c].pc = "none" THEN asks'[c] = NoAsk ELSE asks'[c].fields = SentBy(c)
      /\ asks'[a] = NoAsk /\ asks'[a].pc = "none"
      /\ \A c \in (Patching \cup Posting) \ {a} : asks'[c] = asks[c]
  BY <1>1, EnableFacts
<1>3. RoutineTypes'
  <2>1. shownRoutine' \in RoutineFields
    BY <1>1 DEF RoutineInv, RoutineTypes, PanelAsk
  <2>2. details' \in [open : BOOLEAN, notify : BOOLEAN]
    BY <1>1 DEF RoutineInv, RoutineTypes, Shut
  <2>3. faults' \subseteq {"form", "unheard", "elsewhere", "crossed"}
    BY <1>1 DEF RoutineInv, RoutineTypes
  <2> QED BY <1>1, <1>2, <2>1, <2>2, <2>3 DEF RoutineInv, RoutineTypes
<1>4. ShownOrToCome'
  <2>1. CASE "crossed" \in faults'
    BY <2>1 DEF ShownOrToCome
  <2>2. CASE "crossed" \notin faults'
    <3>1. PICK b \in Patching : asks[b].pc = "done" /\ asks[b].answer = routineRow
      BY <1>1, <2>2
    <3>2. CASE b = a
      BY <1>1, <3>1, <3>2 DEF ShownOrToCome
    <3>3. CASE b # a
      BY <1>1, <1>2, <3>1, <3>3 DEF ShownOrToCome
    <3> QED BY <3>2, <3>3
  <2> QED BY <2>1, <2>2
<1>5. CountsAgree'
  <2>1. \A c \in Posting : asks'[c] = asks[c]
    BY <1>2 DEF Patching, Posting
  <2>2. "unheard" \in faults => "unheard" \in faults'
    BY <1>1
  <2> QED BY <1>1, <2>1, <2>2 DEF RoutineInv, CountsAgree
<1>6. ASSUME faults' = {}
      PROVE  OwnField("toggle", "enabled")' /\ OwnField("form", "text")' /\ NotifyField'
  <2>1. faults = {} /\ NotifyField /\ OwnField("toggle", "enabled") /\ OwnField("form", "text")
    BY <1>1, <1>6 DEF RoutineInv
  <2>2. PICK b \in Patching : asks[b].pc = "done" /\ asks[b].answer = routineRow
    BY <1>1, <1>6
  <2>3. OwnField("toggle", "enabled")' /\ OwnField("form", "text")'
    <3>1. \A c \in {"toggle", "form"} : asks'[c] = asks[c] \/ (asks'[c].pc = "none" /\ asks[c].pc = "done")
      BY <1>1, <1>2 DEF Patching
    <3> QED BY <1>1, <2>1, <3>1 DEF OwnField
  <2>4. asks[a] # NoAsk /\ NoAsk.pc = "none"
    BY <1>1 DEF NoAsk
  <2>5. NotifyField'
    <3>1. CASE a = "notify"
      <4>1. asks["form"] = NoAsk /\ asks'["form"] = NoAsk /\ ~ details.open /\ details' = details
        BY <1>1, <1>2, <2>1, <2>4, <3>1 DEF NotifyField, Patching
      <4> QED BY <1>1, <1>2, <2>1, <2>4, <3>1, <4>1 DEF NotifyField
    <3>2. CASE a = "form"
      <4>1. asks["notify"] = NoAsk /\ asks'["notify"] = NoAsk /\ ~ details'.open
        BY <1>1, <1>2, <2>1, <2>4, <3>2 DEF NotifyField, Patching, Shut
      <4> QED BY <1>1, <1>2, <2>1, <2>4, <3>2, <4>1 DEF NotifyField
    <3>3. CASE a = "toggle"
      <4>1. asks'["notify"] = asks["notify"] /\ asks'["form"] = asks["form"] /\ details' = details
        BY <1>1, <1>2, <3>3 DEF Patching
      <4>2. asks["notify"].pc # "done" /\ asks["form"].pc # "done" => shownRoutine' = routineRow
        BY <1>1, <2>2, <3>3 DEF Patching
      <4> QED BY <1>1, <2>1, <4>1, <4>2 DEF NotifyField
    <3> QED BY <3>1, <3>2, <3>3 DEF Patching
  <2> QED BY <2>3, <2>5
<1> QED BY <1>3, <1>4, <1>5, <1>6 DEF RoutineInv

LEMMA PostAnsweredStep ==
  ASSUME RoutineInv, NEW a \in Posting, PostAnswered(a)
  PROVE  RoutineInv'
<1>1. /\ asks[a].pc = "done" /\ Enable(a) /\ totals' = [totals EXCEPT ![a].heard = totals[a].heard + 1]
      /\ UNCHANGED <<routineRow, shownRoutine, details, asked, wanted, faults>>
  BY DEF PostAnswered
<1>2. /\ asks' \in [Patching \cup Posting -> PanelAsk]
      /\ \A c \in Patching \cup Posting :
           IF asks'[c].pc = "none" THEN asks'[c] = NoAsk ELSE asks'[c].fields = SentBy(c)
      /\ asks'[a].pc = "none"
      /\ \A c \in (Patching \cup Posting) \ {a} : asks'[c] = asks[c]
  BY <1>1, EnableFacts
<1>3. totals' \in [Posting -> [made : Nat, heard : Nat]]
      /\ \A c \in Posting : totals'[c].made = totals[c].made
                            /\ totals'[c].heard = totals[c].heard + (IF c = a THEN 1 ELSE 0)
                            /\ totals[c].heard \in Nat
  BY <1>1 DEF RoutineInv, RoutineTypes
<1>4. \A b \in Patching : asks'[b] = asks[b]
  BY <1>2 DEF Patching, Posting
<1>5. RoutineTypes'
  BY <1>1, <1>2, <1>3 DEF RoutineInv, RoutineTypes
<1>6. CountsAgree'
  <2> SUFFICES ASSUME "unheard" \notin faults, NEW c \in Posting
               PROVE  totals'[c].made = totals'[c].heard + (IF asks'[c].pc = "done" THEN 1 ELSE 0)
    BY <1>1 DEF CountsAgree
  <2>1. totals[c].made = totals[c].heard + (IF asks[c].pc = "done" THEN 1 ELSE 0)
    BY DEF RoutineInv, CountsAgree
  <2>2. CASE c = a
    BY <1>1, <1>2, <1>3, <2>1, <2>2
  <2>3. CASE c # a
    <3>1. asks'[c] = asks[c]
      BY <1>2, <2>3
    <3> QED BY <1>3, <2>1, <2>3, <3>1
  <2> QED BY <2>2, <2>3
<1>7. ShownOrToCome'
  BY <1>1, <1>4 DEF RoutineInv, ShownOrToCome
<1>8. ASSUME faults = {} PROVE OwnField("toggle", "enabled")' /\ OwnField("form", "text")' /\ NotifyField'
  BY <1>1, <1>4, <1>8 DEF RoutineInv, OwnField, NotifyField, Patching
<1> QED BY <1>1, <1>5, <1>6, <1>7, <1>8 DEF RoutineInv

LEMMA AskFailedStep ==
  ASSUME RoutineInv, NEW a \in Patching \cup Posting, AskFailed(a)
  PROVE  RoutineInv'
<1>1. /\ asks[a].pc = "failed" /\ Enable(a) /\ wanted' = Patched(wanted, SentBy(a), routineRow)
      /\ UNCHANGED <<routineRow, shownRoutine, details, totals, asked, faults>>
  BY DEF AskFailed, RoutineInv, RoutineTypes
<1>2. /\ asks' \in [Patching \cup Posting -> PanelAsk]
      /\ \A c \in Patching \cup Posting :
           IF asks'[c].pc = "none" THEN asks'[c] = NoAsk ELSE asks'[c].fields = SentBy(c)
      /\ asks'[a] = NoAsk /\ asks'[a].pc = "none"
      /\ \A c \in (Patching \cup Posting) \ {a} : asks'[c] = asks[c]
  BY <1>1, EnableFacts
<1>3. SentBy(a) \in SUBSET Fields /\ wanted \in RoutineFields /\ routineRow \in RoutineFields
  BY DEF SentBy, Fields, Patching, Posting, RoutineInv, RoutineTypes
<1>4. /\ wanted' \in RoutineFields
      /\ wanted'.enabled = IF "enabled" \in SentBy(a) THEN routineRow.enabled ELSE wanted.enabled
      /\ wanted'.notify = IF "notify" \in SentBy(a) THEN routineRow.notify ELSE wanted.notify
      /\ wanted'.text = IF "text" \in SentBy(a) THEN routineRow.text ELSE wanted.text
  BY <1>1, <1>3, PatchedFacts
<1>5. RoutineTypes'
  BY <1>1, <1>2, <1>4 DEF RoutineInv, RoutineTypes
<1>6. \A c \in Patching \cup Posting : (asks'[c].pc = "done" => asks'[c] = asks[c])
                                      /\ ((asks'[c].pc = "done") <=> (asks[c].pc = "done"))
  BY <1>1, <1>2
<1>7. ShownOrToCome' /\ CountsAgree'
  BY <1>1, <1>2, <1>6 DEF RoutineInv, ShownOrToCome, CountsAgree
<1>8. ASSUME faults = {} PROVE OwnField("toggle", "enabled")' /\ OwnField("form", "text")' /\ NotifyField'
  <2>1. NotifyField /\ OwnField("toggle", "enabled") /\ OwnField("form", "text")
    BY <1>8 DEF RoutineInv
  <2>2. /\ "enabled" \in SentBy(a) <=> a = "toggle"
        /\ "text" \in SentBy(a) <=> a = "form"
        /\ "notify" \in SentBy(a) <=> a \in {"notify", "form"}
    BY DEF SentBy, Patching, Posting
  <2>3. OwnField("toggle", "enabled")'
    <3>1. CASE a = "toggle"
      BY <1>1, <1>2, <1>4, <2>2, <3>1 DEF OwnField
    <3>2. CASE a # "toggle"
      <4>1. asks'["toggle"] = asks["toggle"]
        BY <1>2, <3>2 DEF Patching
      <4> QED BY <1>1, <1>4, <2>1, <2>2, <3>2, <4>1 DEF OwnField
    <3> QED BY <3>1, <3>2
  <2>4. OwnField("form", "text")'
    <3>1. CASE a = "form"
      BY <1>1, <1>2, <1>4, <2>2, <3>1 DEF OwnField
    <3>2. CASE a # "form"
      <4>1. asks'["form"] = asks["form"]
        BY <1>2, <3>2 DEF Patching
      <4> QED BY <1>1, <1>4, <2>1, <2>2, <3>2, <4>1 DEF OwnField
    <3> QED BY <3>1, <3>2
  <2>5. asks[a] # NoAsk /\ NoAsk.pc = "none"
    BY <1>1 DEF NoAsk
  <2>6. NotifyField'
    <3>1. CASE a = "notify"
      <4>1. asks'["form"] = asks["form"] /\ asks["form"] = NoAsk /\ ~ details.open
        BY <1>2, <2>1, <2>5, <3>1 DEF Patching, NotifyField
      <4> QED BY <1>1, <1>2, <1>4, <2>1, <2>2, <2>5, <3>1, <4>1 DEF NotifyField
    <3>2. CASE a = "form"
      <4>1. asks'["notify"] = asks["notify"] /\ asks["notify"] = NoAsk
        BY <1>2, <2>1, <2>5, <3>2 DEF Patching, NotifyField
      <4> QED BY <1>1, <1>2, <1>4, <2>1, <2>2, <2>5, <3>2, <4>1 DEF NotifyField
    <3>3. CASE a \notin {"notify", "form"}
      <4>1. asks'["notify"] = asks["notify"] /\ asks'["form"] = asks["form"]
        BY <1>2, <3>3 DEF Patching
      <4> QED BY <1>1, <1>4, <2>1, <2>2, <3>3, <4>1 DEF NotifyField
    <3> QED BY <3>1, <3>2, <3>3
  <2> QED BY <2>3, <2>4, <2>6
<1> QED BY <1>1, <1>5, <1>7, <1>8 DEF RoutineInv

(* Once every request was answered, the panel tells the routine's row, for  *)
(* any number of requests in any order.                                     *)
THEOREM RoutinePanelTells == RoutinePanelSpec => [](RoutinePanelTypeOK /\ RoutinePanelTellsTheRow)
<1>1. RoutinePanelInit => RoutineInv
  BY RoutineStarts
<1>2. RoutineInv /\ [RoutinePanelNext]_routinePanelVars => RoutineInv'
  <2> SUFFICES ASSUME RoutineInv, [RoutinePanelNext]_routinePanelVars PROVE RoutineInv'
    OBVIOUS
  <2>1. CASE UNCHANGED routinePanelVars
    BY <2>1 DEF routinePanelVars, RoutineInv, RoutineTypes, ShownOrToCome, CountsAgree, OwnField,
                NotifyField
  <2>2. ASSUME NEW a \in Patching \cup Posting, PatchAnswered(a) PROVE RoutineInv'
    <3>1. a \in Patching
      BY <2>2 DEF PatchAnswered
    <3> QED BY <2>2, <3>1, PatchAnsweredStep
  <2>3. ASSUME NEW a \in Patching \cup Posting, PostAnswered(a) PROVE RoutineInv'
    <3>1. a \in Posting
      BY <2>3 DEF PostAnswered
    <3> QED BY <2>3, <3>1, PostAnsweredStep
  <2>4. CASE RoutinePanelNext
    BY <2>2, <2>3, <2>4, ToggleStep, NotifyStep, DetailsStep, SaveStep, PostStep, ServeStep,
       DisturbedStep, AskFailedStep, Zenon DEF RoutinePanelNext
  <2> QED BY <2>1, <2>4
<1>3. RoutineInv => RoutinePanelTypeOK /\ RoutinePanelTellsTheRow
  <2> SUFFICES ASSUME RoutineInv PROVE RoutinePanelTypeOK /\ RoutinePanelTellsTheRow
    OBVIOUS
  <2>1. RoutinePanelTypeOK
    <3>1. \A a \in DOMAIN asks : asks[a].pc \in {"none", "sent", "done", "failed"}
      BY DEF RoutineInv, RoutineTypes, PanelAsk
    <3> QED BY <3>1 DEF RoutineInv, RoutineTypes, RoutineFields, RoutinePanelTypeOK
  <2>2. ASSUME \A a \in DOMAIN asks : asks[a] = NoAsk
        PROVE  /\ shownRoutine = routineRow \/ faults \cap {"elsewhere", "unheard", "crossed"} # {}
               /\ wanted = routineRow \/ faults # {}
               /\ "unheard" \in faults \/ \A a \in Posting : totals[a].made = totals[a].heard
    <3>1. \A a \in Patching \cup Posting : asks[a] = NoAsk /\ asks[a].pc = "none"
      <4>1. DOMAIN asks = Patching \cup Posting
        BY DEF RoutineInv, RoutineTypes
      <4>2. NoAsk.pc = "none"
        BY DEF NoAsk
      <4> QED BY <2>2, <4>1, <4>2
    <3>2. shownRoutine = routineRow \/ faults \cap {"elsewhere", "unheard", "crossed"} # {}
      BY <3>1 DEF RoutineInv, ShownOrToCome
    <3>3. ASSUME faults = {} PROVE wanted = routineRow
      <4>1. wanted.enabled = routineRow.enabled /\ wanted.text = routineRow.text
            /\ wanted.notify = routineRow.notify
        BY <3>1, <3>3 DEF RoutineInv, OwnField, NotifyField, Patching
      <4> QED BY <4>1 DEF RoutineInv, RoutineTypes, RoutineFields
    <3>4. "unheard" \in faults \/ \A a \in Posting : totals[a].made = totals[a].heard
      BY <3>1 DEF RoutineInv, CountsAgree, RoutineTypes
    <3> QED BY <3>2, <3>3, <3>4
  <2> QED BY <2>1, <2>2 DEF RoutinePanelTellsTheRow
<1> QED BY <1>1, <1>2, <1>3, PTL DEF RoutinePanelSpec

-----------------------------------------------------------------------------
(* The page of one persona.  Until an excuse is met only the editor that    *)
(* was opened last has a save under way; the row it is to be rolled back to *)
(* is the row as long as no save of the chain has succeeded.                *)

PermissionLists == [Tools -> Levels]
PersonaRow == [tools : PermissionLists, charter : Nat]
EditorState == [tools : PermissionLists, base : PermissionLists,
                queued : PermissionLists \cup {NoList}, error : BOOLEAN, saved : BOOLEAN]
PatchState == [pc : {"none", "sent", "written", "failed"}, tools : PermissionLists \cup {NoList},
               charter : Nat, answer : [tools : PermissionLists \cup {NoList}, charter : Nat]]

PatchFits(i, p) ==
  /\ p.pc = "none" => p = NoPatch
  /\ p # NoPatch => i <= Editor
  /\ p # NoPatch /\ i # 0 => p.tools \in PermissionLists
  /\ p.pc = "written" => p.answer \in PersonaRow

WorkspaceTypes ==
  /\ personaRow \in PersonaRow /\ copy \in PersonaRow /\ wish \in PermissionLists
  /\ section \in {"tools", "forms"} /\ (section = "tools" => editors # <<>>)
  /\ editors \in Seq(EditorState) /\ Editor <= MaxVisits
  /\ patches \in [0 .. MaxVisits -> PatchState]
  /\ \A i \in 0 .. MaxVisits : \A p \in {patches[i]} : PatchFits(i, p)
  /\ clicks \in 0 .. MaxClicks
  /\ excuses \subseteq {"stale", "lost", "crossed", "replaced", "queued"}

\* The page has the row, or an answer that carries it is still to come.
CopyKnows ==
  \/ copy = personaRow
  \/ \E i \in 0 .. MaxVisits : patches[i].pc = "written" /\ patches[i].answer = personaRow
  \/ Excused({"stale", "lost", "crossed"})

\* The last editor and its save.
EditorKnows(e, p) ==
  /\ p = NoPatch => e.tools = personaRow.tools /\ e.queued = NoList
  /\ p # NoPatch => e.tools = p.tools
  /\ p.pc = "written" => p.answer.tools = personaRow.tools
  /\ ~ e.saved /\ p.pc \in {"sent", "failed"} => e.base = personaRow.tools

WishKnows(e, p) ==
  /\ p = NoPatch => personaRow.tools = wish
  /\ p # NoPatch => wish = Coerced(IF e.queued = NoList THEN p.tools ELSE e.queued, Destructive)
  /\ p.pc = "written" => personaRow.tools = Coerced(p.tools, Destructive)

OnlyTheLastSaves == \A i \in 1 .. Editor - 1 : patches[i] = NoPatch

WorkspaceInv ==
  /\ WorkspaceTypes /\ CopyKnows
  /\ "stale" \notin excuses => OnlyTheLastSaves
  /\ ~ Excused({"stale", "lost", "queued"}) /\ Editor # 0 =>
       \A e \in {editors[Editor]}, p \in {patches[Editor]} : EditorKnows(e, p)
  /\ ~ Excused({"stale", "lost", "replaced", "queued"}) /\ Editor # 0 =>
       \A e \in {editors[Editor]}, p \in {patches[Editor]} : WishKnows(e, p)

\* Coerced() keeps lists of permissions, and twice is once.
LEMMA CoercedFacts ==
  \A l \in PermissionLists :
    /\ Coerced(l, Destructive) \in PermissionLists
    /\ Coerced(Coerced(l, Destructive), Destructive) = Coerced(l, Destructive)
  BY DEF Coerced, PermissionLists, Levels

\* What an edit wishes for is what it saves.
LEMMA WishFollows ==
  ASSUME NEW shown \in PermissionLists, NEW next \in PermissionLists,
         wish = shown \/ wish = Coerced(shown, Destructive)
  PROVE  Coerced([t \in Tools |-> IF next[t] # shown[t] THEN next[t] ELSE wish[t]], Destructive)
           = Coerced(next, Destructive)
  BY DEF Coerced, PermissionLists, Levels

\* The empty values of the module have their types.
LEMMA NoPatchFacts ==
  /\ NoPatch \in PatchState /\ NoPatch.pc = "none"
  /\ \A tools \in PermissionLists :
       /\ [NoPatch EXCEPT !.pc = "sent", !.tools = tools] \in PatchState
       /\ [NoPatch EXCEPT !.pc = "sent", !.tools = tools].pc = "sent"
       /\ [NoPatch EXCEPT !.pc = "sent", !.tools = tools].tools = tools
  /\ \A charter \in Nat :
       /\ [NoPatch EXCEPT !.pc = "sent", !.charter = charter] \in PatchState
       /\ [NoPatch EXCEPT !.pc = "sent", !.charter = charter].pc = "sent"
<1>1. NoPatch \in PatchState /\ NoPatch.pc = "none"
  BY DEF NoPatch, PatchState
<1>2. ASSUME NEW tools \in PermissionLists, NEW p \in PatchState
      PROVE  /\ [p EXCEPT !.pc = "sent", !.tools = tools] \in PatchState
             /\ [p EXCEPT !.pc = "sent", !.tools = tools].pc = "sent"
             /\ [p EXCEPT !.pc = "sent", !.tools = tools].tools = tools
  BY DEF PatchState
<1>3. ASSUME NEW charter \in Nat, NEW p \in PatchState
      PROVE  /\ [p EXCEPT !.pc = "sent", !.charter = charter] \in PatchState
             /\ [p EXCEPT !.pc = "sent", !.charter = charter].pc = "sent"
  BY DEF PatchState
<1>4. \A tools \in PermissionLists :
       /\ [NoPatch EXCEPT !.pc = "sent", !.tools = tools] \in PatchState
       /\ [NoPatch EXCEPT !.pc = "sent", !.tools = tools].pc = "sent"
       /\ [NoPatch EXCEPT !.pc = "sent", !.tools = tools].tools = tools
  BY <1>1, <1>2
<1>5. \A charter \in Nat :
       /\ [NoPatch EXCEPT !.pc = "sent", !.charter = charter] \in PatchState
       /\ [NoPatch EXCEPT !.pc = "sent", !.charter = charter].pc = "sent"
  BY <1>1, <1>3
<1> QED BY <1>1, <1>4, <1>5

\* A row that is written, an editor that is changed.
LEMMA RowFacts ==
  /\ \A r \in PersonaRow, l \in PermissionLists, c \in Nat :
       /\ r.tools \in PermissionLists /\ r.charter \in Nat
       /\ [r EXCEPT !.charter = c] \in PersonaRow /\ [r EXCEPT !.charter = c].tools = r.tools
       /\ [r EXCEPT !.tools = l] \in PersonaRow /\ [r EXCEPT !.tools = l].tools = l
  /\ \A p \in PatchState, a \in PersonaRow :
       /\ p.charter \in Nat
       /\ [p EXCEPT !.pc = "failed"] \in PatchState
       /\ [p EXCEPT !.pc = "failed"].pc = "failed" /\ [p EXCEPT !.pc = "failed"].tools = p.tools
       /\ [p EXCEPT !.pc = "written", !.answer = a] \in PatchState
       /\ [p EXCEPT !.pc = "written", !.answer = a].pc = "written"
       /\ [p EXCEPT !.pc = "written", !.answer = a].answer = a
       /\ [p EXCEPT !.pc = "written", !.answer = a].tools = p.tools
<1>1. \A r \in PersonaRow, l \in PermissionLists, c \in Nat :
       /\ r.tools \in PermissionLists /\ r.charter \in Nat
       /\ [r EXCEPT !.charter = c] \in PersonaRow /\ [r EXCEPT !.charter = c].tools = r.tools
       /\ [r EXCEPT !.tools = l] \in PersonaRow /\ [r EXCEPT !.tools = l].tools = l
  BY DEF PersonaRow
<1>2. \A a \in PersonaRow : a \in [tools : PermissionLists \cup {NoList}, charter : Nat]
  BY DEF PersonaRow
<1>3. \A p \in PatchState, a \in [tools : PermissionLists \cup {NoList}, charter : Nat] :
       /\ p.charter \in Nat
       /\ [p EXCEPT !.pc = "failed"] \in PatchState
       /\ [p EXCEPT !.pc = "failed"].pc = "failed" /\ [p EXCEPT !.pc = "failed"].tools = p.tools
       /\ [p EXCEPT !.pc = "written", !.answer = a] \in PatchState
       /\ [p EXCEPT !.pc = "written", !.answer = a].pc = "written"
       /\ [p EXCEPT !.pc = "written", !.answer = a].answer = a
       /\ [p EXCEPT !.pc = "written", !.answer = a].tools = p.tools
  BY DEF PatchState
<1> QED BY <1>1, <1>2, <1>3

LEMMA EditorFacts ==
  \A e \in EditorState, l \in PermissionLists :
    /\ e.tools \in PermissionLists /\ e.base \in PermissionLists /\ e.saved \in BOOLEAN
    /\ e.queued \in PermissionLists \cup {NoList}
    /\ [e EXCEPT !.queued = l] \in EditorState /\ [e EXCEPT !.queued = l].queued = l
    /\ [e EXCEPT !.queued = l].tools = e.tools /\ [e EXCEPT !.queued = l].base = e.base
    /\ [e EXCEPT !.queued = l].saved = e.saved
    /\ [e EXCEPT !.tools = l, !.saved = TRUE] \in EditorState
    /\ [e EXCEPT !.tools = l, !.saved = TRUE].tools = l
    /\ [e EXCEPT !.tools = l, !.saved = TRUE].saved = TRUE
    /\ [e EXCEPT !.tools = l, !.saved = TRUE].queued = e.queued
    /\ [e EXCEPT !.tools = l, !.error = TRUE] \in EditorState
    /\ [e EXCEPT !.tools = l, !.error = TRUE].tools = l
    /\ [e EXCEPT !.tools = l, !.error = TRUE].saved = e.saved
    /\ [e EXCEPT !.tools = l, !.error = TRUE].base = e.base
    /\ [e EXCEPT !.tools = l, !.error = TRUE].queued = e.queued
    /\ [e EXCEPT !.tools = l, !.queued = NoList, !.error = FALSE] \in EditorState
    /\ [e EXCEPT !.tools = l, !.queued = NoList, !.error = FALSE].tools = l
    /\ [e EXCEPT !.tools = l, !.queued = NoList, !.error = FALSE].queued = NoList
    /\ [e EXCEPT !.tools = l, !.queued = NoList, !.error = FALSE].saved = e.saved
    /\ [e EXCEPT !.tools = l, !.queued = NoList, !.error = FALSE].base = e.base
  BY DEF EditorState

\* One editor changes.
LEMMA OneEditor ==
  ASSUME editors \in Seq(EditorState), NEW i \in 1 .. Editor, NEW e \in EditorState,
         editors' = [editors EXCEPT ![i] = e]
  PROVE  /\ editors' \in Seq(EditorState) /\ Editor' = Editor /\ editors' # <<>>
         /\ editors'[i] = e /\ \A k \in (1 .. Editor) \ {i} : editors'[k] = editors[k]
<1>1. /\ editors' \in Seq(EditorState) /\ Editor' = Editor
      /\ \A j \in 1 .. Editor : editors'[j] = IF j = i THEN e ELSE editors[j]
  BY ExceptSeq DEF Editor
<1>2. editors' # <<>>
  BY <1>1 DEF Editor
<1> QED BY <1>1, <1>2

\* One save changes.
LEMMA OnePatch ==
  ASSUME patches \in [0 .. MaxVisits -> PatchState],
         \A k \in 0 .. MaxVisits : \A q \in {patches[k]} : PatchFits(k, q),
         NEW i \in 0 .. MaxVisits, NEW p \in PatchState, PatchFits(i, p), Editor' = Editor,
         patches' = [patches EXCEPT ![i] = p]
  PROVE  /\ patches' \in [0 .. MaxVisits -> PatchState]
         /\ (\A k \in 0 .. MaxVisits : \A q \in {patches[k]} : PatchFits(k, q))'
         /\ patches'[i] = p /\ \A k \in (0 .. MaxVisits) \ {i} : patches'[k] = patches[k]
<1>1. /\ patches' \in [0 .. MaxVisits -> PatchState]
      /\ patches'[i] = p /\ \A k \in (0 .. MaxVisits) \ {i} : patches'[k] = patches[k]
  OBVIOUS
<1>2. \A k \in 0 .. MaxVisits : PatchFits(k, patches[k])
  OBVIOUS
<1>3. ASSUME NEW k \in 0 .. MaxVisits, NEW q \in {patches'[k]} PROVE PatchFits(k, q)'
  <2>1. PatchFits(k, q)
    BY <1>1, <1>2, <1>3
  <2> QED BY <2>1 DEF PatchFits
<1> QED BY <1>1, <1>3

LEMMA WorkspaceStarts == WorkspaceInit => WorkspaceInv
<1> SUFFICES ASSUME WorkspaceInit PROVE WorkspaceInv
  OBVIOUS
<1>1. PICK first \in FirstChoices :
        personaRow = [tools |-> Coerced([t \in Tools |-> first], Destructive), charter |-> 0]
  BY DEF WorkspaceInit
<1>2. personaRow \in PersonaRow /\ personaRow.tools \in PermissionLists
  <2>1. [t \in Tools |-> first] \in PermissionLists
    BY WorkspaceAssumption DEF PermissionLists, Levels
  <2> QED BY <1>1, <2>1, CoercedFacts DEF PersonaRow
<1>3. Editor = 0 /\ editors \in Seq(EditorState)
  BY DEF WorkspaceInit, Editor
<1>4. \A i \in 0 .. MaxVisits : patches[i] = NoPatch
  BY DEF WorkspaceInit
<1>5. WorkspaceTypes
  <2>1. PatchFits(0, NoPatch) /\ \A i \in 0 .. MaxVisits : PatchFits(i, NoPatch)
    BY NoPatchFacts DEF PatchFits
  <2>2. MaxVisits \in Nat /\ MaxClicks \in Nat
    BY WorkspaceAssumption
  <2>3. /\ wish = personaRow.tools /\ copy = personaRow /\ section = "forms" /\ clicks = 0
        /\ excuses = {} /\ patches = [i \in 0 .. MaxVisits |-> NoPatch]
    BY DEF WorkspaceInit
  <2>4. patches \in [0 .. MaxVisits -> PatchState]
    BY <2>3, NoPatchFacts
  <2> QED BY <1>2, <1>3, <1>4, <2>1, <2>2, <2>3, <2>4 DEF WorkspaceTypes
<1>6. CopyKnows /\ OnlyTheLastSaves
  BY <1>3 DEF WorkspaceInit, CopyKnows, OnlyTheLastSaves
<1> QED BY <1>3, <1>5, <1>6 DEF WorkspaceInv

\* The section is opened: the new editor shows the page's copy.
LEMMA OpenToolsStep == WorkspaceInv /\ OpenTools => WorkspaceInv'
<1> SUFFICES ASSUME WorkspaceInv, OpenTools PROVE WorkspaceInv'
  OBVIOUS
<1>1. copy.tools \in PermissionLists /\ Editor \in Nat /\ Editor < MaxVisits /\ MaxVisits \in Nat
  <2>1. copy.tools \in PermissionLists
    BY DEF WorkspaceInv, WorkspaceTypes, PersonaRow
  <2>2. Editor \in Nat /\ Editor < MaxVisits
    BY DEF WorkspaceInv, WorkspaceTypes, OpenTools, Editor
  <2> QED BY <2>1, <2>2, WorkspaceAssumption
<1>2. PICK e \in EditorState :
        e.tools = copy.tools /\ e.queued = NoList /\ editors' = Append(editors, e)
  <2> DEFINE d == [tools |-> copy.tools, base |-> copy.tools, queued |-> NoList, error |-> FALSE,
                   saved |-> FALSE]
  <2>1. d \in EditorState /\ d.tools = copy.tools /\ d.queued = NoList
    BY <1>1 DEF EditorState
  <2>2. editors' = Append(editors, d)
    BY DEF OpenTools
  <2> QED BY <2>1, <2>2
<1>3. editors \in Seq(EditorState)
  BY DEF WorkspaceInv, WorkspaceTypes
<1>4. /\ editors' \in Seq(EditorState) /\ Editor' = Editor + 1 /\ editors' # <<>>
      /\ editors'[Editor'] = e /\ Editor' \in 1 .. MaxVisits
  <2>1. /\ editors' \in Seq(EditorState) /\ editors' # <<>> /\ Len(editors') = Len(editors) + 1
        /\ editors'[Len(editors) + 1] = e
    BY <1>2, <1>3, AppendProperties
  <2> QED BY <1>1, <2>1 DEF Editor
<1>5. /\ section' = "tools" /\ wish' = copy.tools
      /\ excuses' = (IF copy.tools = personaRow.tools /\ \A i \in 1 .. Editor : patches[i] = NoPatch
                     THEN excuses ELSE excuses \cup {"stale"})
      /\ UNCHANGED <<personaRow, copy, patches, clicks>>
  BY DEF OpenTools
<1>6. patches'[Editor'] = NoPatch
  <2>1. PatchFits(Editor', patches[Editor'])
    BY <1>4 DEF WorkspaceInv, WorkspaceTypes
  <2> QED BY <1>1, <1>4, <1>5, <2>1 DEF PatchFits
<1>7. WorkspaceTypes'
  <2>1. ASSUME NEW i \in 0 .. MaxVisits, NEW p \in {patches'[i]} PROVE PatchFits(i, p)'
    <3>1. PatchFits(i, p)
      BY <1>5, <2>1 DEF WorkspaceInv, WorkspaceTypes
    <3> QED BY <1>1, <1>4, <3>1 DEF PatchFits
  <2>2. excuses' \subseteq {"stale", "lost", "crossed", "replaced", "queued"}
    BY <1>5 DEF WorkspaceInv, WorkspaceTypes
  <2> QED BY <1>1, <1>4, <1>5, <2>1, <2>2 DEF WorkspaceInv, WorkspaceTypes
<1>8. CopyKnows'
  <2>1. excuses \subseteq excuses'
    BY <1>5
  <2> QED BY <1>5, <2>1 DEF WorkspaceInv, CopyKnows, Excused
<1>9. ASSUME "stale" \notin excuses'
      PROVE  /\ OnlyTheLastSaves' /\ \A d \in {editors'[Editor']}, p \in {patches'[Editor']} :
                  EditorKnows(d, p)' /\ WishKnows(d, p)'
  <2>1. copy.tools = personaRow.tools /\ \A i \in 1 .. Editor : patches[i] = NoPatch
    BY <1>5, <1>9
  <2>2. OnlyTheLastSaves'
    BY <1>1, <1>4, <1>5, <2>1 DEF OnlyTheLastSaves
  <2>3. EditorKnows(e, NoPatch)' /\ WishKnows(e, NoPatch)'
    BY <1>2, <1>5, <2>1, NoPatchFacts DEF EditorKnows, WishKnows
  <2> QED BY <1>4, <1>6, <2>2, <2>3
<1> QED BY <1>7, <1>8, <1>9 DEF WorkspaceInv, Excused

\* What leaves the row, the editors and the saves alone, but may excuse more.
LEMMA NothingMoves ==
  ASSUME WorkspaceInv, UNCHANGED <<personaRow, editors, patches, wish, clicks>>,
         excuses \subseteq excuses', excuses' \subseteq {"stale", "lost", "crossed", "replaced", "queued"},
         copy' = copy, section' \in {"tools", "forms"}, section' = "tools" => section = "tools"
  PROVE  WorkspaceInv'
<1>1. Editor' = Editor
  BY DEF Editor
<1>2. WorkspaceTypes'
  BY <1>1 DEF WorkspaceInv, WorkspaceTypes, PatchFits
<1>3. CopyKnows' /\ ("stale" \notin excuses' => OnlyTheLastSaves')
  BY <1>1 DEF WorkspaceInv, CopyKnows, OnlyTheLastSaves, Excused
<1>4. ASSUME ~ Excused({"stale", "lost", "queued"})', Editor' # 0,
             NEW e \in {editors'[Editor']}, NEW p \in {patches'[Editor']}
      PROVE  EditorKnows(e, p)'
  <2>1. EditorKnows(e, p)
    BY <1>1, <1>4 DEF WorkspaceInv, Excused
  <2> QED BY <2>1 DEF EditorKnows
<1>5. ASSUME ~ Excused({"stale", "lost", "replaced", "queued"})', Editor' # 0,
             NEW e \in {editors'[Editor']}, NEW p \in {patches'[Editor']}
      PROVE  WishKnows(e, p)'
  <2>1. WishKnows(e, p)
    BY <1>1, <1>5 DEF WorkspaceInv, Excused
  <2> QED BY <2>1 DEF WishKnows
<1> QED BY <1>2, <1>3, <1>4, <1>5 DEF WorkspaceInv

\* What changes one save of the charter, or none, and what is left alone.
LEMMA EditorsStay ==
  ASSUME WorkspaceInv, WorkspaceTypes', excuses \subseteq excuses', Editor' = Editor,
         personaRow'.tools = personaRow.tools, wish' = wish, editors' = editors,
         \A i \in 1 .. MaxVisits : patches'[i] = patches[i]
  PROVE  /\ "stale" \notin excuses' => OnlyTheLastSaves'
         /\ ~ Excused({"stale", "lost", "queued"})' /\ Editor' # 0 =>
              (\A e \in {editors[Editor]}, p \in {patches[Editor]} : EditorKnows(e, p))'
         /\ ~ Excused({"stale", "lost", "replaced", "queued"})' /\ Editor' # 0 =>
              (\A e \in {editors[Editor]}, p \in {patches[Editor]} : WishKnows(e, p))'
<1>1. Editor \in 0 .. MaxVisits /\ MaxVisits \in Nat
  BY WorkspaceAssumption DEF WorkspaceInv, WorkspaceTypes, Editor
<1>2. "stale" \notin excuses' => OnlyTheLastSaves'
  BY <1>1 DEF WorkspaceInv, OnlyTheLastSaves
<1>3. ASSUME ~ Excused({"stale", "lost", "queued"})', Editor' # 0,
             NEW e \in {editors'[Editor']}, NEW p \in {patches'[Editor']}
      PROVE  EditorKnows(e, p)'
  <2>1. EditorKnows(e, p)
    BY <1>1, <1>3 DEF WorkspaceInv, Excused
  <2> QED BY <2>1 DEF EditorKnows
<1>4. ASSUME ~ Excused({"stale", "lost", "replaced", "queued"})', Editor' # 0,
             NEW e \in {editors'[Editor']}, NEW p \in {patches'[Editor']}
      PROVE  WishKnows(e, p)'
  <2>1. WishKnows(e, p)
    BY <1>1, <1>4 DEF WorkspaceInv, Excused
  <2> QED BY <2>1 DEF WishKnows
<1> QED BY <1>2, <1>3, <1>4

LEMMA SubmitStep == WorkspaceInv /\ SubmitCharter => WorkspaceInv'
<1> SUFFICES ASSUME WorkspaceInv, SubmitCharter PROVE WorkspaceInv'
  OBVIOUS
<1> DEFINE p == [NoPatch EXCEPT !.pc = "sent", !.charter = clicks + 1]
<1>1. /\ patches[0] = NoPatch /\ clicks' = clicks + 1 /\ clicks < MaxClicks
      /\ patches' = [patches EXCEPT ![0] = p]
      /\ UNCHANGED <<personaRow, copy, section, editors, wish, excuses>>
  BY DEF SubmitCharter
<1>2. clicks' \in 0 .. MaxClicks /\ clicks + 1 \in Nat /\ Editor' = Editor /\ Editor \in Nat
      /\ 0 \in 0 .. MaxVisits
  BY <1>1, WorkspaceAssumption DEF WorkspaceInv, WorkspaceTypes, Editor
<1>3. p \in PatchState /\ p.pc = "sent"
  BY <1>2, NoPatchFacts
<1> HIDE DEF p
<1>4. PatchFits(0, p)
  BY <1>2, <1>3 DEF PatchFits
<1>5. /\ patches' \in [0 .. MaxVisits -> PatchState]
      /\ (\A k \in 0 .. MaxVisits : \A q \in {patches[k]} : PatchFits(k, q))'
      /\ \A k \in (0 .. MaxVisits) \ {0} : patches'[k] = patches[k]
  BY <1>1, <1>2, <1>3, <1>4, OnePatch DEF WorkspaceInv, WorkspaceTypes
<1>6. WorkspaceTypes'
  BY <1>1, <1>2, <1>5 DEF WorkspaceInv, WorkspaceTypes
<1>7. CopyKnows'
  <2>1. \A i \in 0 .. MaxVisits : patches[i].pc = "written" => patches'[i] = patches[i]
    BY <1>1, <1>5, NoPatchFacts
  <2> QED BY <1>1, <2>1 DEF WorkspaceInv, CopyKnows, Excused
<1> QED BY <1>1, <1>2, <1>5, <1>6, <1>7, EditorsStay, WorkspaceAssumption DEF WorkspaceInv

\* The answer of the charter's save.
LEMMA CharterStep == WorkspaceInv /\ CharterAnswered => WorkspaceInv'
<1> SUFFICES ASSUME WorkspaceInv, CharterAnswered PROVE WorkspaceInv'
  OBVIOUS
<1>1. /\ patches[0].pc \in {"written", "failed"}
      /\ IF patches[0].pc = "written" THEN ApplyUpdate(patches[0].answer) ELSE UNCHANGED <<copy, excuses>>
      /\ patches' = [patches EXCEPT ![0] = NoPatch]
      /\ UNCHANGED <<personaRow, section, editors, clicks, wish>>
  BY DEF CharterAnswered
<1>2. Editor' = Editor /\ Editor \in Nat /\ 0 \in 0 .. MaxVisits /\ MaxVisits \in Nat
  BY <1>1, WorkspaceAssumption DEF WorkspaceInv, WorkspaceTypes, Editor
<1>3. PatchFits(0, NoPatch) /\ PatchFits(0, patches[0])
  BY <1>2, NoPatchFacts DEF PatchFits, WorkspaceInv, WorkspaceTypes
<1>4. /\ patches' \in [0 .. MaxVisits -> PatchState]
      /\ (\A k \in 0 .. MaxVisits : \A q \in {patches[k]} : PatchFits(k, q))'
      /\ patches'[0] = NoPatch /\ \A k \in (0 .. MaxVisits) \ {0} : patches'[k] = patches[k]
  BY <1>1, <1>2, <1>3, NoPatchFacts, OnePatch DEF WorkspaceInv, WorkspaceTypes
<1>5. excuses \subseteq excuses' /\ excuses' \subseteq excuses \cup {"crossed"} /\ copy' \in PersonaRow
  BY <1>1, <1>3 DEF ApplyUpdate, PatchFits, WorkspaceInv, WorkspaceTypes
<1>6. WorkspaceTypes'
  BY <1>1, <1>2, <1>4, <1>5 DEF WorkspaceInv, WorkspaceTypes
<1>7. CopyKnows'
  <2>1. CASE patches[0].pc = "failed"
    <3>1. \A i \in 0 .. MaxVisits : patches[i].pc = "written" => patches'[i] = patches[i]
      BY <1>4, <2>1
    <3> QED BY <1>1, <2>1, <3>1 DEF WorkspaceInv, CopyKnows, Excused
  <2>2. CASE patches[0].pc = "written" /\ "crossed" \notin excuses'
    <3>1. copy' = patches[0].answer
      BY <1>1, <2>2 DEF ApplyUpdate
    <3>2. PICK i \in 0 .. MaxVisits : patches[i].pc = "written" /\ patches[i].answer = personaRow
      BY <1>1, <2>2 DEF ApplyUpdate
    <3> QED BY <1>1, <1>4, <3>1, <3>2 DEF CopyKnows
  <2>3. CASE "crossed" \in excuses'
    BY <2>3 DEF CopyKnows, Excused
  <2> QED BY <1>1, <2>1, <2>2, <2>3
<1> QED BY <1>1, <1>2, <1>4, <1>5, <1>6, <1>7, EditorsStay DEF WorkspaceInv

\* A save that is under way moves on.
LEMMA PatchMoves ==
  ASSUME WorkspaceInv, NEW i \in 0 .. MaxVisits, NEW p \in PatchState, patches[i] # NoPatch,
         p.pc # "none", p.tools = patches[i].tools, p.pc = "written" => p.answer \in PersonaRow,
         patches' = [patches EXCEPT ![i] = p], editors' = editors
  PROVE  /\ patches' \in [0 .. MaxVisits -> PatchState] /\ Editor' = Editor /\ Editor \in Nat
         /\ (\A k \in 0 .. MaxVisits : \A q \in {patches[k]} : PatchFits(k, q))'
         /\ patches'[i] = p /\ \A k \in (0 .. MaxVisits) \ {i} : patches'[k] = patches[k]
         /\ p # NoPatch /\ i <= Editor
         /\ "stale" \notin excuses => OnlyTheLastSaves' /\ (i # 0 => i = Editor)
<1>1. Editor' = Editor /\ Editor \in Nat /\ Editor <= MaxVisits /\ MaxVisits \in Nat
  BY WorkspaceAssumption DEF WorkspaceInv, WorkspaceTypes, Editor
<1>2. p # NoPatch
  BY NoPatchFacts
<1>3. PatchFits(i, patches[i])
  BY DEF WorkspaceInv, WorkspaceTypes
<1>4. PatchFits(i, p)
  BY <1>2, <1>3 DEF PatchFits
<1>5. /\ patches' \in [0 .. MaxVisits -> PatchState]
      /\ (\A k \in 0 .. MaxVisits : \A q \in {patches[k]} : PatchFits(k, q))'
      /\ patches'[i] = p /\ \A k \in (0 .. MaxVisits) \ {i} : patches'[k] = patches[k]
  BY <1>1, <1>4, OnePatch DEF WorkspaceInv, WorkspaceTypes
<1>6. i <= Editor
  BY <1>3 DEF PatchFits
<1>7. ASSUME "stale" \notin excuses PROVE OnlyTheLastSaves' /\ (i # 0 => i = Editor)
  <2>1. \A k \in 1 .. Editor - 1 : patches[k] = NoPatch
    BY <1>7 DEF WorkspaceInv, OnlyTheLastSaves
  <2>2. i # 0 => i = Editor
    BY <1>1, <1>6, <2>1
  <2>3. \A k \in 1 .. Editor - 1 : patches'[k] = patches[k]
    BY <1>1, <1>5, <2>1
  <2> QED BY <1>1, <2>1, <2>2, <2>3 DEF OnlyTheLastSaves
<1> QED BY <1>1, <1>2, <1>5, <1>6, <1>7

LEMMA WriteStep ==
  ASSUME WorkspaceInv, NEW i \in 0 .. MaxVisits, WritePersona(i)
  PROVE  WorkspaceInv'
<1> DEFINE next == IF i = 0 THEN [personaRow EXCEPT !.charter = patches[0].charter]
                   ELSE [personaRow EXCEPT !.tools = Coerced(patches[i].tools, Destructive)]
           p == [patches[i] EXCEPT !.pc = "written", !.answer = next]
<1>1. /\ patches[i].pc = "sent" /\ personaRow' = next
      /\ UNCHANGED <<copy, section, editors, clicks, wish, excuses>>
  BY DEF WritePersona
<1>2. patches[i] \in PatchState /\ patches[i] # NoPatch /\ personaRow \in PersonaRow /\ 0 \in 0 .. MaxVisits
  <2>1. patches[i] \in PatchState /\ personaRow \in PersonaRow
    BY DEF WorkspaceInv, WorkspaceTypes
  <2>2. patches[i] # NoPatch
    BY <1>1, NoPatchFacts
  <2> QED BY <2>1, <2>2, WorkspaceAssumption
<1>3. i # 0 => patches[i].tools \in PermissionLists
  BY <1>2 DEF WorkspaceInv, WorkspaceTypes, PatchFits
<1>4. /\ next \in PersonaRow
      /\ next.tools = IF i = 0 THEN personaRow.tools ELSE Coerced(patches[i].tools, Destructive)
  <2>1. CASE i = 0
    <3>1. patches[0].charter \in Nat
      BY <1>2, <2>1, RowFacts
    <3>2. \A c \in Nat : /\ [personaRow EXCEPT !.charter = c] \in PersonaRow
                         /\ [personaRow EXCEPT !.charter = c].tools = personaRow.tools
      BY <1>2 DEF PersonaRow
    <3> QED BY <2>1, <3>1, <3>2
  <2>2. CASE i # 0
    <3>1. Coerced(patches[i].tools, Destructive) \in PermissionLists
      BY <1>3, <2>2, CoercedFacts
    <3>2. \A l \in PermissionLists : /\ [personaRow EXCEPT !.tools = l] \in PersonaRow
                                     /\ [personaRow EXCEPT !.tools = l].tools = l
      BY <1>2 DEF PersonaRow
    <3> QED BY <2>2, <3>1, <3>2
  <2> QED BY <2>1, <2>2
<1>5. patches' = [patches EXCEPT ![i] = p]
  BY DEF WritePersona
<1> HIDE DEF next
<1>6. p \in PatchState /\ p.pc = "written" /\ p.answer = next /\ p.tools = patches[i].tools
  BY <1>2, <1>4, RowFacts
<1> HIDE DEF p
<1>7. /\ patches' \in [0 .. MaxVisits -> PatchState] /\ Editor' = Editor /\ Editor \in Nat
      /\ (\A k \in 0 .. MaxVisits : \A q \in {patches[k]} : PatchFits(k, q))'
      /\ patches'[i] = p /\ \A k \in (0 .. MaxVisits) \ {i} : patches'[k] = patches[k]
      /\ p # NoPatch /\ i <= Editor
      /\ "stale" \notin excuses => OnlyTheLastSaves' /\ (i # 0 => i = Editor)
  BY <1>1, <1>2, <1>4, <1>5, <1>6, PatchMoves
<1>8. WorkspaceTypes'
  BY <1>1, <1>4, <1>7 DEF WorkspaceInv, WorkspaceTypes
<1>9. CopyKnows'
  BY <1>1, <1>6, <1>7 DEF CopyKnows
<1>10. CASE i = 0
  BY <1>1, <1>4, <1>7, <1>8, <1>9, <1>10, EditorsStay, WorkspaceAssumption DEF WorkspaceInv
<1>11. CASE i # 0
  <2>1. ASSUME ~ Excused({"stale", "lost", "queued"})', Editor' # 0,
               NEW e \in {editors'[Editor']}, NEW q \in {patches'[Editor']}
        PROVE  EditorKnows(e, q)'
    <3>1. i = Editor /\ q = p
      BY <1>1, <1>7, <1>11, <2>1 DEF Excused
    <3>2. EditorKnows(e, patches[i])
      BY <1>1, <1>7, <2>1, <3>1 DEF WorkspaceInv, Excused
    <3> QED BY <1>1, <1>2, <1>6, <1>7, <3>1, <3>2 DEF EditorKnows
  <2>2. ASSUME ~ Excused({"stale", "lost", "replaced", "queued"})', Editor' # 0,
               NEW e \in {editors'[Editor']}, NEW q \in {patches'[Editor']}
        PROVE  WishKnows(e, q)'
    <3>1. i = Editor /\ q = p
      BY <1>1, <1>7, <1>11, <2>2 DEF Excused
    <3>2. WishKnows(e, patches[i])
      BY <1>1, <1>7, <2>2, <3>1 DEF WorkspaceInv, Excused
    <3> QED BY <1>1, <1>2, <1>4, <1>6, <1>7, <1>11, <3>1, <3>2 DEF WishKnows
  <2> QED BY <1>1, <1>7, <1>8, <1>9, <2>1, <2>2 DEF WorkspaceInv
<1> QED BY <1>10, <1>11

\* A save is refused, or its answer is lost.
LEMMA FailStep ==
  ASSUME WorkspaceInv, NEW i \in 0 .. MaxVisits, PatchFails(i) \/ AnswerLost(i)
  PROVE  WorkspaceInv'
<1> DEFINE p == [patches[i] EXCEPT !.pc = "failed"]
<1>1. /\ UNCHANGED <<personaRow, copy, section, editors, clicks, wish>>
      /\ \/ patches[i].pc = "sent" /\ excuses' = excuses
         \/ patches[i].pc = "written" /\ excuses' = excuses \cup {"lost"}
  BY DEF PatchFails, AnswerLost
<1>2. patches[i] \in PatchState /\ patches[i] # NoPatch
  BY <1>1, NoPatchFacts DEF WorkspaceInv, WorkspaceTypes
<1>3. patches' = [patches EXCEPT ![i] = p]
  BY DEF PatchFails, AnswerLost
<1>4. p \in PatchState /\ p.pc = "failed" /\ p.tools = patches[i].tools
  BY <1>2, RowFacts DEF WorkspaceInv, WorkspaceTypes
<1> HIDE DEF p
<1>5. /\ patches' \in [0 .. MaxVisits -> PatchState] /\ Editor' = Editor /\ Editor \in Nat
      /\ (\A k \in 0 .. MaxVisits : \A q \in {patches[k]} : PatchFits(k, q))'
      /\ patches'[i] = p /\ \A k \in (0 .. MaxVisits) \ {i} : patches'[k] = patches[k]
      /\ p # NoPatch /\ i <= Editor
      /\ "stale" \notin excuses => OnlyTheLastSaves' /\ (i # 0 => i = Editor)
  BY <1>1, <1>2, <1>3, <1>4, PatchMoves
<1>6. excuses \subseteq excuses' /\ excuses' \subseteq {"stale", "lost", "crossed", "replaced", "queued"}
  BY <1>1 DEF WorkspaceInv, WorkspaceTypes
<1>7. WorkspaceTypes'
  BY <1>1, <1>5, <1>6 DEF WorkspaceInv, WorkspaceTypes
<1>8. CopyKnows'
  <2>1. CASE "lost" \in excuses'
    BY <2>1 DEF CopyKnows, Excused
  <2>2. CASE "lost" \notin excuses'
    <3>1. \A k \in 0 .. MaxVisits : patches[k].pc = "written" => patches'[k] = patches[k]
      BY <1>1, <1>5, <2>2
    <3> QED BY <1>1, <1>6, <3>1 DEF WorkspaceInv, CopyKnows, Excused
  <2> QED BY <2>1, <2>2
<1>9. ASSUME ~ Excused({"stale", "lost", "queued"})', Editor' # 0,
             NEW e \in {editors'[Editor']}, NEW q \in {patches'[Editor']}
      PROVE  EditorKnows(e, q)'
  <2>1. patches[i].pc = "sent" /\ EditorKnows(e, patches[Editor])
    BY <1>1, <1>5, <1>9 DEF WorkspaceInv, Excused
  <2>2. q = patches[Editor] \/ (q = p /\ i = Editor)
    BY <1>5, <1>9 DEF WorkspaceInv, WorkspaceTypes
  <2> QED BY <1>1, <1>2, <1>4, <1>5, <2>1, <2>2 DEF EditorKnows
<1>10. ASSUME ~ Excused({"stale", "lost", "replaced", "queued"})', Editor' # 0,
              NEW e \in {editors'[Editor']}, NEW q \in {patches'[Editor']}
       PROVE  WishKnows(e, q)'
  <2>1. patches[i].pc = "sent" /\ WishKnows(e, patches[Editor])
    BY <1>1, <1>5, <1>10 DEF WorkspaceInv, Excused
  <2>2. q = patches[Editor] \/ (q = p /\ i = Editor)
    BY <1>5, <1>10 DEF WorkspaceInv, WorkspaceTypes
  <2> QED BY <1>1, <1>2, <1>4, <1>5, <2>1, <2>2 DEF WishKnows
<1> QED BY <1>1, <1>5, <1>7, <1>8, <1>9, <1>10 DEF WorkspaceInv

LEMMA ElsewhereStep ==
  ASSUME WorkspaceInv, NEW t \in Tools, WriteElsewhere(t)
  PROVE  WorkspaceInv'
<1>1. /\ excuses' = excuses \cup {"stale"}
      /\ personaRow' = [personaRow EXCEPT !.tools = [personaRow.tools EXCEPT ![t] = "allow"]]
      /\ UNCHANGED <<copy, section, editors, patches, clicks, wish>>
  BY DEF WriteElsewhere
<1>2. personaRow' \in PersonaRow
  <2>1. [personaRow.tools EXCEPT ![t] = "allow"] \in PermissionLists /\ personaRow \in PersonaRow
    BY DEF PersonaRow, PermissionLists, Levels, WorkspaceInv, WorkspaceTypes
  <2> QED BY <1>1, <2>1, RowFacts
<1>3. Editor' = Editor
  BY <1>1 DEF Editor
<1>4. WorkspaceTypes'
  BY <1>1, <1>2, <1>3 DEF WorkspaceInv, WorkspaceTypes, PatchFits
<1> QED BY <1>1, <1>4 DEF WorkspaceInv, CopyKnows, Excused

\* An edit in the section that is on screen.
LEMMA PersistStep ==
  ASSUME WorkspaceInv, section = "tools", NEW next \in PermissionLists, Tools # {}, Persist(next)
  PROVE  WorkspaceInv'
<1> DEFINE i == Editor
<1>1. Editor \in 1 .. MaxVisits /\ editors \in Seq(EditorState) /\ Editor \in 0 .. MaxVisits
  <2>1. editors \in Seq(EditorState) /\ editors # <<>> /\ Editor <= MaxVisits /\ MaxVisits \in Nat
    BY WorkspaceAssumption DEF WorkspaceInv, WorkspaceTypes
  <2> QED BY <2>1, EmptySeq DEF Editor
<1>2. PICK j \in 1 .. MaxVisits : j = Editor
  BY <1>1
<1>3. PICK e \in EditorState : e = editors[j]
  BY <1>1, <1>2, ElementOfSeq DEF Editor
<1>4. PICK p \in PatchState : p = patches[j]
  BY <1>1, <1>2 DEF WorkspaceInv, WorkspaceTypes
<1>5. PatchFits(j, p) /\ j \in 1 .. Editor /\ j \in 0 .. MaxVisits
  BY <1>1, <1>2, <1>4 DEF WorkspaceInv, WorkspaceTypes
<1>6. next # NoList
  BY DEF PermissionLists, NoList, Levels
<1>7. /\ clicks' \in 0 .. MaxClicks /\ UNCHANGED <<personaRow, copy, section>>
      /\ wish' = Coerced([t \in Tools |-> IF next[t] # e.tools[t] THEN next[t] ELSE wish[t]], Destructive)
  <2>1. clicks \in 0 .. MaxClicks /\ MaxClicks \in Nat
    BY WorkspaceAssumption DEF WorkspaceInv, WorkspaceTypes
  <2>2. clicks < MaxClicks /\ clicks' = clicks + 1 /\ UNCHANGED <<personaRow, copy, section>>
    BY DEF Persist
  <2>3. wish' = Coerced([t \in Tools |-> IF next[t] # e.tools[t] THEN next[t] ELSE wish[t]], Destructive)
    BY <1>2, <1>3 DEF Persist
  <2> QED BY <2>1, <2>2, <2>3
<1>8. wish' \in PermissionLists
  <2>1. [t \in Tools |-> IF next[t] # e.tools[t] THEN next[t] ELSE wish[t]] \in PermissionLists
    BY DEF PermissionLists, WorkspaceInv, WorkspaceTypes
  <2> QED BY <1>7, <2>1, CoercedFacts
<1>9. e.tools \in PermissionLists
  BY DEF EditorState
<1>10. CASE p = NoPatch
  <2> DEFINE d == [tools |-> next, base |-> e.tools, queued |-> NoList, error |-> FALSE, saved |-> FALSE]
             q == [NoPatch EXCEPT !.pc = "sent", !.tools = next]
  <2>1. d \in EditorState /\ d.tools = next /\ d.base = e.tools /\ d.queued = NoList
    BY <1>9 DEF EditorState
  <2>2. q \in PatchState /\ q.pc = "sent" /\ q.tools = next
    BY NoPatchFacts
  <2>3. /\ editors' = [editors EXCEPT ![j] = d] /\ patches' = [patches EXCEPT ![j] = q]
        /\ excuses' = excuses
    BY <1>2, <1>3, <1>4, <1>10 DEF Persist, SendPatch
  <2> HIDE DEF d, q
  <2>4. /\ editors' \in Seq(EditorState) /\ Editor' = Editor /\ editors' # <<>> /\ editors'[j] = d
    BY <1>1, <1>5, <2>1, <2>3, OneEditor
  <2>5. PatchFits(j, q)
    BY <1>1, <1>2, <2>2 DEF PatchFits
  <2>6. /\ patches' \in [0 .. MaxVisits -> PatchState]
        /\ (\A k \in 0 .. MaxVisits : \A r \in {patches[k]} : PatchFits(k, r))'
        /\ patches'[j] = q /\ \A k \in (0 .. MaxVisits) \ {j} : patches'[k] = patches[k]
    BY <1>5, <2>2, <2>3, <2>4, <2>5, OnePatch DEF WorkspaceInv, WorkspaceTypes
  <2>7. WorkspaceTypes'
    BY <1>7, <1>8, <2>3, <2>4, <2>6 DEF WorkspaceInv, WorkspaceTypes
  <2>8. CopyKnows'
    <3>1. \A k \in 0 .. MaxVisits : patches[k].pc = "written" => patches'[k] = patches[k]
      BY <1>4, <1>10, <2>6, NoPatchFacts
    <3> QED BY <1>7, <2>3, <3>1 DEF WorkspaceInv, CopyKnows, Excused
  <2>9. "stale" \notin excuses' => OnlyTheLastSaves'
    BY <1>1, <1>2, <2>3, <2>4, <2>6 DEF WorkspaceInv, OnlyTheLastSaves
  <2>10. ASSUME ~ Excused({"stale", "lost", "queued"}) PROVE EditorKnows(d, q)' /\ e.tools = personaRow.tools
    <3>1. EditorKnows(e, p)
      BY <1>1, <1>2, <1>3, <1>4, <2>10 DEF WorkspaceInv
    <3> QED BY <1>7, <1>10, <2>1, <2>2, <3>1, NoPatchFacts DEF EditorKnows
  <2>11. ASSUME ~ Excused({"stale", "lost", "replaced", "queued"}) PROVE WishKnows(d, q)'
    <3>1. WishKnows(e, p) /\ e.tools = personaRow.tools
      BY <1>1, <1>2, <1>3, <1>4, <2>10, <2>11 DEF WorkspaceInv, Excused
    <3>2. wish' = Coerced(next, Destructive)
      BY <1>7, <1>9, <1>10, <3>1, WishFollows DEF WishKnows
    <3> QED BY <2>1, <2>2, <3>2, NoPatchFacts DEF WishKnows
  <2> QED BY <1>2, <2>3, <2>4, <2>6, <2>7, <2>8, <2>9, <2>10, <2>11 DEF WorkspaceInv, Excused
<1>11. CASE p # NoPatch
  <2> DEFINE d == [e EXCEPT !.queued = next]
  <2>1. /\ d \in EditorState /\ d.queued = next /\ d.tools = e.tools /\ d.base = e.base
        /\ d.saved = e.saved
    BY DEF EditorState
  <2>2. /\ editors' = [editors EXCEPT ![j] = d] /\ patches' = patches
        /\ excuses' = IF e.queued = NoList THEN excuses ELSE excuses \cup {"replaced"}
    BY <1>2, <1>3, <1>4, <1>11 DEF Persist
  <2> HIDE DEF d
  <2>3. /\ editors' \in Seq(EditorState) /\ Editor' = Editor /\ editors' # <<>> /\ editors'[j] = d
    BY <1>1, <1>5, <2>1, <2>2, OneEditor
  <2>4. WorkspaceTypes'
    <3>1. excuses' \subseteq {"stale", "lost", "crossed", "replaced", "queued"}
      BY <2>2 DEF WorkspaceInv, WorkspaceTypes
    <3> QED BY <1>7, <1>8, <2>2, <2>3, <3>1 DEF WorkspaceInv, WorkspaceTypes, PatchFits
  <2>5. CopyKnows' /\ ("stale" \notin excuses' => OnlyTheLastSaves')
    BY <1>7, <2>2, <2>3 DEF WorkspaceInv, CopyKnows, Excused, OnlyTheLastSaves
  <2>6. ASSUME ~ Excused({"stale", "lost", "queued"})' PROVE EditorKnows(e, p) /\ EditorKnows(d, p)'
    <3>1. EditorKnows(e, p)
      BY <1>1, <1>2, <1>3, <1>4, <2>2, <2>6 DEF WorkspaceInv, Excused
    <3> QED BY <1>7, <1>11, <2>1, <3>1 DEF EditorKnows
  <2>7. ASSUME ~ Excused({"stale", "lost", "replaced", "queued"})' PROVE WishKnows(d, p)'
    <3>1. WishKnows(e, p) /\ e.tools = p.tools /\ e.queued = NoList
      BY <1>1, <1>2, <1>3, <1>4, <1>11, <2>2, <2>6, <2>7 DEF WorkspaceInv, Excused, EditorKnows
    <3>2. wish' = Coerced(next, Destructive)
      BY <1>7, <1>9, <1>11, <3>1, WishFollows DEF WishKnows
    <3> QED BY <1>6, <1>7, <1>11, <2>1, <3>1, <3>2 DEF WishKnows
  <2> QED BY <1>2, <1>4, <2>2, <2>3, <2>4, <2>5, <2>6, <2>7 DEF WorkspaceInv
<1> QED BY <1>10, <1>11

\* The list that a click makes is a list of permissions.
LEMMA ClickStep ==
  ASSUME WorkspaceInv,
         \/ \E t \in Tools, permission \in Levels : ClickPermission(t, permission)
         \/ \E permission \in Levels, group \in {ReadOnly, Tools \ ReadOnly} : SetGroup(group, permission)
  PROVE  WorkspaceInv'
<1>1. \A chosen, tools : \A permission \in Levels :
        tools \in PermissionLists => Clicked(tools, chosen, permission) \in PermissionLists
  BY DEF Clicked, PermissionLists, Levels
<1>2. section = "tools" => editors[Editor].tools \in PermissionLists
  <2>1. section = "tools" => editors[Editor] \in EditorState
    BY EmptySeq, ElementOfSeq DEF WorkspaceInv, WorkspaceTypes, Editor
  <2> QED BY <2>1 DEF EditorState
<1>3. PICK next \in PermissionLists : section = "tools" /\ Tools # {} /\ Persist(next)
  <2>1. CASE \E t \in Tools, permission \in Levels : ClickPermission(t, permission)
    <3>1. PICK t \in Tools, permission \in Levels : ClickPermission(t, permission)
      BY <2>1
    <3> QED BY <1>1, <1>2, <3>1 DEF ClickPermission
  <2>2. CASE \E permission \in Levels, group \in {ReadOnly, Tools \ ReadOnly} : SetGroup(group, permission)
    <3>1. PICK permission \in Levels, group \in {ReadOnly, Tools \ ReadOnly} : SetGroup(group, permission)
      BY <2>2
    <3>2. group \subseteq Tools
      BY WorkspaceAssumption
    <3> QED BY <1>1, <1>2, <3>1, <3>2 DEF SetGroup
  <2> QED BY <2>1, <2>2
<1> QED BY <1>3, PersistStep

\* The end of a save: what waited is sent, or nothing is under way.
LEMMA SendQueuedFacts ==
  ASSUME WorkspaceInv, NEW i \in (0 .. MaxVisits) \ {0}, patches[i] # NoPatch,
         NEW e \in EditorState, SendQueued(i, e)
  PROVE  /\ editors' \in Seq(EditorState) /\ Editor' = Editor /\ editors' # <<>> /\ i \in 1 .. Editor
         /\ patches' \in [0 .. MaxVisits -> PatchState]
         /\ (\A k \in 0 .. MaxVisits : \A q \in {patches[k]} : PatchFits(k, q))'
         /\ \A k \in (0 .. MaxVisits) \ {i} : patches'[k] = patches[k]
         /\ "stale" \notin excuses => OnlyTheLastSaves' /\ i = Editor
         /\ \E d \in EditorState, q \in PatchState :
              /\ editors'[i] = d /\ patches'[i] = q
              /\ \/ e.queued = NoList /\ d = e /\ q = NoPatch
                 \/ /\ e.queued # NoList /\ d.tools = e.queued /\ d.queued = NoList
                    /\ d.saved = e.saved /\ d.base = e.base
                    /\ q.pc = "sent" /\ q.tools = e.queued
<1>1. editors \in Seq(EditorState) /\ MaxVisits \in Nat /\ Editor <= MaxVisits /\ Editor \in Nat
  BY WorkspaceAssumption DEF WorkspaceInv, WorkspaceTypes, Editor
<1>2. i \in 1 .. Editor
  <2>1. PatchFits(i, patches[i])
    BY DEF WorkspaceInv, WorkspaceTypes
  <2> QED BY <1>1, <2>1 DEF PatchFits
<1>3. PICK d \in EditorState, q \in PatchState :
        /\ editors' = [editors EXCEPT ![i] = d] /\ patches' = [patches EXCEPT ![i] = q]
        /\ \/ e.queued = NoList /\ d = e /\ q = NoPatch
           \/ /\ e.queued # NoList /\ d.tools = e.queued /\ d.queued = NoList
              /\ d.saved = e.saved /\ d.base = e.base
              /\ q.pc = "sent" /\ q.tools = e.queued /\ q.tools \in PermissionLists
  <2>1. CASE e.queued = NoList
    BY <2>1, NoPatchFacts DEF SendQueued
  <2>2. CASE e.queued # NoList
    <3>1. e.queued \in PermissionLists
      BY <2>2 DEF EditorState
    <3> DEFINE d == [e EXCEPT !.tools = e.queued, !.queued = NoList, !.error = FALSE]
               q == [NoPatch EXCEPT !.pc = "sent", !.tools = e.queued]
    <3>2. q \in PatchState /\ q.pc = "sent" /\ q.tools = e.queued
      BY <3>1, NoPatchFacts
    <3>3. \A l \in PermissionLists :
            /\ [e EXCEPT !.tools = l, !.queued = NoList, !.error = FALSE] \in EditorState
            /\ [e EXCEPT !.tools = l, !.queued = NoList, !.error = FALSE].tools = l
            /\ [e EXCEPT !.tools = l, !.queued = NoList, !.error = FALSE].queued = NoList
            /\ [e EXCEPT !.tools = l, !.queued = NoList, !.error = FALSE].saved = e.saved
            /\ [e EXCEPT !.tools = l, !.queued = NoList, !.error = FALSE].base = e.base
      BY DEF EditorState
    <3>4. /\ d \in EditorState /\ d.tools = e.queued /\ d.queued = NoList /\ d.saved = e.saved
          /\ d.base = e.base
      BY <3>1, <3>3, Zenon
    <3>5. editors' = [editors EXCEPT ![i] = d] /\ patches' = [patches EXCEPT ![i] = q]
      BY <2>2 DEF SendQueued, SendPatch
    <3> HIDE DEF d, q
    <3> QED BY <2>2, <3>1, <3>2, <3>4, <3>5
  <2> QED BY <2>1, <2>2
<1>4. editors' \in Seq(EditorState) /\ Editor' = Editor /\ editors' # <<>> /\ editors'[i] = d
  BY <1>1, <1>2, <1>3, OneEditor
<1>5. PatchFits(i, q)
  <2>1. NoPatch.pc = "none" /\ q.pc # "written"
    BY <1>3, NoPatchFacts
  <2> QED BY <1>1, <1>2, <1>3, <2>1 DEF PatchFits
<1>6. /\ patches' \in [0 .. MaxVisits -> PatchState]
      /\ (\A k \in 0 .. MaxVisits : \A r \in {patches[k]} : PatchFits(k, r))'
      /\ patches'[i] = q /\ \A k \in (0 .. MaxVisits) \ {i} : patches'[k] = patches[k]
  BY <1>3, <1>4, <1>5, OnePatch DEF WorkspaceInv, WorkspaceTypes
<1>7. ASSUME "stale" \notin excuses PROVE OnlyTheLastSaves' /\ i = Editor
  <2>1. \A k \in 1 .. Editor - 1 : patches[k] = NoPatch
    BY <1>7 DEF WorkspaceInv, OnlyTheLastSaves
  <2>2. i = Editor
    BY <1>1, <1>2, <2>1
  <2>3. \A k \in 1 .. Editor - 1 : patches'[k] = patches[k]
    BY <1>1, <1>6, <2>2
  <2> QED BY <1>4, <2>1, <2>2, <2>3 DEF OnlyTheLastSaves
<1> QED BY <1>2, <1>3, <1>4, <1>6, <1>7

LEMMA ToolsAnsweredStep ==
  ASSUME WorkspaceInv, NEW i \in 0 .. MaxVisits, ToolsAnswered(i)
  PROVE  WorkspaceInv'
<1> DEFINE e == [editors[i] EXCEPT !.tools = patches[i].answer.tools, !.saved = TRUE]
<1>1. /\ i \in (0 .. MaxVisits) \ {0} /\ patches[i].pc = "written" /\ patches[i] # NoPatch
      /\ ApplyUpdate(patches[i].answer) /\ SendQueued(i, e)
      /\ UNCHANGED <<personaRow, section, clicks, wish>>
  BY NoPatchFacts DEF ToolsAnswered
<1>2. PatchFits(i, patches[i]) /\ Editor \in Nat /\ Editor <= MaxVisits /\ MaxVisits \in Nat
  BY WorkspaceAssumption DEF WorkspaceInv, WorkspaceTypes, Editor
<1>3. patches[i].answer \in PersonaRow /\ patches[i].answer.tools \in PermissionLists
  BY <1>1, <1>2 DEF PatchFits, PersonaRow
<1>4. editors[i] \in EditorState
  <2>1. i \in 1 .. Editor
    BY <1>1, <1>2 DEF PatchFits
  <2> QED BY <2>1, ElementOfSeq DEF WorkspaceInv, WorkspaceTypes, Editor
<1>5. /\ e \in EditorState /\ e.tools = patches[i].answer.tools /\ e.saved = TRUE
      /\ e.queued = editors[i].queued
  <2>1. \A l \in PermissionLists :
          /\ [editors[i] EXCEPT !.tools = l, !.saved = TRUE] \in EditorState
          /\ [editors[i] EXCEPT !.tools = l, !.saved = TRUE].tools = l
          /\ [editors[i] EXCEPT !.tools = l, !.saved = TRUE].saved = TRUE
          /\ [editors[i] EXCEPT !.tools = l, !.saved = TRUE].queued = editors[i].queued
    BY <1>4 DEF EditorState
  <2> QED BY <1>3, <2>1, Zenon
<1> HIDE DEF e
<1>6. /\ editors' \in Seq(EditorState) /\ Editor' = Editor /\ editors' # <<>> /\ i \in 1 .. Editor
      /\ patches' \in [0 .. MaxVisits -> PatchState]
      /\ (\A k \in 0 .. MaxVisits : \A q \in {patches[k]} : PatchFits(k, q))'
      /\ \A k \in (0 .. MaxVisits) \ {i} : patches'[k] = patches[k]
      /\ "stale" \notin excuses => OnlyTheLastSaves' /\ i = Editor
      /\ \E d \in EditorState, q \in PatchState :
           /\ editors'[i] = d /\ patches'[i] = q
           /\ \/ e.queued = NoList /\ d = e /\ q = NoPatch
              \/ /\ e.queued # NoList /\ d.tools = e.queued /\ d.queued = NoList
                 /\ d.saved = e.saved /\ d.base = e.base
                 /\ q.pc = "sent" /\ q.tools = e.queued
  BY <1>1, <1>5, SendQueuedFacts
<1>7. PICK d \in EditorState, q \in PatchState :
        /\ editors'[i] = d /\ patches'[i] = q
        /\ \/ e.queued = NoList /\ d = e /\ q = NoPatch
           \/ /\ e.queued # NoList /\ d.tools = e.queued /\ d.queued = NoList
              /\ d.saved = e.saved /\ d.base = e.base
              /\ q.pc = "sent" /\ q.tools = e.queued
  BY <1>6
<1>8. /\ copy' = patches[i].answer
      /\ excuses' = IF \E k \in 0 .. MaxVisits : patches[k].pc = "written" /\ patches[k].answer = personaRow
                    THEN excuses ELSE excuses \cup {"crossed"}
  BY <1>1 DEF ApplyUpdate
<1>9. WorkspaceTypes'
  <2>1. excuses' \subseteq {"stale", "lost", "crossed", "replaced", "queued"}
    BY <1>8 DEF WorkspaceInv, WorkspaceTypes
  <2> QED BY <1>1, <1>3, <1>6, <1>8, <2>1 DEF WorkspaceInv, WorkspaceTypes
<1>10. CopyKnows'
  <2>1. CASE "crossed" \in excuses'
    BY <2>1 DEF CopyKnows, Excused
  <2>2. CASE "crossed" \notin excuses'
    <3>1. PICK k \in 0 .. MaxVisits : patches[k].pc = "written" /\ patches[k].answer = personaRow
      BY <1>8, <2>2
    <3>2. CASE k = i
      BY <1>1, <1>8, <3>1, <3>2 DEF CopyKnows
    <3>3. CASE k # i
      BY <1>1, <1>6, <3>1, <3>3 DEF CopyKnows
    <3> QED BY <3>2, <3>3
  <2> QED BY <2>1, <2>2
<1>11. \A S \in SUBSET {"stale", "lost", "queued", "replaced"} : Excused(S)' <=> Excused(S)
  BY <1>8 DEF Excused
<1>12. Excused({"stale", "lost", "queued"})' <=> Excused({"stale", "lost", "queued"})
  BY <1>8 DEF Excused
<1>13. Excused({"stale", "lost", "replaced", "queued"})' <=> Excused({"stale", "lost", "replaced", "queued"})
  BY <1>8 DEF Excused
<1>14. ASSUME ~ Excused({"stale", "lost", "queued"})'
       PROVE  i = Editor /\ EditorKnows(editors[i], patches[i]) /\ EditorKnows(d, q)'
  <2>1. i = Editor
    BY <1>6, <1>12, <1>14 DEF Excused
  <2>2. EditorKnows(editors[i], patches[i])
    BY <1>6, <1>12, <1>14, <2>1 DEF WorkspaceInv
  <2>3. e.tools = personaRow.tools
    BY <1>1, <1>5, <2>2 DEF EditorKnows
  <2>8. e.queued = NoList => d = e /\ q = NoPatch /\ q.pc = "none"
    BY <1>7, NoPatchFacts
  <2>9. e.queued # NoList => /\ d.tools = e.queued /\ d.queued = NoList /\ d.saved = e.saved
                            /\ d.base = e.base /\ q.pc = "sent" /\ q.tools = e.queued /\ q # NoPatch
    BY <1>7, NoPatchFacts
  <2>4. CASE e.queued = NoList
    BY <1>1, <2>1, <2>2, <2>3, <2>4, <2>8 DEF EditorKnows
  <2>5. CASE e.queued # NoList
    BY <1>1, <1>5, <2>1, <2>2, <2>5, <2>9 DEF EditorKnows
  <2> QED BY <2>1, <2>2, <2>4, <2>5
<1>15. ASSUME ~ Excused({"stale", "lost", "replaced", "queued"})' PROVE WishKnows(d, q)'
  <2>1. i = Editor
    BY <1>6, <1>13, <1>15 DEF Excused
  <2>2. WishKnows(editors[i], patches[i])
    BY <1>6, <1>13, <1>15, <2>1 DEF WorkspaceInv
  <2>8. e.queued = NoList => d = e /\ q = NoPatch /\ q.pc = "none"
    BY <1>7, NoPatchFacts
  <2>9. e.queued # NoList => /\ d.tools = e.queued /\ d.queued = NoList /\ d.saved = e.saved
                            /\ d.base = e.base /\ q.pc = "sent" /\ q.tools = e.queued /\ q # NoPatch
    BY <1>7, NoPatchFacts
  <2>3. CASE e.queued = NoList
    BY <1>1, <1>5, <2>2, <2>3, <2>8 DEF WishKnows
  <2>4. CASE e.queued # NoList
    BY <1>1, <1>5, <2>2, <2>4, <2>9 DEF WishKnows
  <2> QED BY <2>3, <2>4
<1>16. "stale" \notin excuses' => OnlyTheLastSaves'
  BY <1>6, <1>8
<1>17. ASSUME ~ Excused({"stale", "lost", "replaced", "queued"})' PROVE i = Editor
  BY <1>6, <1>8, <1>17 DEF Excused
<1> QED BY <1>6, <1>7, <1>9, <1>10, <1>14, <1>15, <1>16, <1>17 DEF WorkspaceInv

LEMMA ToolsFailedStep ==
  ASSUME WorkspaceInv, NEW i \in 0 .. MaxVisits, ToolsFailed(i)
  PROVE  WorkspaceInv'
<1> DEFINE e == [editors[i] EXCEPT !.tools = editors[i].base, !.error = TRUE]
<1>1. /\ i \in (0 .. MaxVisits) \ {0} /\ patches[i].pc = "failed" /\ patches[i] # NoPatch
      /\ SendQueued(i, e)
      /\ wish' = IF editors[i].queued = NoList THEN personaRow.tools ELSE wish
      /\ excuses' = IF editors[i].saved /\ editors[i].queued = NoList
                    THEN excuses \cup {"queued"} ELSE excuses
      /\ UNCHANGED <<personaRow, copy, section, clicks>>
  BY NoPatchFacts DEF ToolsFailed
<1>2. PatchFits(i, patches[i]) /\ Editor \in Nat /\ Editor <= MaxVisits /\ MaxVisits \in Nat
  BY WorkspaceAssumption DEF WorkspaceInv, WorkspaceTypes, Editor
<1>3. editors[i] \in EditorState
  <2>1. i \in 1 .. Editor
    BY <1>1, <1>2 DEF PatchFits
  <2> QED BY <2>1, ElementOfSeq DEF WorkspaceInv, WorkspaceTypes, Editor
<1>4. /\ e \in EditorState /\ e.tools = editors[i].base /\ e.saved = editors[i].saved
      /\ e.base = editors[i].base /\ e.queued = editors[i].queued
  <2>1. \A l \in PermissionLists :
          /\ [editors[i] EXCEPT !.tools = l, !.error = TRUE] \in EditorState
          /\ [editors[i] EXCEPT !.tools = l, !.error = TRUE].tools = l
          /\ [editors[i] EXCEPT !.tools = l, !.error = TRUE].saved = editors[i].saved
          /\ [editors[i] EXCEPT !.tools = l, !.error = TRUE].base = editors[i].base
          /\ [editors[i] EXCEPT !.tools = l, !.error = TRUE].queued = editors[i].queued
    BY <1>3 DEF EditorState
  <2>2. editors[i].base \in PermissionLists
    BY <1>3 DEF EditorState
  <2> QED BY <2>1, <2>2, Zenon
<1> HIDE DEF e
<1>5. /\ editors' \in Seq(EditorState) /\ Editor' = Editor /\ editors' # <<>> /\ i \in 1 .. Editor
      /\ patches' \in [0 .. MaxVisits -> PatchState]
      /\ (\A k \in 0 .. MaxVisits : \A q \in {patches[k]} : PatchFits(k, q))'
      /\ \A k \in (0 .. MaxVisits) \ {i} : patches'[k] = patches[k]
      /\ "stale" \notin excuses => OnlyTheLastSaves' /\ i = Editor
      /\ \E d \in EditorState, q \in PatchState :
           /\ editors'[i] = d /\ patches'[i] = q
           /\ \/ e.queued = NoList /\ d = e /\ q = NoPatch
              \/ /\ e.queued # NoList /\ d.tools = e.queued /\ d.queued = NoList
                 /\ d.saved = e.saved /\ d.base = e.base
                 /\ q.pc = "sent" /\ q.tools = e.queued
  BY <1>1, <1>4, SendQueuedFacts
<1>6. PICK d \in EditorState, q \in PatchState :
        /\ editors'[i] = d /\ patches'[i] = q
        /\ \/ e.queued = NoList /\ d = e /\ q = NoPatch
           \/ /\ e.queued # NoList /\ d.tools = e.queued /\ d.queued = NoList
              /\ d.saved = e.saved /\ d.base = e.base
              /\ q.pc = "sent" /\ q.tools = e.queued
  BY <1>5
<1>7. WorkspaceTypes'
  <2>1. excuses' \subseteq {"stale", "lost", "crossed", "replaced", "queued"}
    BY <1>1 DEF WorkspaceInv, WorkspaceTypes
  <2>2. wish' \in PermissionLists
    BY <1>1 DEF WorkspaceInv, WorkspaceTypes, PersonaRow
  <2> QED BY <1>1, <1>5, <2>1, <2>2 DEF WorkspaceInv, WorkspaceTypes
<1>8. excuses \subseteq excuses'
  BY <1>1
<1>9. CopyKnows'
  <2>1. \A k \in 0 .. MaxVisits : patches[k].pc = "written" => patches'[k] = patches[k]
    BY <1>1, <1>5
  <2> QED BY <1>1, <1>8, <2>1 DEF WorkspaceInv, CopyKnows, Excused
<1>10. ASSUME ~ Excused({"stale", "lost", "queued"})' PROVE i = Editor /\ EditorKnows(d, q)'
  <2>1. i = Editor
    BY <1>5, <1>8, <1>10 DEF Excused
  <2>2. EditorKnows(editors[i], patches[i])
    BY <1>5, <1>8, <1>10, <2>1 DEF WorkspaceInv, Excused
  <2>3. ~ e.saved => e.base = personaRow.tools
    BY <1>1, <1>4, <2>2 DEF EditorKnows
  <2>8. e.queued = NoList => d = e /\ q = NoPatch /\ q.pc = "none"
    BY <1>6, NoPatchFacts
  <2>9. e.queued # NoList => /\ d.tools = e.queued /\ d.queued = NoList /\ d.saved = e.saved
                            /\ d.base = e.base /\ q.pc = "sent" /\ q.tools = e.queued /\ q # NoPatch
    BY <1>6, NoPatchFacts
  <2>4. CASE e.queued = NoList
    <3>1. ~ e.saved
      BY <1>1, <1>4, <1>10, <2>4 DEF Excused
    <3> QED BY <1>1, <1>4, <2>1, <2>3, <2>4, <2>8, <3>1 DEF EditorKnows
  <2>5. CASE e.queued # NoList
    BY <1>1, <2>1, <2>3, <2>5, <2>9 DEF EditorKnows
  <2> QED BY <2>1, <2>4, <2>5
<1>11. ASSUME ~ Excused({"stale", "lost", "replaced", "queued"})' PROVE i = Editor /\ WishKnows(d, q)'
  <2>1. i = Editor
    BY <1>5, <1>8, <1>11 DEF Excused
  <2>2. WishKnows(editors[i], patches[i])
    BY <1>5, <1>8, <1>11, <2>1 DEF WorkspaceInv, Excused
  <2>8. e.queued = NoList => d = e /\ q = NoPatch /\ q.pc = "none"
    BY <1>6, NoPatchFacts
  <2>9. e.queued # NoList => /\ d.tools = e.queued /\ d.queued = NoList /\ d.saved = e.saved
                            /\ d.base = e.base /\ q.pc = "sent" /\ q.tools = e.queued /\ q # NoPatch
    BY <1>6, NoPatchFacts
  <2>3. CASE e.queued = NoList
    BY <1>1, <1>4, <2>1, <2>2, <2>3, <2>8 DEF WishKnows
  <2>4. CASE e.queued # NoList
    BY <1>1, <1>4, <2>1, <2>2, <2>4, <2>9 DEF WishKnows
  <2> QED BY <2>1, <2>3, <2>4
<1>12. "stale" \notin excuses' => OnlyTheLastSaves'
  BY <1>5, <1>8
<1> QED BY <1>5, <1>6, <1>7, <1>9, <1>10, <1>11, <1>12 DEF WorkspaceInv

(* Once every save was answered, the page of the persona tells the row,     *)
(* for any tools, any number of visits, of edits and of saves in any order. *)
THEOREM PersonaPageTells == WorkspaceSpec => [](WorkspaceTypeOK /\ PersonaPageTellsTheRow)
<1>1. WorkspaceInit => WorkspaceInv
  BY WorkspaceStarts
<1>2. WorkspaceInv /\ [WorkspaceNext]_workspaceVars => WorkspaceInv'
  <2> SUFFICES ASSUME WorkspaceInv, [WorkspaceNext]_workspaceVars PROVE WorkspaceInv'
    OBVIOUS
  <2>1. CASE UNCHANGED workspaceVars
    <3>1. excuses' \subseteq {"stale", "lost", "crossed", "replaced", "queued"}
          /\ section' \in {"tools", "forms"}
      BY <2>1 DEF workspaceVars, WorkspaceInv, WorkspaceTypes
    <3> QED BY <2>1, <3>1, NothingMoves DEF workspaceVars
  <2>2. ASSUME OpenForms PROVE WorkspaceInv'
    <3>1. excuses' \subseteq {"stale", "lost", "crossed", "replaced", "queued"}
      BY <2>2 DEF OpenForms, WorkspaceInv, WorkspaceTypes
    <3> QED BY <2>2, <3>1, NothingMoves DEF OpenForms
  <2>3. CASE WorkspaceNext
    BY <2>2, <2>3, OpenToolsStep, ClickStep, SubmitStep, CharterStep, WriteStep, FailStep,
       ToolsAnsweredStep, ToolsFailedStep, ElsewhereStep, Zenon DEF WorkspaceNext
  <2> QED BY <2>1, <2>3
<1>3. WorkspaceInv => WorkspaceTypeOK /\ PersonaPageTellsTheRow
  <2> SUFFICES ASSUME WorkspaceInv PROVE WorkspaceTypeOK /\ PersonaPageTellsTheRow
    OBVIOUS
  <2>1. WorkspaceTypeOK
    <3>1. \A i \in 0 .. MaxVisits : patches[i].pc \in {"none", "sent", "written", "failed"}
      BY DEF WorkspaceInv, WorkspaceTypes, PatchState
    <3>2. clicks <= MaxClicks
      BY WorkspaceAssumption DEF WorkspaceInv, WorkspaceTypes
    <3> QED BY <3>1, <3>2 DEF WorkspaceInv, WorkspaceTypes, WorkspaceTypeOK, PersonaRow, PermissionLists
  <2>2. ASSUME Saved
        PROVE  /\ copy = personaRow \/ Excused({"stale", "lost", "crossed"})
               /\ section = "tools" =>
                    /\ editors[Editor].tools = personaRow.tools \/ Excused({"stale", "lost", "queued"})
                    /\ personaRow.tools = wish \/ Excused({"stale", "lost", "replaced", "queued"})
    <3>1. copy = personaRow \/ Excused({"stale", "lost", "crossed"})
      BY <2>2, NoPatchFacts DEF Saved, WorkspaceInv, CopyKnows
    <3>2. ASSUME section = "tools"
          PROVE  /\ editors[Editor].tools = personaRow.tools \/ Excused({"stale", "lost", "queued"})
                 /\ personaRow.tools = wish \/ Excused({"stale", "lost", "replaced", "queued"})
      <4>1. Editor # 0 /\ patches[Editor] = NoPatch
        <5>1. editors # <<>> /\ editors \in Seq(EditorState) /\ Editor <= MaxVisits
          BY <3>2 DEF WorkspaceInv, WorkspaceTypes
        <5>2. Editor \in Nat \ {0}
          BY <5>1, EmptySeq DEF Editor
        <5> QED BY <2>2, <5>1, <5>2, WorkspaceAssumption DEF Saved
      <4> QED BY <4>1 DEF WorkspaceInv, EditorKnows, WishKnows
    <3> QED BY <3>1, <3>2
  <2> QED BY <2>1, <2>2 DEF PersonaPageTellsTheRow
<1> QED BY <1>1, <1>2, <1>3, PTL DEF WorkspaceSpec

-----------------------------------------------------------------------------
(* Facts that a persona keeps (PersonaMemory).  A transaction that is not    *)
(* known to have overlapped another one still finds live the row that it     *)
(* selected, and no other one under the label.                               *)

Writing == [pc : {"write"}, persona : Staff, label : Labels, facts : SUBSET Facts,
            prior : 0 .. MaxRows, raced : BOOLEAN]
Promoting == {f \in [pc : {"promote"}, persona : Staff, label : Topics, fact : Facts] :
                Manager[f.persona] # Nobody}

MemoryTypes ==
  /\ memories \in Seq(Memory \cup {Deleted}) /\ Len(memories) <= MaxRows
  /\ writer \in [Writers -> {Rest} \cup Writing \cup Promoting]

WriterKnows(w) ==
  writer[w].pc = "write" =>
    /\ writer[w].prior # 0 =>
         /\ writer[w].prior \in Ids
         /\ memories[writer[w].prior] # Deleted =>
              /\ memories[writer[w].prior].persona = writer[w].persona
              /\ memories[writer[w].prior].label = writer[w].label
              /\ ~ writer[w].raced => memories[writer[w].prior].status = "live"
    /\ ~ writer[w].raced => LiveUnder(writer[w].persona, writer[w].label) \subseteq {writer[w].prior}

Superseders(i) == {j \in Ids : memories[j] # Deleted /\ memories[j].supersedes = i}

RowFollows(i) ==
  /\ memories[i].supersedes < i
  /\ \A j \in Superseders(i) :
       /\ memories[i].status = "superseded"
       /\ memories[j].persona = memories[i].persona /\ memories[j].label = memories[i].label
  /\ \A j, k \in Superseders(i) : j < k => memories[k].raced
  /\ memories[i].status = "superseded" /\ Superseders(i) = {} =>
       \E j \in Ids : j > i /\ memories[j] = Deleted

MemoryInv ==
  /\ MemoryTypes
  /\ \A w \in Writers : WriterKnows(w)
  /\ \A i \in Ids : memories[i] # Deleted => RowFollows(i)
  /\ OneLiveUnlessRaced

LEMMA RecordOfMemory ==
  ASSUME NEW r \in Memory
  PROVE  /\ r # Deleted /\ r.status \in {"live", "superseded"} /\ r.persona \in Staff
         /\ r.label \in Labels /\ r.fact \in Facts /\ r.raced \in BOOLEAN
         /\ r.supersedes \in 0 .. MaxRows
         /\ \A s \in {"live", "superseded"} :
              /\ [r EXCEPT !.status = s] \in Memory
              /\ [r EXCEPT !.status = s].status = s
              /\ [r EXCEPT !.status = s].persona = r.persona
              /\ [r EXCEPT !.status = s].label = r.label
              /\ [r EXCEPT !.status = s].fact = r.fact
              /\ [r EXCEPT !.status = s].raced = r.raced
              /\ [r EXCEPT !.status = s].supersedes = r.supersedes
<1>1. r.status \in {"live", "superseded"}
  BY DEF Memory
<1>2. r # Deleted
  BY <1>1 DEF Deleted
<1> QED BY <1>1, <1>2 DEF Memory

LEMMA RowsOfMemory ==
  ASSUME MemoryTypes
  PROVE  /\ Len(memories) \in Nat /\ Ids = 1 .. Len(memories)
         /\ \A i \in Ids : memories[i] = Deleted \/ memories[i] \in Memory
BY DEF MemoryTypes, Ids

\* What the transaction selected: one of the live rows, if there is one.
LEMMA SelectStep ==
  ASSUME MemoryInv, NEW w \in Writers, NEW p \in Staff, NEW l \in Labels,
         NEW facts \in SUBSET Facts, SelectPrior(w, p, l, facts)
  PROVE  MemoryInv'
<1>1. PICK prior \in PriorOf(p, l) :
        writer' = [writer EXCEPT ![w] = [pc |-> "write", persona |-> p, label |-> l,
                                         facts |-> facts, prior |-> prior,
                                         raced |-> Cardinality(LiveUnder(p, l)) > 1]]
  BY DEF SelectPrior
<1>2. UNCHANGED memories
  BY DEF SelectPrior
<1>3. MemoryTypes /\ Len(memories) \in Nat /\ Ids = 1 .. Len(memories)
      /\ \A i \in Ids : memories[i] = Deleted \/ memories[i] \in Memory
  BY RowsOfMemory DEF MemoryInv
<1> DEFINE wr == [pc |-> "write", persona |-> p, label |-> l, facts |-> facts,
                  prior |-> prior, raced |-> Cardinality(LiveUnder(p, l)) > 1]
<1>4. prior \in 0 .. MaxRows /\ (prior # 0 => prior \in LiveUnder(p, l))
      /\ (LiveUnder(p, l) # {} => prior \in LiveUnder(p, l))
  <2>1. LiveUnder(p, l) \subseteq Ids
    BY DEF LiveUnder
  <2> QED BY <1>3, <2>1, MemoryAssumption DEF PriorOf, MemoryTypes
<1>5. wr \in Writing
  BY <1>4 DEF Writing
<1>6. /\ wr.pc = "write" /\ wr.persona = p /\ wr.label = l /\ wr.prior = prior
      /\ wr.raced = (Cardinality(LiveUnder(p, l)) > 1)
  OBVIOUS
<1>7. ~ wr.raced => LiveUnder(p, l) \subseteq {prior}
  <2> SUFFICES ASSUME ~ (Cardinality(LiveUnder(p, l)) > 1), LiveUnder(p, l) # {}
               PROVE  LiveUnder(p, l) \subseteq {prior}
    BY <1>6
  <2>1. IsFiniteSet(LiveUnder(p, l))
    <3>1. IsFiniteSet(1 .. Len(memories))
      BY <1>3, FS_Interval
    <3>2. LiveUnder(p, l) \in SUBSET (1 .. Len(memories))
      BY <1>3 DEF LiveUnder
    <3> QED BY <3>1, <3>2, FS_Subset
  <2>2. Cardinality(LiveUnder(p, l)) = 1
    <3>1. Cardinality(LiveUnder(p, l)) \in Nat
      BY <2>1, FS_CardinalityType
    <3>2. Cardinality(LiveUnder(p, l)) # 0
      BY <2>1, FS_EmptySet
    <3> QED BY <3>1, <3>2
  <2>3. PICK x : LiveUnder(p, l) = {x}
    BY <2>1, <2>2, FS_Singleton
  <2> QED BY <1>4, <2>3
<1> HIDE DEF wr
<1>8. writer' = [writer EXCEPT ![w] = wr]
  BY <1>1 DEF wr
<1>9. MemoryTypes'
  BY <1>2, <1>3, <1>5, <1>8 DEF MemoryTypes
<1>10. ASSUME NEW x \in Writers PROVE WriterKnows(x)'
  <2>1. CASE x = w
    <3>1. writer'[x] = wr
      BY <1>3, <1>8, <2>1 DEF MemoryTypes
    <3>2. prior # 0 => /\ prior \in Ids /\ memories[prior].persona = p /\ memories[prior].label = l
                       /\ memories[prior].status = "live"
      BY <1>4 DEF LiveUnder
    <3> QED BY <1>2, <1>6, <1>7, <3>1, <3>2 DEF WriterKnows, Ids, LiveUnder
  <2>2. CASE x # w
    <3>1. writer'[x] = writer[x]
      BY <1>3, <1>8, <2>2 DEF MemoryTypes
    <3> QED BY <1>2, <3>1 DEF MemoryInv, WriterKnows, Ids, LiveUnder
  <2> QED BY <2>1, <2>2
<1>11. OneLiveUnlessRaced'
  BY <1>2 DEF MemoryInv, OneLiveUnlessRaced, Ids, LiveUnder
<1>12. \A i \in Ids' : (memories[i] # Deleted => RowFollows(i))'
  BY <1>2 DEF MemoryInv, RowFollows, Superseders, Ids
<1> QED BY <1>9, <1>10, <1>11, <1>12 DEF MemoryInv

\* A transaction that ends without writing, or promote_memory when it reads.
LEMMA WriterMoves ==
  ASSUME MemoryInv, NEW w \in Writers, NEW r, r \in {Rest} \cup Promoting,
         writer' = [writer EXCEPT ![w] = r], UNCHANGED memories
  PROVE  MemoryInv'
<1>1. r.pc # "write"
  BY DEF Rest, Promoting
<1>2. MemoryTypes'
  BY DEF MemoryInv, MemoryTypes
<1>3. ASSUME NEW x \in Writers PROVE WriterKnows(x)'
  <2>1. writer'[x] = IF x = w THEN r ELSE writer[x]
    BY DEF MemoryInv, MemoryTypes
  <2> QED BY <1>1, <2>1 DEF MemoryInv, WriterKnows, Ids, LiveUnder
<1>4. OneLiveUnlessRaced'
  BY DEF MemoryInv, OneLiveUnlessRaced, Ids, LiveUnder
<1>5. \A i \in Ids' : (memories[i] # Deleted => RowFollows(i))'
  BY DEF MemoryInv, RowFollows, Superseders, Ids
<1> QED BY <1>2, <1>3, <1>4, <1>5 DEF MemoryInv

\* The rows after the transaction has written.
LEMMA WrittenRows ==
  ASSUME MemoryInv, NEW w \in Writers, NEW f \in Writing, f = writer[w],
         Len(memories) < MaxRows,
         f.prior # 0 => memories[f.prior] # Deleted,
         NEW belief \in f.facts,
         NEW new, new = [persona |-> f.persona, label |-> f.label, fact |-> belief,
                         raced |-> f.raced, supersedes |-> f.prior, status |-> "live"],
         memories' = Append(Supersede(memories, f.prior), new)
  PROVE  /\ memories' \in Seq(Memory \cup {Deleted})
         /\ Len(memories') = Len(memories) + 1 /\ Ids' = Ids \cup {Len(memories) + 1}
         /\ memories'[Len(memories) + 1] = new /\ new \in Memory
         /\ \A i \in Ids : /\ i # f.prior => memories'[i] = memories[i]
                           /\ i = f.prior =>
                                /\ memories[i] \in Memory
                                /\ memories'[i] = [memories[i] EXCEPT !.status = "superseded"]
<1> DEFINE k == f.prior
           rows == Supersede(memories, k)
<1>1. MemoryTypes /\ Len(memories) \in Nat /\ Ids = 1 .. Len(memories)
      /\ \A i \in Ids : memories[i] = Deleted \/ memories[i] \in Memory
  BY RowsOfMemory DEF MemoryInv
<1>2. k \in 0 .. MaxRows /\ f.pc = "write" /\ MaxRows \in Nat
  BY MemoryAssumption DEF Writing
<1>3. k # 0 => k \in Ids /\ memories[k] \in Memory
  BY <1>1, <1>2 DEF MemoryInv, WriterKnows
<1>4. new \in Memory
  <2>1. /\ f.persona \in Staff /\ f.label \in Labels /\ belief \in Facts
        /\ f.raced \in BOOLEAN
    BY DEF Writing
  <2> QED BY <1>2, <2>1 DEF Memory
<1>5. /\ rows \in Seq(Memory \cup {Deleted}) /\ Len(rows) = Len(memories)
      /\ \A i \in Ids : /\ i # k => rows[i] = memories[i]
                        /\ i = k => rows[i] = [memories[i] EXCEPT !.status = "superseded"]
  <2>1. CASE k = 0
    BY <1>1, <2>1 DEF Supersede, MemoryTypes
  <2>2. CASE k # 0
    <3> DEFINE r == [memories[k] EXCEPT !.status = "superseded"]
    <3>1. rows = [memories EXCEPT ![k] = r]
      BY <2>2 DEF Supersede
    <3>2. r \in Memory
      BY <1>3, <2>2, RecordOfMemory
    <3> HIDE DEF r, rows, k
    <3>3. rows \in Seq(Memory \cup {Deleted}) /\ Len(rows) = Len(memories)
      BY <1>1, <1>3, <2>2, <3>1, <3>2 DEF MemoryTypes
    <3>4. \A i \in Ids : rows[i] = IF i = k THEN r ELSE memories[i]
      BY <1>1, <1>3, <2>2, <3>1 DEF MemoryTypes
    <3> QED BY <3>3, <3>4 DEF r
  <2> QED BY <2>1, <2>2
<1> HIDE DEF rows
<1>6. memories' = Append(rows, new)
  BY DEF rows
<1>7. memories' \in Seq(Memory \cup {Deleted}) /\ Len(memories') = Len(memories) + 1
  <2>1. PICK T : T = Memory \cup {Deleted}
    OBVIOUS
  <2>2. rows \in Seq(T) /\ new \in T
    BY <1>4, <1>5, <2>1
  <2>3. Append(rows, new) \in Seq(T) /\ Len(Append(rows, new)) = Len(rows) + 1
    BY <2>2, AppendProperties
  <2> QED BY <1>5, <1>6, <2>1, <2>3
<1>8. Ids' = Ids \cup {Len(memories) + 1}
  BY <1>1, <1>7 DEF Ids
<1>9. memories'[Len(memories) + 1] = new /\ \A i \in Ids : memories'[i] = rows[i]
  BY <1>1, <1>5, <1>6
<1> QED BY <1>3, <1>4, <1>5, <1>7, <1>8, <1>9, <1>1

LEMMA WriteMemoryStep ==
  ASSUME MemoryInv, NEW w \in Writers, WriteMemory(w)
  PROVE  MemoryInv'
<1> DEFINE n == Len(memories) + 1
<1>0. MemoryTypes /\ Len(memories) \in Nat /\ Ids = 1 .. Len(memories)
      /\ \A i \in Ids : memories[i] = Deleted \/ memories[i] \in Memory
  BY RowsOfMemory DEF MemoryInv
<1>1. PICK f \in Writing : f = writer[w] /\ f.pc = "write"
  <2>1. writer[w] \in {Rest} \cup Writing \cup Promoting /\ writer[w].pc = "write"
    BY <1>0 DEF MemoryTypes, WriteMemory
  <2>2. writer[w] \notin {Rest} \cup Promoting
    BY <2>1 DEF Rest, Promoting
  <2> QED BY <2>1, <2>2
<1>2. /\ Len(memories) < MaxRows /\ (f.prior # 0 => memories[f.prior] # Deleted)
      /\ \E belief \in f.facts :
           memories' = Append(Supersede(memories, f.prior),
             [persona |-> f.persona, label |-> f.label, fact |-> belief,
              raced |-> f.raced, supersedes |-> f.prior, status |-> "live"])
      /\ writer' = [x \in Writers |->
           IF x = w THEN Rest
           ELSE IF x \in InFlight(f.persona, f.label) \ {w} THEN [writer[x] EXCEPT !.raced = TRUE]
           ELSE writer[x]]
  BY <1>1 DEF WriteMemory
<1>3. PICK belief \in f.facts :
        memories' = Append(Supersede(memories, f.prior),
          [persona |-> f.persona, label |-> f.label, fact |-> belief,
           raced |-> f.raced, supersedes |-> f.prior, status |-> "live"])
  BY <1>2
<1> DEFINE new == [persona |-> f.persona, label |-> f.label, fact |-> belief,
                   raced |-> f.raced, supersedes |-> f.prior, status |-> "live"]
<1>4. /\ new.persona = f.persona /\ new.label = f.label /\ new.raced = f.raced
      /\ new.supersedes = f.prior /\ new.status = "live"
  OBVIOUS
<1> HIDE DEF new
<1>5. /\ memories' \in Seq(Memory \cup {Deleted})
      /\ Len(memories') = Len(memories) + 1 /\ Ids' = Ids \cup {n}
      /\ memories'[n] = new /\ new \in Memory
      /\ \A i \in Ids : /\ i # f.prior => memories'[i] = memories[i]
                        /\ i = f.prior =>
                             /\ memories[i] \in Memory
                             /\ memories'[i] = [memories[i] EXCEPT !.status = "superseded"]
  <2>1. f = writer[w] /\ (f.prior # 0 => memories[f.prior] # Deleted)
    BY <1>1, <1>2
  <2> QED BY <1>2, <1>3, <2>1, WrittenRows DEF new
<1>6. n \in Nat /\ n \notin Ids /\ (\A i \in Ids : i < n /\ i \in Nat) /\ f.prior \in Nat
  BY <1>0 DEF Writing
<1>7. /\ f.prior # 0 =>
           /\ f.prior \in Ids /\ memories[f.prior].persona = f.persona
           /\ memories[f.prior].label = f.label
           /\ ~ f.raced => memories[f.prior].status = "live"
      /\ ~ f.raced => LiveUnder(f.persona, f.label) \subseteq {f.prior}
  BY <1>1, <1>2 DEF MemoryInv, WriterKnows
\* What an older row keeps, and what becomes of the one that is replaced.
<1>8. \A i \in Ids :
        /\ memories'[i] = Deleted <=> memories[i] = Deleted
        /\ memories[i] # Deleted =>
             /\ memories'[i].persona = memories[i].persona /\ memories'[i].label = memories[i].label
             /\ memories'[i].raced = memories[i].raced
             /\ memories'[i].supersedes = memories[i].supersedes
             /\ memories'[i].status = IF i = f.prior THEN "superseded" ELSE memories[i].status
  <2> TAKE i \in Ids
  <2>1. CASE i = f.prior
    <3>1. PICK r \in Memory :
            memories[i] = r /\ memories'[i] = [r EXCEPT !.status = "superseded"]
      BY <1>5, <2>1
    <3> DEFINE s == [r EXCEPT !.status = "superseded"]
    <3>2. /\ r # Deleted /\ s \in Memory /\ s.status = "superseded" /\ s.persona = r.persona
          /\ s.label = r.label /\ s.raced = r.raced /\ s.supersedes = r.supersedes
      BY RecordOfMemory
    <3>3. s # Deleted
      BY <3>2, RecordOfMemory
    <3> HIDE DEF s
    <3>4. memories'[i] = s
      BY <3>1 DEF s
    <3> QED BY <2>1, <3>1, <3>2, <3>3, <3>4
  <2>2. CASE i # f.prior
    BY <1>5, <2>2
  <2> QED BY <2>1, <2>2
<1>9. new # Deleted
  BY <1>5, RecordOfMemory
<1>10. \A q, l, i : i \in LiveUnder(q, l)' =>
         \/ i = n /\ q = f.persona /\ l = f.label
         \/ i \in LiveUnder(q, l) /\ i # f.prior
  <2> SUFFICES ASSUME NEW q, NEW l, NEW i, i \in LiveUnder(q, l)'
               PROVE  \/ i = n /\ q = f.persona /\ l = f.label
                      \/ i \in LiveUnder(q, l) /\ i # f.prior
    OBVIOUS
  <2>0. CASE i = n
    <3>1. memories'[i] = new
      BY <1>5, <2>0
    <3> QED BY <1>4, <2>0, <3>1 DEF LiveUnder
  <2> SUFFICES ASSUME i # n PROVE i \in LiveUnder(q, l) /\ i # f.prior
    BY <2>0
  <2>1. i \in Ids /\ memories'[i].status = "live" /\ memories'[i].persona = q /\ memories'[i].label = l
    BY <1>5 DEF LiveUnder
  <2>2. memories[i] # Deleted
    <3>1. Deleted.status # "live"
      BY DEF Deleted
    <3> QED BY <1>8, <2>1, <3>1
  <2> QED BY <1>8, <2>1, <2>2 DEF LiveUnder
<1>11. MemoryTypes'
  <2>1. writer' \in [Writers -> {Rest} \cup Writing \cup Promoting]
    <3>1. ASSUME NEW x \in Writers PROVE writer'[x] \in {Rest} \cup Writing \cup Promoting
      <4>1. CASE x \in InFlight(f.persona, f.label) \ {w}
        <5>1. PICK g \in Writing : g = writer[x]
          <6>1. writer[x] \in {Rest} \cup Writing \cup Promoting /\ writer[x].pc = "write"
            BY <1>0, <4>1 DEF MemoryTypes, InFlight
          <6>2. writer[x] \notin {Rest} \cup Promoting
            BY <6>1 DEF Rest, Promoting
          <6> QED BY <6>1, <6>2
        <5>2. [g EXCEPT !.raced = TRUE] \in Writing
          BY DEF Writing
        <5>3. writer'[x] = [g EXCEPT !.raced = TRUE]
          BY <1>2, <4>1, <5>1
        <5> QED BY <5>2, <5>3
      <4>2. CASE x \notin InFlight(f.persona, f.label) \ {w}
        BY <1>0, <1>2, <4>2 DEF MemoryTypes
      <4> QED BY <4>1, <4>2
    <3> QED BY <1>2, <3>1
  <2>2. Len(memories') <= MaxRows
    BY <1>0, <1>2, <1>5, MemoryAssumption
  <2> QED BY <1>5, <2>1, <2>2 DEF MemoryTypes
<1>12. ASSUME NEW x \in Writers PROVE WriterKnows(x)'
  <2> SUFFICES ASSUME writer'[x].pc = "write" PROVE WriterKnows(x)'
    BY DEF WriterKnows
  <2>1. x # w
    BY <1>2 DEF Rest
  <2>2. PICK g \in Writing : g = writer[x] /\ g.pc = "write"
    <3>1. writer[x].pc = "write"
      BY <1>2, <2>1 DEF InFlight
    <3>2. writer[x] \in {Rest} \cup Writing \cup Promoting
      BY <1>0 DEF MemoryTypes
    <3>3. writer[x] \notin {Rest} \cup Promoting
      BY <3>1 DEF Rest, Promoting
    <3> QED BY <3>1, <3>2, <3>3
  <2>3. PICK h \in Writing : /\ h = writer'[x] /\ h.prior = g.prior /\ h.persona = g.persona /\ h.label = g.label
                             /\ ~ h.raced => ~ g.raced /\ ~ (g.persona = f.persona /\ g.label = f.label)
    <3>1. CASE x \in InFlight(f.persona, f.label)
      <4> DEFINE h == [g EXCEPT !.raced = TRUE]
      <4>1. /\ h \in Writing /\ h.prior = g.prior /\ h.persona = g.persona /\ h.label = g.label
            /\ h.raced = TRUE
        BY DEF Writing
      <4>2. h = writer'[x]
        BY <1>2, <2>1, <2>2, <3>1
      <4> HIDE DEF h
      <4> QED BY <4>1, <4>2
    <3>2. CASE x \notin InFlight(f.persona, f.label)
      <4>1. writer'[x] = g
        BY <1>2, <2>1, <2>2, <3>2
      <4>2. ~ (g.persona = f.persona /\ g.label = f.label)
        BY <2>2, <3>2 DEF InFlight
      <4> QED BY <4>1, <4>2
    <3> QED BY <3>1, <3>2
  <2>4. /\ g.prior # 0 =>
             /\ g.prior \in Ids
             /\ memories[g.prior] # Deleted =>
                  /\ memories[g.prior].persona = g.persona /\ memories[g.prior].label = g.label
                  /\ ~ g.raced => memories[g.prior].status = "live"
        /\ ~ g.raced => LiveUnder(g.persona, g.label) \subseteq {g.prior}
    BY <2>2 DEF MemoryInv, WriterKnows
  <2>5. ASSUME h.prior # 0
        PROVE  /\ h.prior \in Ids'
               /\ memories'[h.prior] # Deleted =>
                    /\ memories'[h.prior].persona = h.persona /\ memories'[h.prior].label = h.label
                    /\ ~ h.raced => memories'[h.prior].status = "live"
    <3>1. g.prior \in Ids /\ h.prior = g.prior
      BY <2>3, <2>4, <2>5
    <3>2. h.prior \in Ids'
      BY <1>5, <3>1
    <3>3. ASSUME memories'[g.prior] # Deleted
          PROVE  /\ memories'[g.prior].persona = g.persona /\ memories'[g.prior].label = g.label
                 /\ ~ h.raced => memories'[g.prior].status = "live"
      <4>1. memories[g.prior] # Deleted
        BY <1>8, <3>1, <3>3
      <4>2. memories'[g.prior].persona = g.persona /\ memories'[g.prior].label = g.label
        BY <1>8, <2>3, <2>4, <2>5, <3>1, <4>1
      <4>3. ~ h.raced => g.prior # f.prior
        BY <1>7, <2>3, <2>4, <2>5, <3>1, <4>1
      <4>4. ~ h.raced => memories'[g.prior].status = "live"
        BY <1>8, <2>3, <2>4, <2>5, <3>1, <4>1, <4>3
      <4> QED BY <4>2, <4>4
    <3> QED BY <2>3, <3>1, <3>2, <3>3
  <2>6. ASSUME ~ h.raced PROVE LiveUnder(h.persona, h.label)' \subseteq {h.prior}
    BY <1>10, <2>3, <2>4, <2>6
  <2> QED BY <2>3, <2>5, <2>6 DEF WriterKnows
<1>13. OneLiveUnlessRaced'
  <2> SUFFICES ASSUME NEW q \in Staff, NEW l \in Labels,
                      NEW i \in LiveUnder(q, l)', NEW j \in LiveUnder(q, l)', i < j
               PROVE  memories'[j].raced
    BY DEF OneLiveUnlessRaced
  <2>1. CASE j = n
    <3>1. i \in LiveUnder(q, l) /\ i # f.prior
      BY <1>6, <1>10, <2>1
    <3>2. q = f.persona /\ l = f.label
      <4>1. n \notin LiveUnder(q, l)
        BY <1>6 DEF LiveUnder
      <4> QED BY <1>10, <2>1, <4>1
    <3>3. f.raced
      BY <1>7, <3>1, <3>2
    <3> QED BY <1>4, <1>5, <2>1, <3>3
  <2>2. CASE j # n
    <3>1. j \in LiveUnder(q, l) /\ j \in Ids /\ memories[j] # Deleted
      BY <1>10, <2>2 DEF LiveUnder, Deleted
    <3>2. i \in LiveUnder(q, l)
      BY <1>6, <1>10, <3>1
    <3>3. memories[j].raced
      BY <3>1, <3>2 DEF MemoryInv, OneLiveUnlessRaced
    <3> QED BY <1>8, <3>1, <3>3
  <2> QED BY <2>1, <2>2
<1>14. \A i, j : j \in Superseders(i)' => (j \in Superseders(i) /\ i # n) \/ (j = n /\ i = f.prior)
  <2> SUFFICES ASSUME NEW i, NEW j, j \in Superseders(i)'
               PROVE  (j \in Superseders(i) /\ i # n) \/ (j = n /\ i = f.prior)
    OBVIOUS
  <2>1. j \in Ids \cup {n} /\ memories'[j] # Deleted /\ memories'[j].supersedes = i
    BY <1>5 DEF Superseders
  <2>2. CASE j = n
    <3>1. memories'[j] = new
      BY <1>5, <2>2
    <3> QED BY <1>4, <2>1, <2>2, <3>1
  <2>3. CASE j \in Ids
    <3>1. memories[j] # Deleted /\ memories[j].supersedes = i
      BY <1>8, <2>1, <2>3
    <3>2. i < j
      BY <2>3, <3>1 DEF MemoryInv, RowFollows
    <3>3. i # n
      BY <1>6, <2>3, <3>2
    <3>4. j \in Superseders(i)
      BY <2>3, <3>1 DEF Superseders
    <3> QED BY <3>3, <3>4
  <2> QED BY <2>1, <2>2, <2>3
<1>15. ASSUME NEW i \in Ids', memories'[i] # Deleted PROVE RowFollows(i)'
  <2>1. CASE i = n
    <3>1. /\ memories'[i] = new /\ new.supersedes = f.prior /\ new.status = "live"
      BY <1>4, <1>5, <2>1
    <3>2. f.prior < n
      BY <1>6, <1>7
    <3>3. Superseders(i)' = {}
      BY <1>6, <1>7, <1>14, <2>1
    <3> QED BY <2>1, <3>1, <3>2, <3>3 DEF RowFollows
  <2>2. CASE i # n
    <3>1. i \in Ids /\ memories[i] # Deleted
      BY <1>5, <1>8, <2>2, <1>15
    <3>2. RowFollows(i)
      BY <3>1 DEF MemoryInv
    <3>3. memories'[i].supersedes < i
      BY <1>8, <3>1, <3>2 DEF RowFollows
    <3>4. ASSUME NEW j \in Superseders(i)'
          PROVE  /\ memories'[i].status = "superseded"
                 /\ memories'[j].persona = memories'[i].persona
                 /\ memories'[j].label = memories'[i].label
      <4>1. CASE j \in Superseders(i)
        <5>1. /\ j \in Ids /\ memories[j] # Deleted /\ memories[i].status = "superseded"
              /\ memories[j].persona = memories[i].persona /\ memories[j].label = memories[i].label
          BY <3>2, <4>1 DEF RowFollows, Superseders
        <5> QED BY <1>8, <3>1, <5>1
      <4>2. CASE j = n /\ i = f.prior
        <5>1. memories'[j] = new /\ f.prior # 0
          BY <1>5, <1>6, <1>0, <3>1, <4>2
        <5> QED BY <1>4, <1>7, <1>8, <3>1, <4>2, <5>1
      <4> QED BY <1>14, <4>1, <4>2
    <3>5. ASSUME NEW j \in Superseders(i)', NEW k \in Superseders(i)', j < k
          PROVE  memories'[k].raced
      <4>1. CASE k = n
        <5>1. i = f.prior
          BY <1>6, <1>14, <4>1 DEF Superseders
        <5>2. j \in Superseders(i)
          BY <1>6, <1>14, <3>5, <4>1
        <5>3. memories[i].status = "superseded"
          BY <3>2, <5>2 DEF RowFollows
        <5>4. f.raced
          BY <1>0, <1>7, <3>1, <5>1, <5>3
        <5> QED BY <1>4, <1>5, <4>1, <5>4
      <4>2. CASE k # n
        <5>1. k \in Superseders(i) /\ k \in Ids /\ memories[k] # Deleted
          BY <1>14, <4>2 DEF Superseders
        <5>2. j \in Superseders(i)
          BY <1>6, <1>14, <3>5, <5>1
        <5>3. memories[k].raced
          BY <3>2, <3>5, <5>1, <5>2 DEF RowFollows
        <5> QED BY <1>8, <5>1, <5>3
      <4> QED BY <4>1, <4>2
    <3>6. ASSUME memories'[i].status = "superseded", Superseders(i)' = {}
          PROVE  \E j \in Ids' : j > i /\ memories'[j] = Deleted
      <4>1. i # f.prior
        <5>1. n \in Superseders(f.prior)'
          BY <1>4, <1>5, <1>9 DEF Superseders
        <5> QED BY <3>6, <5>1
      <4>2. memories[i].status = "superseded"
        BY <1>8, <3>1, <3>6, <4>1
      <4>3. Superseders(i) = {}
        <5>1. ASSUME NEW j \in Superseders(i) PROVE j \in Superseders(i)'
          <6>1. j \in Ids /\ memories[j] # Deleted /\ memories[j].supersedes = i
            BY DEF Superseders
          <6> QED BY <1>5, <1>8, <6>1 DEF Superseders
        <5> QED BY <3>6, <5>1
      <4>4. PICK j \in Ids : j > i /\ memories[j] = Deleted
        BY <3>2, <4>2, <4>3 DEF RowFollows
      <4> QED BY <1>5, <1>8, <4>4
    <3> QED BY <3>3, <3>4, <3>5, <3>6 DEF RowFollows
  <2> QED BY <2>1, <2>2
<1> QED BY <1>11, <1>12, <1>13, <1>15 DEF MemoryInv

\* A row that is deleted stays gone, and the rows that point to it forget it.
LEMMA DeleteStep ==
  ASSUME MemoryInv, NEW gone \in SUBSET Ids, Delete(gone), UNCHANGED writer
  PROVE  MemoryInv'
<1>0. MemoryTypes /\ Len(memories) \in Nat /\ Ids = 1 .. Len(memories)
      /\ \A i \in Ids : memories[i] = Deleted \/ memories[i] \in Memory
  BY RowsOfMemory DEF MemoryInv
<1> DEFINE Left(i) == IF i \in gone \/ memories[i] = Deleted THEN Deleted
                      ELSE [memories[i] EXCEPT !.supersedes = IF @ \in gone THEN 0 ELSE @]
<1>1. memories' = [i \in Ids |-> Left(i)]
  BY DEF Delete
<1>2. \A i \in Ids :
        \/ (i \in gone \/ memories[i] = Deleted) /\ Left(i) = Deleted
        \/ /\ i \notin gone /\ memories[i] # Deleted /\ Left(i) \in Memory /\ Left(i) # Deleted
           /\ Left(i).persona = memories[i].persona /\ Left(i).label = memories[i].label
           /\ Left(i).status = memories[i].status /\ Left(i).raced = memories[i].raced
           /\ Left(i).supersedes = IF memories[i].supersedes \in gone THEN 0 ELSE memories[i].supersedes
  <2> TAKE i \in Ids
  <2>1. CASE i \in gone \/ memories[i] = Deleted
    BY <2>1
  <2>2. CASE ~ (i \in gone \/ memories[i] = Deleted)
    <3>1. PICK r \in Memory : r = memories[i]
      BY <1>0, <2>2
    <3> DEFINE z == IF r.supersedes \in gone THEN 0 ELSE r.supersedes
    <3>2. z \in 0 .. MaxRows
      BY MemoryAssumption DEF Memory
    <3>3. /\ [r EXCEPT !.supersedes = z] \in Memory
          /\ [r EXCEPT !.supersedes = z].persona = r.persona
          /\ [r EXCEPT !.supersedes = z].label = r.label
          /\ [r EXCEPT !.supersedes = z].status = r.status
          /\ [r EXCEPT !.supersedes = z].raced = r.raced
          /\ [r EXCEPT !.supersedes = z].supersedes = z
      <4> HIDE DEF z
      <4> QED BY <3>2 DEF Memory
    <3>4. Left(i) = [r EXCEPT !.supersedes = z]
      BY <2>2, <3>1
    <3>5. [r EXCEPT !.supersedes = z] # Deleted
      <4>1. \A g \in Memory : g # Deleted
        BY RecordOfMemory
      <4> HIDE DEF z
      <4> QED BY <3>3, <4>1
    <3> QED BY <2>2, <3>1, <3>3, <3>4, <3>5
  <2> QED BY <2>1, <2>2
<1> HIDE DEF Left
<1>3. memories' \in Seq(Memory \cup {Deleted}) /\ Len(memories') = Len(memories) /\ Ids' = Ids
      /\ \A i \in Ids : memories'[i] = Left(i)
  <2>1. \A i \in 1 .. Len(memories) : Left(i) \in Memory \cup {Deleted}
    BY <1>0, <1>2
  <2>2. memories' = [i \in 1 .. Len(memories) |-> Left(i)]
    BY <1>0, <1>1
  <2>3. memories' \in [1 .. Len(memories) -> Memory \cup {Deleted}]
    BY <2>1, <2>2
  <2>4. memories' \in Seq(Memory \cup {Deleted}) /\ Len(memories') = Len(memories)
    BY <1>0, <2>3
  <2> QED BY <1>0, <2>2, <2>4 DEF Ids
\* What is left of a row, and which rows are gone.
<1>4. \A i \in Ids :
        /\ memories'[i] = Deleted <=> i \in gone \/ memories[i] = Deleted
        /\ memories'[i] # Deleted =>
             /\ memories'[i].persona = memories[i].persona /\ memories'[i].label = memories[i].label
             /\ memories'[i].status = memories[i].status /\ memories'[i].raced = memories[i].raced
             /\ memories'[i].supersedes =
                  IF memories[i].supersedes \in gone THEN 0 ELSE memories[i].supersedes
  <2> TAKE i \in Ids
  <2>1. memories'[i] = Left(i)
    BY <1>3
  <2> QED BY <1>2, <2>1
<1>5. 0 \notin Ids /\ \A i \in Ids : i \in Nat
  BY <1>0
<1>6. MemoryTypes'
  BY <1>0, <1>3 DEF MemoryTypes
<1>7. \A q, l, i : i \in LiveUnder(q, l)' => i \in LiveUnder(q, l) /\ i \in Ids /\ memories'[i] # Deleted
  <2> SUFFICES ASSUME NEW q, NEW l, NEW i, i \in LiveUnder(q, l)'
               PROVE  i \in LiveUnder(q, l) /\ i \in Ids /\ memories'[i] # Deleted
    OBVIOUS
  <2>1. i \in Ids /\ memories'[i].status = "live" /\ memories'[i].persona = q /\ memories'[i].label = l
    BY <1>3 DEF LiveUnder
  <2>2. memories'[i] # Deleted
    BY <2>1 DEF Deleted
  <2> QED BY <1>4, <2>1, <2>2 DEF LiveUnder
<1>8. ASSUME NEW w \in Writers PROVE WriterKnows(w)'
  <2>1. WriterKnows(w)
    BY DEF MemoryInv
  <2> QED BY <1>3, <1>4, <1>7, <2>1 DEF WriterKnows
<1>9. OneLiveUnlessRaced'
  <2> SUFFICES ASSUME NEW q \in Staff, NEW l \in Labels,
                      NEW i \in LiveUnder(q, l)', NEW j \in LiveUnder(q, l)', i < j
               PROVE  memories'[j].raced
    BY DEF OneLiveUnlessRaced
  <2>1. i \in LiveUnder(q, l) /\ j \in LiveUnder(q, l) /\ j \in Ids /\ memories'[j] # Deleted
    BY <1>7
  <2>2. memories[j].raced
    BY <2>1 DEF MemoryInv, OneLiveUnlessRaced
  <2> QED BY <1>4, <2>1, <2>2
<1>10. ASSUME NEW i \in Ids, NEW j \in Superseders(i)'
       PROVE  /\ j \in Superseders(i) /\ j \in Ids /\ memories'[j] # Deleted
  <2>1. j \in Ids /\ memories'[j] # Deleted /\ memories'[j].supersedes = i
    BY <1>3 DEF Superseders
  <2>2. memories[j] # Deleted /\ memories[j].supersedes = i
    BY <1>4, <1>5, <2>1
  <2> QED BY <2>1, <2>2 DEF Superseders
<1>11. ASSUME NEW i \in Ids', memories'[i] # Deleted PROVE RowFollows(i)'
  <2>1. i \in Ids /\ memories[i] # Deleted /\ i \notin gone
    BY <1>3, <1>4, <1>11
  <2>2. RowFollows(i)
    BY <2>1 DEF MemoryInv
  <2>3. memories'[i].supersedes < i
    BY <1>0, <1>4, <1>11, <2>1, <2>2 DEF RowFollows
  <2>4. ASSUME NEW j \in Superseders(i)'
        PROVE  /\ memories'[i].status = "superseded"
               /\ memories'[j].persona = memories'[i].persona
               /\ memories'[j].label = memories'[i].label
    <3>1. j \in Superseders(i) /\ j \in Ids /\ memories'[j] # Deleted
      BY <1>10, <2>1
    <3>2. /\ memories[i].status = "superseded"
          /\ memories[j].persona = memories[i].persona /\ memories[j].label = memories[i].label
      BY <2>2, <3>1 DEF RowFollows
    <3> QED BY <1>4, <1>11, <2>1, <3>1, <3>2
  <2>5. ASSUME NEW j \in Superseders(i)', NEW k \in Superseders(i)', j < k
        PROVE  memories'[k].raced
    <3>1. /\ j \in Superseders(i) /\ k \in Superseders(i) /\ k \in Ids /\ memories'[k] # Deleted
      BY <1>10, <2>1
    <3>2. memories[k].raced
      BY <2>2, <2>5, <3>1 DEF RowFollows
    <3> QED BY <1>4, <3>1, <3>2
  <2>6. ASSUME memories'[i].status = "superseded", Superseders(i)' = {}
        PROVE  \E j \in Ids' : j > i /\ memories'[j] = Deleted
    <3>1. memories[i].status = "superseded"
      BY <1>4, <1>11, <2>1, <2>6
    <3>2. CASE Superseders(i) = {}
      <4>1. PICK j \in Ids : j > i /\ memories[j] = Deleted
        BY <2>2, <3>1, <3>2 DEF RowFollows
      <4> QED BY <1>3, <1>4, <4>1
    <3>3. CASE Superseders(i) # {}
      <4>1. PICK j \in Ids : memories[j] # Deleted /\ memories[j].supersedes = i
        BY <3>3 DEF Superseders
      <4>2. RowFollows(j)
        BY <4>1 DEF MemoryInv
      <4>3. i < j
        BY <4>1, <4>2 DEF RowFollows
      <4>4. j \in gone
        <5> SUFFICES ASSUME j \notin gone PROVE FALSE
          OBVIOUS
        <5>1. memories'[j] # Deleted /\ memories'[j].supersedes = i
          BY <1>4, <2>1, <4>1
        <5> QED BY <1>3, <2>6, <4>1, <5>1 DEF Superseders
      <4> QED BY <1>3, <1>4, <1>5, <2>1, <4>1, <4>3, <4>4
    <3> QED BY <3>2, <3>3
  <2> QED BY <2>3, <2>4, <2>5, <2>6 DEF RowFollows
<1> QED BY <1>3, <1>6, <1>8, <1>9, <1>11 DEF MemoryInv

\* What each label holds follows from the invariant.
LEMMA SuccessorsRetire == MemoryInv => RetiredByASuccessor
<1> SUFFICES ASSUME MemoryInv, NEW i \in Ids, memories[i] # Deleted
             PROVE  LET later == {j \in Ids : /\ j > i /\ memories[j] # Deleted
                                              /\ memories[j].supersedes = i}
                    IN  /\ \A j \in later : /\ memories[i].status = "superseded"
                                             /\ memories[j].persona = memories[i].persona
                                             /\ memories[j].label = memories[i].label
                        /\ Cardinality(later) > 1 => \E j \in later : memories[j].raced
                        /\ memories[i].status = "superseded" /\ later = {} =>
                             \E j \in Ids : j > i /\ memories[j] = Deleted
  BY DEF RetiredByASuccessor
<1> DEFINE later == {j \in Ids : j > i /\ memories[j] # Deleted /\ memories[j].supersedes = i}
<1>1. Len(memories) \in Nat /\ Ids = 1 .. Len(memories)
  BY RowsOfMemory DEF MemoryInv
<1>2. RowFollows(i)
  BY DEF MemoryInv
<1>3. later = Superseders(i)
  <2>1. ASSUME NEW j \in Superseders(i) PROVE j > i
    <3>1. j \in Ids /\ memories[j] # Deleted /\ memories[j].supersedes = i
      BY DEF Superseders
    <3>2. RowFollows(j)
      BY <3>1 DEF MemoryInv
    <3> QED BY <1>1, <3>1, <3>2 DEF RowFollows
  <2> QED BY <2>1 DEF Superseders
<1>4. ASSUME Cardinality(Superseders(i)) > 1 PROVE \E j \in Superseders(i) : memories[j].raced
  <2>1. Superseders(i) \subseteq Ids
    BY DEF Superseders
  <2>2. PICK j \in Superseders(i) : TRUE
    <3>1. Superseders(i) # {}
      BY <1>4, FS_EmptySet
    <3> QED BY <3>1
  <2>3. PICK k \in Superseders(i) : k # j
    <3> SUFFICES ASSUME Superseders(i) = {j} PROVE FALSE
      BY <2>2
    <3>1. Cardinality({j}) = 1
      BY FS_Singleton
    <3> QED BY <1>4, <3>1
  <2>4. j \in Int /\ k \in Int
    BY <1>1, <2>1
  <2>5. j < k \/ k < j
    BY <2>3, <2>4
  <2> QED BY <1>2, <2>5 DEF RowFollows
<1> HIDE DEF later
<1>5. /\ \A j \in later : /\ memories[i].status = "superseded"
                          /\ memories[j].persona = memories[i].persona
                          /\ memories[j].label = memories[i].label
      /\ memories[i].status = "superseded" /\ later = {} =>
           \E j \in Ids : j > i /\ memories[j] = Deleted
  BY <1>2, <1>3 DEF RowFollows
<1>6. Cardinality(later) > 1 => \E j \in later : memories[j].raced
  BY <1>3, <1>4
<1> QED BY <1>5, <1>6 DEF later

LEMMA MemoryInvHolds == MemorySpec => []MemoryInv
<1>1. MemoryInit => MemoryInv
  <2> SUFFICES ASSUME MemoryInit PROVE MemoryInv
    OBVIOUS
  <2>1. memories = <<>> /\ writer = [w \in Writers |-> Rest] /\ Ids = {}
    BY DEF MemoryInit, Ids
  <2>2. MemoryTypes
    BY <2>1, MemoryAssumption DEF MemoryTypes
  <2>3. \A w \in Writers : WriterKnows(w)
    BY <2>1 DEF WriterKnows, Rest
  <2>4. OneLiveUnlessRaced
    BY <2>1 DEF OneLiveUnlessRaced, LiveUnder
  <2> QED BY <2>1, <2>2, <2>3, <2>4 DEF MemoryInv
<1>2. MemoryInv /\ [MemoryNext]_memoryVars => MemoryInv'
  <2> SUFFICES ASSUME MemoryInv, [MemoryNext]_memoryVars PROVE MemoryInv'
    OBVIOUS
  <2>0. MemoryTypes /\ \A i \in Ids : memories[i] = Deleted \/ memories[i] \in Memory
    BY RowsOfMemory DEF MemoryInv
  <2>1. CASE UNCHANGED memoryVars
    BY <2>1 DEF memoryVars, MemoryInv, MemoryTypes, WriterKnows, OneLiveUnlessRaced, RowFollows,
       Superseders, LiveUnder, Ids
  <2>2. ASSUME NEW w \in Writers, Remember(w) PROVE MemoryInv'
    <3>1. PICK p \in Staff, l \in Topics : SelectPrior(w, p, l, Facts)
      BY <2>2 DEF Remember
    <3>2. l \in Labels /\ Facts \in SUBSET Facts
      BY DEF Labels
    <3> QED BY <3>1, <3>2, SelectStep
  <2>3. ASSUME NEW w \in Writers, RememberJobSummary(w) PROVE MemoryInv'
    <3>1. PICK p \in Staff, l \in Reserved :
            SelectPrior(w, p, l, {f \in Facts : f.importance = 0 /\ ~ f.sensitive})
      BY <2>3 DEF RememberJobSummary
    <3>2. l \in Labels /\ {f \in Facts : f.importance = 0 /\ ~ f.sensitive} \in SUBSET Facts
      BY DEF Labels
    <3> QED BY <3>1, <3>2, SelectStep
  <2>4. ASSUME NEW w \in Writers, ReadOwnMemory(w) PROVE MemoryInv'
    <3>0. PICK p \in Staff, l \in Topics : \E i \in LiveUnder(p, l) :
            /\ Manager[p] # Nobody
            /\ writer' = [writer EXCEPT ![w] = [pc |-> "promote", persona |-> p, label |-> l,
                                                fact |-> memories[i].fact]]
            /\ UNCHANGED memories
      BY <2>4 DEF ReadOwnMemory
    <3>1. PICK i \in LiveUnder(p, l) :
            /\ Manager[p] # Nobody
            /\ writer' = [writer EXCEPT ![w] = [pc |-> "promote", persona |-> p, label |-> l,
                                                fact |-> memories[i].fact]]
            /\ UNCHANGED memories
      BY <3>0
    <3>2. memories[i].fact \in Facts
      <4>1. i \in Ids /\ memories[i].status = "live"
        BY DEF LiveUnder
      <4>2. memories[i] \in Memory
        BY <2>0, <4>1 DEF Deleted
      <4> QED BY <4>2 DEF Memory
    <3>3. [pc |-> "promote", persona |-> p, label |-> l, fact |-> memories[i].fact] \in Promoting
      BY <3>1, <3>2 DEF Promoting
    <3> QED BY <3>1, <3>3, WriterMoves
  <2>5. ASSUME NEW w \in Writers, PromoteMemory(w) PROVE MemoryInv'
    <3>1. PICK own \in Promoting : own = writer[w]
      <4>1. writer[w] \in {Rest} \cup Writing \cup Promoting /\ writer[w].pc = "promote"
        BY <2>0, <2>5 DEF MemoryTypes, PromoteMemory
      <4>2. writer[w] \notin {Rest} \cup Writing
        BY <4>1 DEF Rest, Writing
      <4> QED BY <4>1, <4>2
    <3>2. SelectPrior(w, Manager[own.persona], Promoted(own.persona, own.label), {own.fact})
      BY <2>5, <3>1 DEF PromoteMemory
    <3>3. own.persona \in Staff /\ own.label \in Topics /\ own.fact \in Facts
          /\ Manager[own.persona] # Nobody
      BY DEF Promoting
    <3>4. Manager[own.persona] \in Staff
      BY <3>3, MemoryAssumption
    <3>5. Promoted(own.persona, own.label) \in Labels /\ {own.fact} \in SUBSET Facts
      BY <3>3 DEF Labels
    <3> QED BY <3>2, <3>4, <3>5, SelectStep
  <2>6. ASSUME NEW w \in Writers, AbandonWrite(w) PROVE MemoryInv'
    BY <2>6, WriterMoves DEF AbandonWrite
  <2>7. ASSUME NEW p \in Staff, NEW l \in Topics, ForgetMemoryByLabel(p, l) PROVE MemoryInv'
    <3>1. LiveUnder(p, l) \in SUBSET Ids
      BY DEF LiveUnder
    <3> QED BY <2>7, <3>1, DeleteStep DEF ForgetMemoryByLabel
  <2>8. ASSUME NEW p \in Staff, NEW i \in Ids, ForgetMemory(p, i) PROVE MemoryInv'
    <3>1. {i} \in SUBSET Ids
      OBVIOUS
    <3> QED BY <2>8, <3>1, DeleteStep DEF ForgetMemory
  <2>9. CASE MemoryNext
    BY <2>2, <2>3, <2>4, <2>5, <2>6, <2>7, <2>8, <2>9, WriteMemoryStep DEF MemoryNext
  <2> QED BY <2>1, <2>9
<1> QED BY <1>1, <1>2, PTL DEF MemorySpec

-----------------------------------------------------------------------------
(* What the prompt is told of them: as many of the first in their order as  *)
(* fit.                                                                     *)

Present == {i \in Ids : memories[i] \in Memory}
SizesOf(S) == [n \in 1 .. Len(memories) |-> IF n \in S THEN memories[n].fact.size ELSE 0]

LEMMA SizesOfPresent ==
  ASSUME MemoryTypes
  PROVE  /\ Len(memories) \in Nat /\ Present \subseteq 1 .. Len(memories)
         /\ \A i \in Present : /\ memories[i].fact.size \in Nat /\ memories[i].fact.importance \in Nat
         /\ \A S \in SUBSET Present : \A n \in 1 .. Len(memories) : SizesOf(S)[n] \in Nat
<1>1. Len(memories) \in Nat /\ Ids = 1 .. Len(memories)
  BY RowsOfMemory
<1>2. \A i \in Present : memories[i].fact.size \in Nat /\ memories[i].fact.importance \in Nat
  BY MemoryAssumption DEF Present, Memory
<1> QED BY <1>1, <1>2 DEF SizesOf, Present

LEMMA TotalAdds ==
  ASSUME MemoryTypes
  PROVE  /\ Total({}) = 0
         /\ \A S \in SUBSET Present : \A x \in Present \ S :
              Total(S \cup {x}) = Total(S) + memories[x].fact.size
<1>1. /\ Len(memories) \in Nat /\ Present \subseteq 1 .. Len(memories)
      /\ \A i \in Present : memories[i].fact.size \in Nat
      /\ \A S \in SUBSET Present : \A n \in 1 .. Len(memories) : SizesOf(S)[n] \in Nat
  BY SizesOfPresent
<1>2. \A S : Total(S) = RunningSum(SizesOf(S), Len(memories))[Len(memories)]
  BY DEF Total, SizesOf
<1>3. Total({}) = 0
  <2>1. \A n \in 1 .. Len(memories) : SizesOf({})[n] = 0
    BY DEF SizesOf
  <2> QED BY <1>1, <1>2, <2>1, NoSizes
<1>4. ASSUME NEW S \in SUBSET Present, NEW x \in Present \ S
      PROVE  Total(S \cup {x}) = Total(S) + memories[x].fact.size
  <2>1. x \in 1 .. Len(memories) /\ S \cup {x} \in SUBSET Present
    BY <1>1
  <2> DEFINE f == SizesOf(S)
             g == SizesOf(S \cup {x})
  <2>2. \A n \in 1 .. Len(memories) : f[n] \in Nat /\ g[n] \in Nat
    BY <1>1, <2>1
  <2>3. /\ \A n \in (1 .. Len(memories)) \ {x} : g[n] = f[n]
        /\ f[x] = 0 /\ g[x] = memories[x].fact.size
    BY <2>1 DEF SizesOf
  <2> HIDE DEF f, g
  <2>4. RunningSum(g, Len(memories))[Len(memories)]
          = RunningSum(f, Len(memories))[Len(memories)] + g[x]
    BY <1>1, <2>1, <2>2, <2>3, OneMore
  <2> QED BY <1>2, <2>3, <2>4 DEF f, g
<1> QED BY <1>3, <1>4

LEMMA PromptIsTheBest ==
  ASSUME MemoryTypes, NEW p \in Staff
  PROVE  LET shown == Injected(p)
             left == Candidates(p) \ shown
         IN  /\ shown \subseteq Candidates(p)
             /\ Candidates(p) # {} => shown # {}
             /\ Total(shown) <= CharBudget \/ Cardinality(shown) = 1
             /\ \A i \in shown, j \in left :
                  LET a == memories[i].fact.importance
                      b == memories[j].fact.importance
                  IN  a >= b /\ (a = b => j < i)
             /\ left = {} \/ Cardinality(shown) = MaxInjected
                  \/ \E j \in left : Total(shown \cup {j}) > CharBudget
<1> DEFINE C == Candidates(p)
           N == Cardinality(C)
           R == {ij \in C \X C : RanksBefore(ij[1], ij[2])}
           order == Ranked(p)
           last == IF N < MaxInjected THEN N ELSE MaxInjected
           size == [n \in 1 .. last |-> memories[order[n]].fact.size]
           spent == RunningSum(size, last)
           Stops(n) == n = last \/ (n > 0 /\ spent[n + 1] > CharBudget)
           taken == CHOOSE n \in 0 .. last : Stops(n) /\ \A k \in 0 .. n - 1 : ~ Stops(k)
           Front(t) == {order[n] : n \in 1 .. t}
<1>1. /\ Len(memories) \in Nat /\ Present \subseteq 1 .. Len(memories)
      /\ \A i \in Present : memories[i].fact.size \in Nat /\ memories[i].fact.importance \in Nat
  BY SizesOfPresent
<1>2. C \subseteq Present
  <2>1. \A i \in Ids : memories[i].status = "live" => memories[i] \in Memory
    BY RowsOfMemory DEF Deleted
  <2> QED BY <2>1 DEF Candidates, Present
<1>3. IsFiniteSet(C)
  <2> HIDE DEF C
  <2>1. IsFiniteSet(1 .. Len(memories))
    BY <1>1, FS_Interval
  <2>2. C \in SUBSET (1 .. Len(memories))
    BY <1>1, <1>2
  <2> QED BY <2>1, <2>2, FS_Subset
<1>4. order = InOrder(C, R)
  BY DEF Ranked
<1>5. \A i, j \in C : /\ <<i, j>> \in R <=> RanksBefore(i, j)
                      /\ i \in Nat /\ j \in Nat
  <2> HIDE DEF C
  <2>1. \A i \in C : i \in Nat
    BY <1>1, <1>2
  <2>2. \A i, j \in C : <<i, j>> \in R <=> RanksBefore(i, j)
    OBVIOUS
  <2> QED BY <2>1, <2>2
<1>6. \A i, j \in C : RanksBefore(i, j) <=>
        LET a == memories[i].fact.importance
            b == memories[j].fact.importance
        IN  a > b \/ (a = b /\ i > j)
  BY DEF RanksBefore
<1> HIDE DEF C, R, order
<1>7. /\ N \in Nat /\ order \in [1 .. N -> C]
      /\ \A n, m \in 1 .. N : n < m => <<order[n], order[m]>> \in R
      /\ \A i \in C : \E n \in 1 .. N : order[n] = i
  <2> DEFINE imp == [i \in C |-> memories[i].fact.importance]
  <2>1. imp \in [C -> Nat]
    BY <1>1, <1>2
  <2>2. \A i, j \in C : <<i, j>> \in R <=> (imp[i] > imp[j] \/ (imp[i] = imp[j] /\ i > j))
    BY <1>5, <1>6
  <2> HIDE DEF imp
  <2>3. \A i \in C : i \in Nat /\ imp[i] \in Nat
    BY <1>5, <2>1
  <2>4. \A i \in C : <<i, i>> \notin R
    BY <2>2, <2>3
  <2>5. \A i, j, k \in C : <<i, j>> \in R /\ <<j, k>> \in R => <<i, k>> \in R
    BY <2>2, <2>3
  <2>6. ASSUME NEW i \in C, NEW j \in C PROVE i = j \/ <<i, j>> \in R \/ <<j, i>> \in R
    <3>1. i \in Nat /\ j \in Nat /\ imp[i] \in Nat /\ imp[j] \in Nat
      BY <2>3
    <3>2. i = j \/ (imp[i] > imp[j] \/ (imp[i] = imp[j] /\ i > j))
               \/ (imp[j] > imp[i] \/ (imp[j] = imp[i] /\ j > i))
      BY <3>1
    <3> QED BY <2>2, <3>2
  <2> HIDE DEF N
  <2>7. /\ Cardinality(C) \in Nat
        /\ InOrder(C, R) \in [1 .. Cardinality(C) -> C]
        /\ \A n, m \in 1 .. Cardinality(C) : n < m => <<InOrder(C, R)[n], InOrder(C, R)[m]>> \in R
        /\ \A i \in C : \E n \in 1 .. Cardinality(C) : InOrder(C, R)[n] = i
    <3>1. \A i, j \in C : i = j \/ <<i, j>> \in R \/ <<j, i>> \in R
      BY <2>6
    <3>2. Ordered(C, R)
      BY <1>3, <2>4, <2>5, <3>1 DEF Ordered
    <3> QED BY <3>2, InOrderFacts
  <2> QED BY <1>4, <2>7 DEF N
<1>8. \A n, m \in 1 .. N : order[n] = order[m] => n = m
  <2> SUFFICES ASSUME NEW n \in 1 .. N, NEW m \in 1 .. N, order[n] = order[m], n < m PROVE FALSE
    BY <1>7
  <2>1. <<order[n], order[m]>> \in R
    BY <1>7
  <2>2. PICK x \in C : x = order[n]
    BY <1>7
  <2>3. RanksBefore(x, x)
    BY <1>5, <2>1, <2>2
  <2>4. memories[x].fact.importance \in Nat /\ x \in Nat
    BY <1>1, <1>2, <1>5
  <2> QED BY <1>6, <2>3, <2>4
<1> HIDE DEF N
<1>9. /\ last \in 0 .. N /\ last <= MaxInjected /\ (last = N \/ last = MaxInjected)
      /\ (N # 0 => last # 0) /\ MaxInjected \in Nat /\ CharBudget \in Nat
  BY <1>7, MemoryAssumption
<1> HIDE DEF last
<1>10. \A n \in 1 .. last : /\ order[n] \in C /\ size[n] = memories[order[n]].fact.size
                            /\ size[n] \in Nat
  <2> TAKE n \in 1 .. last
  <2>1. n \in 1 .. N
    BY <1>7, <1>9
  <2>2. order[n] \in C
    BY <1>7, <2>1
  <2>3. memories[order[n]].fact.size \in Nat
    BY <1>1, <1>2, <2>2
  <2> QED BY <2>2, <2>3
<1> HIDE DEF size
<1>11. /\ spent \in [0 .. last -> Nat] /\ spent[0] = 0
       /\ \A n \in 1 .. last : spent[n] = spent[n - 1] + size[n]
  <2>1. last \in Nat
    BY <1>7, <1>9
  <2> QED BY <1>10, <2>1, RunningSumFacts
<1> HIDE DEF spent
<1>12. taken \in 0 .. last /\ Stops(taken) /\ \A k \in 0 .. taken - 1 : ~ Stops(k)
  <2> DEFINE Ends == {n \in 0 .. last : Stops(n)}
  <2>1. Ends \subseteq Nat /\ last \in Ends
    BY <1>7, <1>9
  <2> HIDE DEF Stops
  <2>2. PICK m \in Ends : \A n \in Ends : m <= n
    <3> HIDE DEF Ends
    <3> QED BY <2>1, LeastMember
  <2>3. m \in 0 .. last /\ Stops(m) /\ \A k \in 0 .. m - 1 : ~ Stops(k)
    <3>1. ASSUME NEW k \in 0 .. m - 1, Stops(k) PROVE FALSE
      <4>1. k \in Ends /\ m \in Nat /\ k < m
        BY <1>7, <1>9, <3>1
      <4> QED BY <2>2, <4>1
    <3> QED BY <3>1
  <2> QED BY <2>3
<1>13. Injected(p) = Front(taken)
  BY DEF Injected, Sizes, C, N, last, spent, size, order
<1> HIDE DEF taken
<1>14. \A t \in 0 .. last : Front(t) \subseteq C /\ Total(Front(t)) = spent[t]
  <2> DEFINE P == {t \in Nat : t <= last => Total(Front(t)) = spent[t]}
  <2>1. ASSUME NEW t \in 0 .. last PROVE Front(t) \subseteq C
    <3>1. \A n \in 1 .. t : n \in 1 .. last
      BY <1>7, <1>9
    <3> QED BY <1>10, <3>1
  <2>2. 0 \in P
    <3>1. Front(0) = {}
      OBVIOUS
    <3> HIDE DEF Front
    <3> QED BY <1>11, <3>1, TotalAdds
  <2>3. ASSUME NEW t \in Nat, t \in P PROVE t + 1 \in P
    <3> SUFFICES ASSUME t + 1 <= last PROVE Total(Front(t + 1)) = spent[t + 1]
      OBVIOUS
    <3>1. Total(Front(t)) = spent[t] /\ t \in 0 .. last /\ t + 1 \in 1 .. last
      BY <1>7, <1>9, <2>3
    <3>2. Front(t + 1) = Front(t) \cup {order[t + 1]}
      OBVIOUS
    <3>3. order[t + 1] \notin Front(t)
      BY <1>7, <1>8, <1>9, <3>1
    <3>4. Front(t) \in SUBSET Present /\ order[t + 1] \in Present \ Front(t)
      BY <1>2, <1>10, <2>1, <3>1, <3>3
    <3> HIDE DEF Front, P
    <3>5. Total(Front(t) \cup {order[t + 1]}) = Total(Front(t)) + memories[order[t + 1]].fact.size
      BY <3>4, TotalAdds
    <3>6. spent[t + 1] = spent[t] + size[t + 1] /\ size[t + 1] = memories[order[t + 1]].fact.size
      <4>1. \A n \in Nat : n + 1 \in 1 .. last => spent[n + 1] = spent[(n + 1) - 1] + size[n + 1]
        BY <1>11
      <4> QED BY <1>10, <3>1, <4>1
    <3> QED BY <3>1, <3>2, <3>5, <3>6
  <2> HIDE DEF P, Front
  <2>4. Nat \subseteq P
    BY <2>2, <2>3, EveryNumber
  <2> QED BY <1>7, <1>9, <2>1, <2>4 DEF P
<1>15. Cardinality(Front(taken)) = taken
  <2>1. taken \in Nat /\ taken <= N
    BY <1>7, <1>9, <1>12
  <2> DEFINE b == [n \in 1 .. taken |-> order[n]]
  <2>2. b \in [1 .. taken -> Front(taken)] /\ DOMAIN b = 1 .. taken
        /\ \A t \in Front(taken) : \E n \in 1 .. taken : b[n] = t
    OBVIOUS
  <2>4. \A n, m \in 1 .. taken : b[n] = b[m] => n = m
    BY <1>7, <1>8, <2>1
  <2>5. b \in Bijection(1 .. taken, Front(taken))
    <3> HIDE DEF b, Front
    <3> QED BY <2>2, <2>4 DEF Bijection, Injection, Surjection, IsInjective
  <2>3. ExistsBijection(1 .. taken, Front(taken))
    BY <2>5 DEF ExistsBijection
  <2> HIDE DEF Front
  <2> QED BY <2>1, <2>3, FS_CountingElements
<1>16. C # {} => Front(taken) # {}
  <2> SUFFICES ASSUME C # {}, taken = 0 PROVE FALSE
    BY <1>12, <1>7, <1>9
  <2>1. N # 0
    BY <1>7
  <2> QED BY <1>9, <1>12, <2>1
<1>17. Total(Front(taken)) <= CharBudget \/ Cardinality(Front(taken)) = 1
  <2> HIDE DEF Front
  <2>1. CASE taken = 0
    BY <1>9, <1>11, <1>12, <1>14, <2>1
  <2>2. CASE taken = 1
    BY <1>15, <2>2
  <2>3. CASE taken > 1
    <3>1. taken - 1 \in 0 .. taken - 1 /\ taken - 1 > 0
      BY <1>7, <1>9, <1>12, <2>3
    <3>2. ~ (spent[(taken - 1) + 1] > CharBudget)
      BY <1>12, <3>1
    <3>3. spent[taken] <= CharBudget
      BY <1>7, <1>9, <1>11, <1>12, <3>2
    <3> QED BY <1>12, <1>14, <3>3
  <2> QED BY <1>7, <1>9, <1>12, <2>1, <2>2, <2>3
<1>18. ASSUME NEW i \in Front(taken), NEW j \in C \ Front(taken)
       PROVE  LET a == memories[i].fact.importance
                  b == memories[j].fact.importance
              IN  a >= b /\ (a = b => j < i)
  <2>1. PICK n \in 1 .. taken : i = order[n]
    OBVIOUS
  <2>2. PICK m \in 1 .. N : j = order[m]
    BY <1>7
  <2>3. n \in 1 .. N /\ n < m
    BY <1>7, <1>9, <1>12, <2>1, <2>2
  <2>4. RanksBefore(i, j) /\ i \in C
    BY <1>5, <1>7, <2>1, <2>2, <2>3
  <2> QED BY <1>1, <1>2, <1>5, <1>6, <2>4
<1>19. C \ Front(taken) = {} \/ Cardinality(Front(taken)) = MaxInjected
         \/ \E j \in C \ Front(taken) : Total(Front(taken) \cup {j}) > CharBudget
  <2>1. CASE taken = last /\ last = MaxInjected
    BY <1>15, <2>1
  <2>2. CASE taken = last /\ last = N
    BY <1>7, <2>2
  <2>3. CASE taken # last
    <3>1. taken \in Nat /\ taken + 1 \in 1 .. last /\ taken + 1 \in 1 .. N /\ spent[taken + 1] > CharBudget
      BY <1>7, <1>9, <1>12, <2>3
    <3> DEFINE j == order[taken + 1]
    <3>2. j \in C \ Front(taken)
      BY <1>7, <1>8, <1>9, <1>12, <3>1
    <3>3. Front(taken) \cup {j} = Front(taken + 1)
      BY <3>1
    <3>4. Total(Front(taken + 1)) = spent[taken + 1]
      <4> HIDE DEF Front
      <4> QED BY <1>7, <1>9, <1>14, <3>1
    <3> HIDE DEF Front
    <3> QED BY <3>1, <3>2, <3>3, <3>4
  <2> QED BY <1>9, <2>1, <2>2, <2>3
<1>20. Front(taken) \subseteq C
  BY <1>12, <1>14
<1> HIDE DEF Front
<1>21. /\ Injected(p) \subseteq Candidates(p)
       /\ Candidates(p) # {} => Injected(p) # {}
       /\ Total(Injected(p)) <= CharBudget \/ Cardinality(Injected(p)) = 1
       /\ Candidates(p) \ Injected(p) = {} \/ Cardinality(Injected(p)) = MaxInjected
            \/ \E j \in Candidates(p) \ Injected(p) : Total(Injected(p) \cup {j}) > CharBudget
  BY <1>13, <1>16, <1>17, <1>19, <1>20 DEF C
<1>22. \A i \in Injected(p), j \in Candidates(p) \ Injected(p) :
         LET a == memories[i].fact.importance
             b == memories[j].fact.importance
         IN  a >= b /\ (a = b => j < i)
  BY <1>13, <1>18 DEF C
<1> QED BY <1>21, <1>22

(* Whatever number of turns write, promote, summarise and forget at the     *)
(* same time: a second live fact under a label comes only from transactions *)
(* that overlapped, a fact is retired only by its successor, and the prompt *)
(* is told the highest-ranked ones that fit (persona-memory-repo.ts).       *)
THEOREM FactsAreTold == MemorySpec => [](MemoryTypeOK /\ LiveFactsAreTold)
<1>1. MemoryInv => MemoryTypeOK /\ LiveFactsAreTold
  <2> SUFFICES ASSUME MemoryInv PROVE MemoryTypeOK /\ LiveFactsAreTold
    OBVIOUS
  <2>1. MemoryTypes /\ MemoryTypeOK /\ OneLiveUnlessRaced
    BY DEF MemoryInv, MemoryTypes, MemoryTypeOK
  <2>2. PromptHoldsTheBestFacts
    BY <2>1, PromptIsTheBest DEF PromptHoldsTheBestFacts
  <2> QED BY <2>1, <2>2, SuccessorsRetire DEF LiveFactsAreTold
<1> QED BY <1>1, MemoryInvHolds, PTL

-----------------------------------------------------------------------------
(* All that belongs to one persona: its parts keep no state in common.       *)

(* The three pages keep no state in common: what each of them tells holds   *)
(* of all of them (persona-tools-section.tsx, persona-side-panel.tsx).      *)
THEOREM PagesOfAPersonaTell ==
  WorkspaceSpec /\ RoutinePanelSpec /\ NotesSpec => []WorkspaceTellsTheRows
BY PersonaPageTells, RoutinePanelTells, NotesAndTheirPanel, PTL DEF WorkspaceTellsTheRows

(* A persona keeps what it was told it keeps: its facts, under whatever      *)
(* overlap of the turns that write them, and its loop notes                  *)
(* (persona-memory-repo.ts, builtin.ts).                                     *)
THEOREM MemoryOfAPersona == MemorySpec /\ NotesSpec => []MemoryIsAsTold
BY FactsAreTold, NotesAndTheirPanel, PTL DEF MemoryIsAsTold
=============================================================================
