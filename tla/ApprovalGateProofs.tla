-------------------------- MODULE ApprovalGateProofs --------------------------
(* What the persona graph keeps: its approval gate, for every batch of      *)
(* calls, every persona and any number of replays; and its thread, for any  *)
(* number of turns, crashes and summaries.                                  *)
(*                                                                          *)
(* That nothing runs early or twice needs no assumption.  That a decision   *)
(* reaches the call it was made for does: interrupt() hands decisions out   *)
(* by position, so the calls that ask must stay the same through every      *)
(* replay.  They do while nothing is edited, because an Always-allow takes  *)
(* a tool out of the gate only together with an approval of one of its      *)
(* calls, which keeps the tool in inFlight.                                 *)
EXTENDS ApprovalGate, Conversation, FiniteSetTheorems, WellFoundedInduction, TLAPS

-----------------------------------------------------------------------------

(* No call of the batch runs before its turn of Phase 2.                    *)
InOrder ==
  /\ NothingRunsBeforeEveryAnswer
  /\ phase \in {"executing", "pausing", "waiting"} => position \in Calls
  /\ phase = "executing" => \A c \in Calls : c >= position => ran[c] = 0

(* The tools that asked when the batch was made, their calls, and the place *)
(* of a call's question among them.                                         *)
AskTools ==
  {t \in Tools : /\ t \in OriginAllowed /\ Permission[t] # "blocked"
                 /\ t \in Destructive \/ Permission[t] = "ask"}

AskCalls == {c \in Calls : ToolOf[c] \in AskTools}

Rank(c) == Cardinality({d \in AskCalls : d <= c})

(* A delegation that asks is run before the gate is consulted; elsewhere it *)
(* is shown that its decision is then lost.                                 *)
DelegationIsUngated == AskTools \cap Delegating = {}

(* What the owner said of a call so far, the answer under way included.     *)
Verdict(c) ==
  IF c \notin AskCalls THEN "none"
  ELSE IF Rank(c) <= Len(memo) THEN memo[Rank(c)]
  ELSE IF Rank(c) = Len(memo) + 1 THEN resume ELSE "none"

RowOf(verdict) ==
  CASE verdict = "approve" -> "approved"
    [] verdict = "reject"  -> "rejected"
    [] OTHER               -> "none"

RowsFollow ==
  phase \in {"queued", "built", "pausing", "waiting"} => \A c \in Calls :
    row[c] = IF phase = "waiting" /\ c = position THEN "pending_approval" ELSE RowOf(Verdict(c))

AskedInOrder ==
  /\ phase \in {"pausing", "waiting", "executing"} => resume = "none"
  /\ phase \in {"pausing", "waiting"} => position \in AskCalls /\ Rank(position) = Len(memo) + 1
  /\ phase \in {"queued", "built"} /\ resume # "none" =>
       \E c \in AskCalls : Rank(c) = Len(memo) + 1

(* A tool leaves the gate only with an approval, given or on its way.       *)
AllowedWithApproval ==
  /\ phase \in {"queued", "built", "pausing", "executing"} => allowing = {}
  /\ phase = "waiting" => allowing \subseteq {position}
  /\ phase \in {"queued", "built", "pausing", "waiting"} => \A t \in Tools :
       \/ permission[t] = Permission[t]
       \/ /\ permission[t] = "allow" /\ t \in AskTools \ Destructive
          /\ \E c \in Calls : ToolOf[c] = t /\ (row[c] = "approved" \/ c \in allowing)

(* So each replay asks about the calls that asked at first.                 *)
GateStands ==
  phase \in {"built", "pausing", "executing"} => \A t \in Tools :
    /\ GatedThisTurn(t) <=> t \in AskTools
    /\ persona[t] = Permission[t] \/ (persona[t] = "allow" /\ t \in AskTools \ Destructive)

Carried(c) ==
  /\ row[c] \notin {"pending_approval", "approved"}
  /\ decisions[c] = "approve" => row[c] \in {"executed", "failed"}
  /\ decisions[c] = "reject" => row[c] = "rejected"

BatchRuns ==
  phase = "executing" => \A c \in Calls :
    /\ IF c \in AskCalls THEN decisions[c] \in Answers ELSE decisions[c] = "none"
    /\ IF c >= position THEN row[c] = RowOf(decisions[c]) ELSE Carried(c)

NothingLeftOpen ==
  /\ phase # "waiting" => \A c \in Calls : row[c] # "pending_approval"
  /\ phase = "done" => \A c \in Calls : Carried(c)

RunsWereAllowed ==
  /\ DeclinedNeverRuns
  /\ \A c \in Calls : ToolOf[c] \in Destructive /\ ran[c] > 0 =>
       row[c] \in {"approved", "executed", "failed"}

Undisturbed ==
  /\ registered = Tools
  /\ RowsFollow /\ AskedInOrder
  /\ AllowedWithApproval /\ GateStands
  /\ BatchRuns /\ NothingLeftOpen /\ RunsWereAllowed

-----------------------------------------------------------------------------
(* Counting the questions of a batch.                                       *)

LEMMA LeastMember ==
  ASSUME NEW S, S \subseteq Nat, S # {}
  PROVE  \E m \in S : \A n \in S : m <= n
<1> DEFINE Rel == {ss \in Nat \X Nat : ss[1] < ss[2]}
<1>1. Rel = OpToRel(<, Nat)
  BY Zenon DEF OpToRel
<1>2. IsWellFoundedOn(Rel, Nat)
  BY <1>1, NatLessThanWellFounded, Zenon
<1>3. \A a, b \in Nat : <<a, b>> \in Rel <=> a < b
  OBVIOUS
<1> HIDE DEF Rel
<1>4. PICK m \in S : \A n \in S : <<n, m>> \notin Rel
  BY <1>2, WFMin
<1>5. \A n \in S : ~ (n < m)
  BY <1>3, <1>4
<1> QED
  BY <1>5

LEMMA GreatestMember ==
  ASSUME NEW N \in Nat, NEW S, S \subseteq 0 .. N, S # {}
  PROVE  \E m \in S : \A n \in S : n <= m
<1>1. PICK T : T = {k \in Nat : \A n \in S : n <= k}
  OBVIOUS
<1>2. N \in T /\ T \subseteq Nat
  BY <1>1
<1>3. PICK k \in T : \A l \in T : k <= l
  BY <1>2, LeastMember
<1>4. k \in Nat /\ \A n \in S : n <= k /\ n \in Nat
  BY <1>1, <1>3
<1>5. k \in S
  <2> SUFFICES ASSUME k \notin S PROVE FALSE
    OBVIOUS
  <2>1. PICK n \in S : TRUE
    OBVIOUS
  <2>2. k # 0
    BY <1>4, <2>1
  <2>3. k - 1 \in T
    BY <1>1, <1>4, <2>2
  <2> QED
    BY <1>3, <1>4, <2>2, <2>3
<1> QED
  BY <1>4, <1>5

LEMMA MinMember ==
  ASSUME NEW S, S \subseteq Nat, S # {}
  PROVE  Min(S) \in S /\ \A n \in S : Min(S) <= n
<1>1. \E m \in S : \A n \in S : m <= n
  BY LeastMember
<1> QED
  BY <1>1 DEF Min

LEMMA BatchOfCalls ==
  /\ Len(ToolOf) \in Nat \ {0}
  /\ Calls = 1 .. Len(ToolOf)
  /\ \A c \in Calls : ToolOf[c] \in Tools
  BY GateAssumption DEF Calls

\* The questions up to a call, counted over any set of calls that ask.
LEMMA CountUpTo ==
  ASSUME NEW S, S \subseteq Calls, NEW c \in Nat
  PROVE  /\ IsFiniteSet({d \in S : d <= c})
         /\ Cardinality({d \in S : d <= c}) \in 0 .. Len(ToolOf)
<1>1. PICK T : T = {d \in S : d <= c}
  OBVIOUS
<1>2. T \in SUBSET (1 .. Len(ToolOf)) /\ Len(ToolOf) \in Nat
  BY <1>1, BatchOfCalls
<1>3. IsFiniteSet(1 .. Len(ToolOf)) /\ Cardinality(1 .. Len(ToolOf)) = Len(ToolOf)
  BY <1>2, FS_Interval
<1>4. IsFiniteSet(T) /\ Cardinality(T) <= Len(ToolOf)
  BY <1>2, <1>3, FS_Subset
<1>5. Cardinality(T) \in Nat
  BY <1>4, FS_CardinalityType
<1> QED
  BY <1>1, <1>2, <1>4, <1>5

LEMMA RankType ==
  ASSUME NEW c \in Calls
  PROVE  Rank(c) \in 0 .. Len(ToolOf)
<1>1. AskCalls \subseteq Calls /\ c \in Nat
  BY BatchOfCalls DEF AskCalls
<1>2. Cardinality({d \in AskCalls : d <= c}) \in 0 .. Len(ToolOf)
  BY <1>1, CountUpTo
<1> QED
  BY <1>2 DEF Rank

LEMMA AskingIsCalling ==
  /\ AskCalls \subseteq Calls
  /\ \A c \in AskCalls : c \in Nat /\ c \in Calls
  BY BatchOfCalls DEF AskCalls

LEMMA RankGrows ==
  ASSUME NEW c \in Calls, NEW d \in AskCalls, c < d
  PROVE  Rank(c) < Rank(d)
<1>1. c \in Nat /\ d \in Nat
  BY AskingIsCalling, BatchOfCalls
<1>2. PICK S : S = {e \in AskCalls : e <= c}
  OBVIOUS
<1>3. PICK T : T = {e \in AskCalls : e <= d}
  OBVIOUS
<1>4. S \in SUBSET T /\ d \in T /\ d \notin S
  <2>1. d <= d /\ ~ (d <= c)
    BY <1>1
  <2>2. ASSUME NEW e \in AskCalls, e <= c PROVE e <= d
    <3>1. e \in Nat
      BY AskingIsCalling
    <3> QED
      BY <1>1, <2>2, <3>1
  <2> QED
    BY <1>2, <1>3, <2>1, <2>2
<1>5. IsFiniteSet(T) /\ Cardinality(T) \in Nat /\ Cardinality(S) \in Nat
  <2>1. Cardinality(S) \in 0 .. Len(ToolOf)
    BY <1>1, <1>2, AskingIsCalling, CountUpTo
  <2>2. IsFiniteSet(T) /\ Cardinality(T) \in 0 .. Len(ToolOf)
    BY <1>1, <1>3, AskingIsCalling, CountUpTo
  <2> QED
    BY <2>1, <2>2
<1>6. Cardinality(S) <= Cardinality(T) /\ Cardinality(S) # Cardinality(T)
  BY <1>4, <1>5, FS_Subset
<1> QED
  BY <1>2, <1>3, <1>5, <1>6 DEF Rank

LEMMA RankIsInjective ==
  ASSUME NEW c \in AskCalls, NEW d \in AskCalls, Rank(c) = Rank(d)
  PROVE  c = d
<1>1. c \in Calls /\ d \in Calls /\ c \in Nat /\ d \in Nat
  BY AskingIsCalling
<1>2. Rank(c) \in Nat /\ Rank(d) \in Nat
  BY <1>1, RankType
<1>3. c < d => FALSE
  BY <1>1, <1>2, RankGrows
<1>4. d < c => FALSE
  BY <1>1, <1>2, RankGrows
<1> QED
  BY <1>1, <1>3, <1>4

\* The first question beyond the first k is the one after them.
LEMMA FirstBeyond ==
  ASSUME NEW k \in Nat, NEW c \in AskCalls, Rank(c) > k,
         \A d \in AskCalls : Rank(d) > k => c <= d
  PROVE  Rank(c) = k + 1
<1>1. c \in Nat /\ c \in Calls /\ Rank(c) \in Nat
  BY AskingIsCalling, RankType
<1>2. PICK S : S = {d \in AskCalls : d <= c}
  OBVIOUS
<1>3. PICK B : B = S \ {c}
  OBVIOUS
<1>4. c \in S /\ \A d \in AskCalls : d \in B <=> d < c
  <2>1. c <= c
    BY <1>1
  <2>2. ASSUME NEW d \in AskCalls PROVE d <= c /\ d # c <=> d < c
    <3>1. d \in Nat
      BY AskingIsCalling
    <3> QED
      BY <1>1, <3>1
  <2> QED
    BY <1>2, <1>3, <2>1, <2>2
<1>5. IsFiniteSet(S) /\ Cardinality(S) = Rank(c)
  BY <1>1, <1>2, AskingIsCalling, CountUpTo DEF Rank
<1>6. Cardinality(B) = Rank(c) - 1
  BY <1>3, <1>4, <1>5, FS_RemoveElement
<1>7. CASE B = {}
  <2>1. Cardinality(B) = 0
    BY <1>7, FS_EmptySet
  <2> QED
    BY <1>1, <1>6, <2>1
<1>8. CASE B # {}
  <2>1. ASSUME NEW d \in B PROVE d \in 0 .. c /\ d \in AskCalls /\ d < c
    <3>1. d \in AskCalls
      BY <1>2, <1>3
    <3>2. d \in Nat /\ d < c
      BY <1>4, <3>1, AskingIsCalling
    <3> QED
      BY <1>1, <3>1, <3>2
  <2>2. PICK m \in B : \A n \in B : n <= m
    BY <1>1, <1>8, <2>1, GreatestMember
  <2>3. m \in AskCalls /\ m < c /\ m \in Nat
    BY <2>1, <2>2, AskingIsCalling
  <2>4. {d \in AskCalls : d <= m} = B
    <3>1. ASSUME NEW d \in AskCalls, d <= m PROVE d \in B
      <4>1. d \in Nat
        BY AskingIsCalling
      <4>2. d < c
        BY <1>1, <2>3, <3>1, <4>1
      <4> QED
        BY <1>4, <4>2
    <3> QED
      BY <2>1, <2>2, <3>1
  <2>5. Rank(m) = Rank(c) - 1
    BY <1>6, <2>4 DEF Rank
  <2>6. ~ (Rank(m) > k)
    BY <1>1, <2>3
  <2> QED
    BY <1>1, <2>5, <2>6
<1> QED
  BY <1>7, <1>8

LEMMA PlaceType ==
  ASSUME NEW c \in Calls
  PROVE  /\ Place(c) \in 0 .. Len(ToolOf)
         /\ Asks(c) => Place(c) # 0
<1>1. PICK S : S = {d \in Calls : Asks(d)}
  OBVIOUS
<1>2. PICK T : T = {d \in S : d <= c}
  OBVIOUS
<1>3. c \in Nat /\ S \subseteq Calls
  BY <1>1, BatchOfCalls
<1>4. IsFiniteSet(T) /\ Cardinality(T) \in 0 .. Len(ToolOf)
  BY <1>2, <1>3, CountUpTo
<1>5. {d \in Calls : d <= c /\ Asks(d)} = T
  BY <1>1, <1>2
<1>6. ASSUME Asks(c) PROVE Cardinality(T) # 0
  <2>1. c \in T
    BY <1>1, <1>2, <1>3, <1>6
  <2> QED
    BY <1>4, <2>1, FS_EmptySet
<1> QED
  BY <1>4, <1>5, <1>6 DEF Place

LEMMA FirstUndecided ==
  ASSUME NEW answers, Undecided(answers) # {}
  PROVE  /\ Min(Undecided(answers)) \in Calls
         /\ Min(Undecided(answers)) \in Undecided(answers)
         /\ \A d \in Undecided(answers) : Min(Undecided(answers)) <= d
<1>1. PICK S : S = Undecided(answers)
  OBVIOUS
<1>2. S \subseteq Calls /\ S \subseteq Nat
  BY <1>1, BatchOfCalls DEF Undecided
<1> QED
  BY <1>1, <1>2, MinMember

-----------------------------------------------------------------------------
(* The types, and that nothing runs early or twice.                         *)

\* What Phase 1 reads out of the checkpoint has its types.
LEMMA AnswersHaveTheirPlace ==
  ASSUME GateTypeOK, NEW answers,
         answers = IF resume # "none" /\ Undecided(memo) # {}
                     THEN Append(memo, resume) ELSE memo
  PROVE  /\ answers \in Seq(Answers) /\ Len(answers) <= Len(ToolOf)
         /\ Decided(answers) \in [Calls -> Answers \cup {"none"}]
<1>1. memo \in Seq(Answers) /\ Len(memo) <= Len(ToolOf) /\ Len(ToolOf) \in Nat
  BY BatchOfCalls DEF GateTypeOK
<1>2. answers \in Seq(Answers) /\ Len(answers) <= Len(ToolOf)
  <2>1. CASE resume # "none" /\ Undecided(memo) # {}
    <3>1. PICK c \in Calls : Place(c) > Len(memo)
      BY <2>1 DEF Undecided
    <3>2. Len(memo) + 1 <= Len(ToolOf)
      BY <1>1, <3>1, PlaceType
    <3>3. resume \in Answers
      BY <2>1 DEF GateTypeOK
    <3> QED
      BY <1>1, <2>1, <3>2, <3>3
  <2> QED
    BY <1>1, <2>1
<1>3. ASSUME NEW c \in Calls, Asks(c), Place(c) <= Len(answers)
      PROVE  answers[Place(c)] \in Answers
  <2>1. Place(c) \in 1 .. Len(answers)
    BY <1>2, <1>3, PlaceType
  <2> QED
    BY <1>2, <2>1
<1> QED
  BY <1>2, <1>3 DEF Decided

LEMMA PhaseOneKeepsTypes ==
  ASSUME GateTypeOK, InOrder, PhaseOne
  PROVE  GateTypeOK' /\ InOrder'
<1>1. PICK answers : answers = IF resume # "none" /\ Undecided(memo) # {}
                                 THEN Append(memo, resume) ELSE memo
  OBVIOUS
<1>2. /\ answers \in Seq(Answers) /\ Len(answers) <= Len(ToolOf)
      /\ Decided(answers) \in [Calls -> Answers \cup {"none"}]
  BY <1>1, AnswersHaveTheirPlace
<1>3. /\ phase = "built"
      /\ memo' = answers /\ resume' = "none" /\ decisions' = Decided(answers)
      /\ ran' = ran
      /\ \/ phase' = "executing" /\ position' = 1
         \/ /\ phase' = "pausing" /\ Undecided(answers) # {}
            /\ position' = Min(Undecided(answers))
      /\ UNCHANGED <<permission, registered, row, persona, inFlight, allowing, edits>>
  BY <1>1 DEF PhaseOne, SideEffects
<1>4. position' \in Calls
  BY <1>3, FirstUndecided, BatchOfCalls
<1>5. phase' \in Phases
  BY <1>3 DEF Phases
<1>6. GateTypeOK'
  BY <1>2, <1>3, <1>4, <1>5, BatchOfCalls DEF GateTypeOK
<1> QED
  BY <1>3, <1>4, <1>6 DEF InOrder, NothingRunsBeforeEveryAnswer

\* One call of Phase 2: it runs once, or not at all.
LEMMA PhaseTwoStep ==
  ASSUME GateTypeOK, InOrder, PhaseTwo
  PROVE  /\ phase = "executing" /\ position \in Calls
         /\ \/ position' = position + 1
               /\ phase' = IF position = Len(ToolOf) THEN "done" ELSE "executing"
            \/ phase' = "failed" /\ position' = position
         /\ \/ ran' = ran
            \/ ran' = [ran EXCEPT ![position] = 1]
         /\ \/ row' = row
            \/ \E s \in {"executed", "failed"} : row' = [row EXCEPT ![position] = s]
         /\ UNCHANGED <<permission, registered, memo, resume, persona, inFlight, decisions,
                        allowing, edits>>
<1>1. phase = "executing" /\ position \in Calls /\ ran[position] = 0
  BY BatchOfCalls DEF PhaseTwo, InOrder
<1>2. 0 + 1 = 1
  OBVIOUS
<1>3. ASSUME NEW gated \in BOOLEAN, RunAndReport(gated)
      PROVE  /\ \/ Advance \/ Fails
             /\ ran' = [ran EXCEPT ![position] = 1]
             /\ \/ row' = row
                \/ \E s \in {"executed", "failed"} : row' = [row EXCEPT ![position] = s]
  BY <1>1, <1>2, <1>3 DEF RunAndReport
<1>4. Delegate => /\ Advance /\ row' = row
                  /\ ran' = [ran EXCEPT ![position] = 1]
  BY <1>1, <1>2 DEF Delegate
<1>5. Refused => Advance /\ row' = row /\ ran' = ran
  BY DEF Refused
<1>6. /\ Advance \/ Fails
      /\ ran' = ran \/ ran' = [ran EXCEPT ![position] = 1]
      /\ \/ row' = row
         \/ \E s \in {"executed", "failed"} : row' = [row EXCEPT ![position] = s]
  BY <1>3, <1>4, <1>5 DEF PhaseTwo
<1>7. UNCHANGED <<permission, registered, memo, resume, persona, inFlight, decisions,
                  allowing, edits>>
  BY DEF PhaseTwo
<1> QED
  BY <1>1, <1>6, <1>7 DEF Advance, Fails

LEMMA PhaseTwoKeepsTypes ==
  ASSUME GateTypeOK, InOrder, PhaseTwo
  PROVE  GateTypeOK' /\ InOrder'
<1>1. /\ phase = "executing" /\ position \in Calls /\ position \in 1 .. Len(ToolOf)
      /\ Len(ToolOf) \in Nat /\ Calls = 1 .. Len(ToolOf)
  BY PhaseTwoStep, BatchOfCalls
<1>2. /\ ran \in [Calls -> 0 .. MaxRuns] /\ row \in [Calls -> Rows]
      /\ \A c \in Calls : ran[c] <= 1 /\ (c >= position => ran[c] = 0)
  BY <1>1 DEF GateTypeOK, InOrder, NothingRunsBeforeEveryAnswer
<1>3. ran' \in [Calls -> 0 .. MaxRuns]
  BY <1>1, <1>2, PhaseTwoStep DEF MaxRuns
<1>4. row' \in [Calls -> Rows]
  BY <1>1, <1>2, PhaseTwoStep DEF Rows
<1>5. /\ position' \in 1 .. Len(ToolOf) + 1
      /\ phase' \in {"executing", "done", "failed"}
      /\ phase' = "executing" => position' = position + 1 /\ position' \in Calls
  BY <1>1, PhaseTwoStep
<1>6. phase' \in Phases
  BY <1>5 DEF Phases
<1>7. UNCHANGED <<permission, registered, memo, resume, persona, inFlight, decisions,
                  allowing, edits>>
  BY PhaseTwoStep
<1>8. GateTypeOK'
  BY <1>3, <1>4, <1>5, <1>6, <1>7 DEF GateTypeOK
<1>9. \A c \in Calls : ran'[c] <= 1 /\ (c # position => ran'[c] = ran[c])
  BY <1>2, PhaseTwoStep
<1>10. ASSUME phase' = "executing", NEW c \in Calls, c >= position'
       PROVE  ran'[c] = 0
  <2>1. c >= position /\ c # position
    BY <1>1, <1>5, <1>10
  <2> QED
    BY <1>2, <1>9, <2>1
<1> QED
  BY <1>5, <1>8, <1>9, <1>10 DEF InOrder, NothingRunsBeforeEveryAnswer

LEMMA EditType ==
  ASSUME GateTypeOK, NEW b \in BOOLEAN, Edit(b)
  PROVE  edits' \in 0 .. MaxEdits /\ (edits' = 0 => edits = 0 /\ ~b)
BY GateAssumption DEF GateTypeOK, Edit

LEMMA AnswerKeepsTypes ==
  ASSUME GateTypeOK, NEW c \in Calls, NEW answer \in Answers, Answer(c, answer)
  PROVE  /\ row' \in [Calls -> Rows] /\ resume' \in Answers \cup {"none"}
         /\ phase = "waiting" /\ phase' = "queued" /\ phase' \in Phases
BY DEF GateTypeOK, Answer, Rows, Phases, Answers

LEMMA DecideKeepsTypes ==
  ASSUME GateTypeOK, InOrder, Decide
  PROVE  GateTypeOK' /\ InOrder'
<1>1. ASSUME NEW c \in Calls, NEW answer \in Answers, Resolve(c, answer)
      PROVE  GateTypeOK' /\ InOrder'
  <2>1. Answer(c, answer) /\ Edit(allowing # {}) /\ UNCHANGED <<permission, allowing>>
    BY <1>1 DEF Resolve
  <2>2. /\ row' \in [Calls -> Rows] /\ resume' \in Answers \cup {"none"}
        /\ phase = "waiting" /\ phase' = "queued" /\ phase' \in Phases
    BY <2>1, AnswerKeepsTypes
  <2>3. edits' \in 0 .. MaxEdits
    BY <2>1, EditType
  <2>4. UNCHANGED <<registered, memo, persona, inFlight, position, decisions, ran>>
    BY <2>1 DEF Answer
  <2>5. GateTypeOK'
    BY <2>1, <2>2, <2>3, <2>4 DEF GateTypeOK
  <2> QED
    BY <2>2, <2>4, <2>5 DEF InOrder, NothingRunsBeforeEveryAnswer
<1>2. ASSUME NEW c \in Calls, PersistAlwaysAllow(c)
      PROVE  GateTypeOK' /\ InOrder'
  <2>1. permission' \in [Tools -> Permissions] /\ allowing' \subseteq Calls
    BY <1>2, BatchOfCalls DEF PersistAlwaysAllow, GateTypeOK, Permissions
  <2>2. edits' \in 0 .. MaxEdits
    BY <1>2, EditType DEF PersistAlwaysAllow
  <2>3. UNCHANGED <<registered, row, memo, resume, phase, persona, inFlight, position,
                    decisions, ran>>
    BY <1>2 DEF PersistAlwaysAllow
  <2> QED
    BY <2>1, <2>2, <2>3 DEF GateTypeOK, InOrder, NothingRunsBeforeEveryAnswer
<1>3. ASSUME NEW c \in Calls, ThenApprove(c)
      PROVE  GateTypeOK' /\ InOrder'
  <2>1. allowing' \subseteq Calls /\ UNCHANGED <<permission, edits>>
    BY <1>3 DEF ThenApprove, GateTypeOK
  <2>2. CASE Answer(c, "approve")
    <3>1. /\ row' \in [Calls -> Rows] /\ resume' \in Answers \cup {"none"}
          /\ phase = "waiting" /\ phase' = "queued" /\ phase' \in Phases
      <4>1. PICK yes \in Answers : yes = "approve"
        BY DEF Answers
      <4> QED
        BY <2>2, <4>1, AnswerKeepsTypes
    <3>2. UNCHANGED <<registered, memo, persona, inFlight, position, decisions, ran>>
      BY <2>2 DEF Answer
    <3>3. GateTypeOK'
      BY <2>1, <3>1, <3>2 DEF GateTypeOK
    <3> QED
      BY <3>1, <3>2, <3>3 DEF InOrder, NothingRunsBeforeEveryAnswer
  <2>3. CASE UNCHANGED <<registered, row, memo, resume, phase, persona, inFlight, position,
                         decisions, ran>>
    BY <2>1, <2>3 DEF GateTypeOK, InOrder, NothingRunsBeforeEveryAnswer
  <2> QED
    BY <1>3, <2>2, <2>3 DEF ThenApprove
<1> QED
  BY <1>1, <1>2, <1>3 DEF Decide

LEMMA StepKeepsTypes ==
  ASSUME GateTypeOK, InOrder, [GateNext]_gateVars
  PROVE  GateTypeOK' /\ InOrder'
<1>1. CASE Build
  <2>1. InFlightGated \subseteq Tools
    BY BatchOfCalls DEF InFlightGated
  <2>2. [c \in Calls |-> "none"] \in [Calls -> Answers \cup {"none"}]
    OBVIOUS
  <2> QED
    BY <1>1, <2>1, <2>2 DEF Build, GateTypeOK, InOrder, NothingRunsBeforeEveryAnswer, Phases
<1>2. CASE PhaseOne
  BY <1>2, PhaseOneKeepsTypes
<1>3. CASE PauseForApproval
  <2>1. phase = "pausing" /\ phase' \in {"waiting", "failed"} /\ phase' \in Phases
    BY <1>3 DEF PauseForApproval, Phases
  <2>2. row' \in [Calls -> Rows]
    BY <1>3 DEF PauseForApproval, GateTypeOK, Rows
  <2>3. UNCHANGED <<permission, registered, memo, resume, persona, inFlight, position,
                    decisions, ran, allowing, edits>>
    BY <1>3 DEF PauseForApproval
  <2>4. GateTypeOK'
    BY <2>1, <2>2, <2>3 DEF GateTypeOK
  <2> QED
    BY <2>1, <2>3, <2>4 DEF InOrder, NothingRunsBeforeEveryAnswer
<1>4. CASE PhaseTwo
  BY <1>4, PhaseTwoKeepsTypes
<1>5. CASE TurnLost
  BY <1>5 DEF TurnLost, GateTypeOK, InOrder, NothingRunsBeforeEveryAnswer, Phases
<1>6. CASE Decide
  BY <1>6, DecideKeepsTypes
<1>7. CASE CancelWaiting
  <2>1. row' \in [Calls -> Rows]
    BY <1>7 DEF CancelWaiting, GateTypeOK, Rows
  <2> QED
    BY <1>7, <2>1 DEF CancelWaiting, GateTypeOK, InOrder, NothingRunsBeforeEveryAnswer, Phases
<1>8. ASSUME NEW t \in Tools, NEW p \in Permissions, EditPersona(t, p)
      PROVE  GateTypeOK' /\ InOrder'
  <2>1. permission' \in [Tools -> Permissions]
    BY <1>8 DEF EditPersona, GateTypeOK
  <2>2. edits' \in 0 .. MaxEdits
    BY <1>8, EditType DEF EditPersona
  <2> QED
    BY <1>8, <2>1, <2>2 DEF EditPersona, GateTypeOK, InOrder, NothingRunsBeforeEveryAnswer
<1>9. ASSUME NEW t \in Tools, EditRegistry(t)
      PROVE  GateTypeOK' /\ InOrder'
  <2>1. registered' \subseteq Tools
    BY <1>9 DEF EditRegistry, GateTypeOK
  <2>2. edits' \in 0 .. MaxEdits
    BY <1>9, EditType DEF EditRegistry
  <2> QED
    BY <1>9, <2>1, <2>2 DEF EditRegistry, GateTypeOK, InOrder, NothingRunsBeforeEveryAnswer
<1>10. CASE UNCHANGED gateVars
  BY <1>10 DEF gateVars, GateTypeOK, InOrder, NothingRunsBeforeEveryAnswer
<1> QED
  BY <1>1, <1>2, <1>3, <1>4, <1>5, <1>6, <1>7, <1>8, <1>9, <1>10 DEF GateNext, Turn

LEMMA InitHasTypes == GateInit => GateTypeOK /\ InOrder
<1> SUFFICES ASSUME GateInit PROVE GateTypeOK /\ InOrder
  OBVIOUS
<1>1. <<>> \in Seq(Answers) /\ Len(<<>>) = 0
  OBVIOUS
<1> QED
  BY <1>1, GateAssumption, BatchOfCalls
     DEF GateInit, GateTypeOK, InOrder, NothingRunsBeforeEveryAnswer, Rows, Phases, MaxRuns

(* The types of the gate's state hold in every run.                         *)
THEOREM GateTypesHold == GateSpec => [](GateTypeOK /\ InOrder)
<1>1. GateInit => GateTypeOK /\ InOrder
  BY InitHasTypes
<1>2. (GateTypeOK /\ InOrder) /\ [GateNext]_gateVars => (GateTypeOK /\ InOrder)'
  BY StepKeepsTypes
<1> QED
  BY <1>1, <1>2, PTL DEF GateSpec

(* While a call of the batch is still to be decided nothing of it has run,  *)
(* and no replay runs a call again: for every batch, every persona, and     *)
(* whatever is edited meanwhile (callTools(), Phase 1 and Phase 2).         *)
THEOREM NothingRunsEarlyOrTwice == GateSpec => []NothingRunsBeforeEveryAnswer
<1>1. GateTypeOK /\ InOrder => NothingRunsBeforeEveryAnswer
  BY DEF InOrder
<1> QED
  BY <1>1, GateTypesHold, PTL

-----------------------------------------------------------------------------
(* Decisions reach the calls they were made for.                            *)

LEMMA RankPositive ==
  ASSUME NEW c \in AskCalls
  PROVE  Rank(c) \in Nat /\ Rank(c) # 0
<1>1. c \in Nat /\ c \in Calls /\ AskCalls \subseteq Calls
  BY AskingIsCalling
<1>2. PICK T : T = {d \in AskCalls : d <= c}
  OBVIOUS
<1>3. IsFiniteSet(T) /\ Cardinality(T) \in 0 .. Len(ToolOf)
  BY <1>1, <1>2, CountUpTo
<1>4. c \in T
  BY <1>1, <1>2
<1>5. Cardinality(T) # 0
  BY <1>3, <1>4, FS_EmptySet
<1> QED
  BY <1>2, <1>3, <1>5 DEF Rank

LEMMA VerdictType ==
  ASSUME GateTypeOK, NEW c \in Calls
  PROVE  /\ Verdict(c) \in Answers \cup {"none"}
         /\ Verdict(c) # "none" => c \in AskCalls
<1>1. memo \in Seq(Answers) /\ resume \in Answers \cup {"none"}
  BY DEF GateTypeOK
<1>2. ASSUME c \in AskCalls, Rank(c) <= Len(memo) PROVE memo[Rank(c)] \in Answers
  <2>1. Rank(c) \in 1 .. Len(memo)
    BY <1>1, <1>2, RankPositive
  <2> QED
    BY <1>1, <2>1
<1> QED
  BY <1>1, <1>2 DEF Verdict

LEMMA RowOfAnswers ==
  /\ RowOf("approve") = "approved" /\ RowOf("reject") = "rejected" /\ RowOf("none") = "none"
  /\ \A v \in Answers \cup {"none"} : /\ RowOf(v) \in {"approved", "rejected", "none"}
                                      /\ RowOf(v) = "approved" <=> v = "approve"
                                      /\ RowOf(v) = "rejected" <=> v = "reject"
                                      /\ RowOf(v) = "none" <=> v = "none"
BY DEF RowOf, Answers

\* While Phase 1 runs, the calls that ask are those that asked at first.
LEMMA SameQuestions ==
  ASSUME GateTypeOK, Undisturbed, phase = "built", NEW answers
  PROVE  /\ Undecided(answers) = {c \in AskCalls : Rank(c) > Len(answers)}
         /\ \A c \in Calls : Decided(answers)[c] =
              IF c \in AskCalls /\ Rank(c) <= Len(answers) THEN answers[Rank(c)] ELSE "none"
<1>1. \A c \in Calls : Asks(c) <=> c \in AskCalls
  BY BatchOfCalls DEF Asks, AskCalls, Undisturbed, GateStands
<1>2. \A c \in Calls : Place(c) = Rank(c)
  <2>1. ASSUME NEW c \in Calls
        PROVE  {d \in Calls : d <= c /\ Asks(d)} = {d \in AskCalls : d <= c}
    BY <1>1 DEF AskCalls
  <2> QED
    BY <2>1 DEF Place, Rank
<1> QED
  BY <1>1, <1>2, AskingIsCalling DEF Undecided, Decided

LEMMA RowsAtFirst ==
  ASSUME GateTypeOK, Undisturbed, phase \in {"queued", "built", "pausing", "waiting"},
         NEW c \in Calls
  PROVE  /\ row[c] = "pending_approval" => phase = "waiting" /\ c = position
         /\ row[c] = "approved" => c \in AskCalls
         /\ ~ (phase = "waiting" /\ c = position) => row[c] = RowOf(Verdict(c))
BY VerdictType, RowOfAnswers DEF Undisturbed, RowsFollow

LEMMA BuildIsFaithful ==
  ASSUME GateTypeOK, Undisturbed, Build
  PROVE  Undisturbed'
<1>1. /\ phase = "queued" /\ phase' = "built"
      /\ persona' = permission /\ inFlight' = InFlightGated
      /\ UNCHANGED <<permission, registered, row, memo, resume, position, ran, allowing, edits>>
  BY DEF Build
<1>2. ASSUME NEW t \in Tools
      PROVE  /\ GatedThisTurn(t)' <=> t \in AskTools
             /\ persona'[t] = Permission[t] \/ (persona'[t] = "allow" /\ t \in AskTools \ Destructive)
  <2>1. t \in inFlight' => t \in AskTools
    BY <1>1, RowsAtFirst DEF InFlightGated, AskCalls
  <2>2. CASE permission[t] = Permission[t]
    BY <1>1, <2>1, <2>2 DEF GatedThisTurn, EffectivePermission, AskTools
  <2>3. CASE /\ permission[t] = "allow" /\ t \in AskTools \ Destructive
             /\ \E c \in Calls : ToolOf[c] = t /\ (row[c] = "approved" \/ c \in allowing)
    <3>1. allowing = {}
      BY <1>1 DEF Undisturbed, AllowedWithApproval
    <3>2. t \in InFlightGated
      BY <2>3, <3>1 DEF InFlightGated
    <3> QED
      BY <1>1, <2>3, <3>2 DEF GatedThisTurn, AskTools
  <2> QED
    BY <1>1, <2>2, <2>3 DEF Undisturbed, AllowedWithApproval
<1>3. GateStands'
  BY <1>2 DEF GateStands
<1>4. RowsFollow'
  BY <1>1 DEF Undisturbed, RowsFollow, Verdict
<1>5. AskedInOrder' /\ AllowedWithApproval'
  BY <1>1 DEF Undisturbed, AskedInOrder, AllowedWithApproval
<1>6. BatchRuns' /\ NothingLeftOpen' /\ RunsWereAllowed'
  BY <1>1 DEF Undisturbed, BatchRuns, NothingLeftOpen, RunsWereAllowed, DeclinedNeverRuns
<1> QED
  BY <1>1, <1>3, <1>4, <1>5, <1>6 DEF Undisturbed

LEMMA PhaseOneIsFaithful ==
  ASSUME GateTypeOK, Undisturbed, PhaseOne
  PROVE  Undisturbed'
<1>1. PICK answers : answers = IF resume # "none" /\ Undecided(memo) # {}
                                 THEN Append(memo, resume) ELSE memo
  OBVIOUS
<1>2. /\ phase = "built"
      /\ memo' = answers /\ resume' = "none" /\ decisions' = Decided(answers)
      /\ ran' = ran
      /\ \/ phase' = "executing" /\ position' = 1 /\ Undecided(answers) = {}
         \/ /\ phase' = "pausing" /\ Undecided(answers) # {}
            /\ position' = Min(Undecided(answers))
      /\ UNCHANGED <<permission, registered, row, persona, inFlight, allowing, edits>>
  BY <1>1 DEF PhaseOne, SideEffects
<1>3. answers \in Seq(Answers) /\ memo \in Seq(Answers) /\ resume \in Answers \cup {"none"}
  BY <1>1, AnswersHaveTheirPlace DEF GateTypeOK
<1>4. resume # "none" => Undecided(memo) # {}
  <2> SUFFICES ASSUME resume # "none" PROVE Undecided(memo) # {}
    OBVIOUS
  <2>1. PICK c \in AskCalls : Rank(c) = Len(memo) + 1
    BY <1>2 DEF Undisturbed, AskedInOrder
  <2>2. Undecided(memo) = {d \in AskCalls : Rank(d) > Len(memo)}
    BY <1>2, SameQuestions
  <2> QED
    BY <1>3, <2>1, <2>2
<1>5. ASSUME NEW c \in Calls PROVE Verdict(c)' = Verdict(c)
  <2>1. CASE c \notin AskCalls
    BY <2>1 DEF Verdict
  <2>2. CASE c \in AskCalls /\ resume = "none"
    BY <1>1, <1>2, <2>2 DEF Verdict
  <2>3. CASE c \in AskCalls /\ resume # "none"
    <3>1. memo' = Append(memo, resume) /\ resume' = "none"
      BY <1>1, <1>2, <1>4, <2>3
    <3>2. Rank(c) \in Nat /\ Rank(c) # 0 /\ Len(memo) \in Nat
      BY <1>3, <2>3, RankPositive
    <3>3. Len(memo') = Len(memo) + 1
      BY <1>3, <3>1
    <3>4. CASE Rank(c) <= Len(memo)
      <4>1. memo'[Rank(c)] = memo[Rank(c)]
        BY <1>3, <3>1, <3>2, <3>4
      <4> QED
        BY <3>2, <3>3, <3>4, <4>1 DEF Verdict
    <3>5. CASE Rank(c) = Len(memo) + 1
      <4>1. memo'[Rank(c)] = resume
        BY <1>3, <3>1, <3>2, <3>5
      <4> QED
        BY <3>2, <3>3, <3>5, <4>1 DEF Verdict
    <3>6. CASE Rank(c) > Len(memo) + 1
      BY <3>1, <3>2, <3>3, <3>6 DEF Verdict
    <3> QED
      BY <3>2, <3>4, <3>5, <3>6
  <2> QED
    BY <2>1, <2>2, <2>3
<1>6. \A c \in Calls : row'[c] = RowOf(Verdict(c)')
  BY <1>2, <1>5, RowsAtFirst
<1>7. RowsFollow'
  BY <1>2, <1>6 DEF RowsFollow
<1>8. Undecided(answers) = {c \in AskCalls : Rank(c) > Len(answers)}
  BY <1>2, SameQuestions
<1>9. AskedInOrder'
  <2> SUFFICES ASSUME phase' = "pausing"
               PROVE  position' \in AskCalls /\ Rank(position') = Len(memo') + 1
    BY <1>2 DEF AskedInOrder
  <2>1. position' \in Undecided(answers) /\ \A d \in Undecided(answers) : position' <= d
    BY <1>2, FirstUndecided
  <2>2. PICK c \in AskCalls : c = position' /\ Rank(c) > Len(answers)
    BY <1>8, <2>1
  <2>3. \A d \in AskCalls : Rank(d) > Len(answers) => c <= d
    BY <1>8, <2>1, <2>2
  <2>4. Len(answers) \in Nat
    BY <1>3
  <2>5. Rank(c) = Len(answers) + 1
    BY <2>2, <2>3, <2>4, FirstBeyond
  <2> QED
    BY <1>2, <2>2, <2>5
<1>10. AllowedWithApproval' /\ GateStands'
  <2>1. GateStands'
    BY <1>2 DEF Undisturbed, GateStands, GatedThisTurn, EffectivePermission
  <2>2. AllowedWithApproval'
    BY <1>2 DEF Undisturbed, AllowedWithApproval
  <2> QED
    BY <2>1, <2>2
<1>11. BatchRuns'
  <2> SUFFICES ASSUME phase' = "executing", NEW c \in Calls
               PROVE  /\ IF c \in AskCalls THEN decisions'[c] \in Answers
                                           ELSE decisions'[c] = "none"
                      /\ row'[c] = RowOf(decisions'[c])
    BY <1>2, BatchOfCalls DEF BatchRuns
  <2>1. c \in AskCalls => ~ (Rank(c) > Len(answers))
    BY <1>2, <1>8
  <2>2. c \in AskCalls => Rank(c) \in Nat /\ Len(answers) \in Nat
    BY <1>3, RankPositive
  <2>3. decisions'[c] = Verdict(c)'
    BY <1>2, <2>1, <2>2, SameQuestions DEF Verdict
  <2>4. c \in AskCalls => decisions'[c] \in Answers
    <3> SUFFICES ASSUME c \in AskCalls PROVE decisions'[c] \in Answers
      OBVIOUS
    <3>1. Rank(c) \in 1 .. Len(answers)
      BY <1>3, <2>1, RankPositive
    <3>2. decisions'[c] = answers[Rank(c)]
      BY <1>2, <2>1, <2>2, SameQuestions
    <3> QED
      BY <1>3, <3>1, <3>2
  <2>5. c \notin AskCalls => decisions'[c] = "none"
    BY <2>3 DEF Verdict
  <2> QED
    BY <1>6, <2>3, <2>4, <2>5
<1>12. NothingLeftOpen' /\ RunsWereAllowed'
  BY <1>2 DEF Undisturbed, NothingLeftOpen, RunsWereAllowed, DeclinedNeverRuns
<1> QED
  BY <1>2, <1>7, <1>9, <1>10, <1>11, <1>12 DEF Undisturbed

LEMMA PauseIsFaithful ==
  ASSUME GateTypeOK, InOrder, Undisturbed, PauseForApproval
  PROVE  Undisturbed'
<1>1. /\ phase = "pausing" /\ position \in AskCalls /\ position \in Calls
      /\ resume = "none" /\ Rank(position) = Len(memo) + 1
      /\ allowing = {} /\ ToolOf[position] \in registered
  BY AskingIsCalling, BatchOfCalls
     DEF PauseForApproval, Undisturbed, AskedInOrder, AllowedWithApproval
<1>2. Verdict(position) = "none"
  <2>1. Len(memo) \in Nat
    BY DEF GateTypeOK
  <2> QED
    BY <1>1, <2>1 DEF Verdict
<1>3. row[position] = "none"
  BY <1>1, <1>2, RowsAtFirst, RowOfAnswers
<1>4. /\ phase' = "waiting" /\ row' = [row EXCEPT ![position] = "pending_approval"]
      /\ UNCHANGED <<permission, registered, memo, resume, persona, inFlight, position,
                     decisions, ran, allowing, edits>>
  BY <1>1, <1>3 DEF PauseForApproval
<1>5. \A c \in Calls : row'[c] = IF c = position THEN "pending_approval" ELSE row[c]
  BY <1>4 DEF GateTypeOK
<1>6. \A c \in Calls : Verdict(c)' = Verdict(c)
  BY <1>4 DEF Verdict
<1>7. RowsFollow'
  BY <1>1, <1>4, <1>5, <1>6, RowsAtFirst DEF RowsFollow
<1>8. AskedInOrder'
  BY <1>1, <1>4 DEF AskedInOrder
<1>9. AllowedWithApproval'
  BY <1>1, <1>3, <1>4, <1>5 DEF Undisturbed, AllowedWithApproval
<1>10. GateStands' /\ BatchRuns' /\ NothingLeftOpen'
  BY <1>4 DEF GateStands, BatchRuns, NothingLeftOpen
<1>11. RunsWereAllowed'
  <2>1. \A c \in Calls : ran'[c] = 0
    BY <1>1, <1>4 DEF InOrder, NothingRunsBeforeEveryAnswer
  <2> QED
    BY <2>1 DEF RunsWereAllowed, DeclinedNeverRuns
<1> QED
  BY <1>4, <1>7, <1>8, <1>9, <1>10, <1>11 DEF Undisturbed

\* The owner's answer reaches the call that asks, and no other.
LEMMA AnswerIsFaithful ==
  ASSUME GateTypeOK, InOrder, Undisturbed, NEW c \in Calls, NEW answer \in Answers,
         Answer(c, answer), permission' = permission, allowing' = {},
         allowing = {} \/ answer = "approve"
  PROVE  Undisturbed'
<1>1. /\ phase = "waiting" /\ phase' = "queued" /\ resume' = answer
      /\ row' = [row EXCEPT ![c] = RowOf(answer)]
      /\ UNCHANGED <<permission, registered, memo, persona, inFlight, position, decisions, ran>>
  BY RowOfAnswers DEF Answer, Answers
<1>2. /\ c = position /\ c \in AskCalls /\ Rank(c) = Len(memo) + 1
      /\ allowing \subseteq {c} /\ resume = "none"
  BY <1>1, RowsAtFirst DEF Answer, Undisturbed, AskedInOrder, AllowedWithApproval
<1>3. \A d \in Calls : row'[d] = IF d = c THEN RowOf(answer) ELSE row[d]
  BY <1>1 DEF GateTypeOK
<1>4. Len(memo) \in Nat
  BY DEF GateTypeOK
<1>5. Verdict(c)' = answer
  BY <1>1, <1>2, <1>4 DEF Verdict
<1>6. ASSUME NEW d \in Calls, d # c PROVE Verdict(d)' = Verdict(d)
  <2>1. CASE d \in AskCalls
    <3>1. Rank(d) # Len(memo) + 1
      BY <1>2, <1>6, <2>1, RankIsInjective
    <3> QED
      BY <1>1, <2>1, <3>1 DEF Verdict
  <2> QED
    BY <2>1 DEF Verdict
<1>7. \A d \in Calls : row'[d] = RowOf(Verdict(d)')
  BY <1>1, <1>2, <1>3, <1>5, <1>6, RowsAtFirst
<1>8. RowsFollow'
  BY <1>1, <1>7 DEF RowsFollow
<1>9. AskedInOrder'
  BY <1>1, <1>2 DEF AskedInOrder
<1>10. AllowedWithApproval'
  <2>1. row[c] = "pending_approval"
    BY DEF Answer
  <2>2. ASSUME NEW d \in Calls, row[d] = "approved" \/ d \in allowing
        PROVE  row'[d] = "approved"
    BY <1>2, <1>3, <2>1, <2>2, RowOfAnswers
  <2> QED
    BY <1>1, <2>2 DEF Undisturbed, AllowedWithApproval
<1>11. GateStands' /\ BatchRuns'
  BY <1>1 DEF GateStands, BatchRuns
<1>12. NothingLeftOpen'
  <2>1. ASSUME NEW d \in Calls PROVE row'[d] # "pending_approval"
    BY <1>1, <1>2, <1>3, RowOfAnswers, RowsAtFirst
  <2> QED
    BY <1>1, <2>1 DEF NothingLeftOpen
<1>13. RunsWereAllowed'
  <2>1. \A d \in Calls : ran'[d] = 0
    BY <1>1 DEF InOrder, NothingRunsBeforeEveryAnswer
  <2> QED
    BY <2>1 DEF RunsWereAllowed, DeclinedNeverRuns
<1> QED
  BY <1>1, <1>8, <1>9, <1>10, <1>11, <1>12, <1>13 DEF Undisturbed

LEMMA AllowIsFaithful ==
  ASSUME GateTypeOK, Undisturbed, NEW c \in Calls, PersistAlwaysAllow(c),
         edits = 0, edits' = 0
  PROVE  Undisturbed'
<1>1. row[c] = "pending_approval" /\ allowing = {}
  BY EditType DEF PersistAlwaysAllow, Edit
<1>2. phase = "waiting" /\ c = position /\ c \in AskCalls
  BY <1>1 DEF Undisturbed, NothingLeftOpen, RowsFollow, AskedInOrder, RowOf
<1>3. /\ permission' = [permission EXCEPT ![ToolOf[c]] = "allow"]
      /\ allowing' = {c} /\ ToolOf[c] \in AskTools \ Destructive
      /\ UNCHANGED <<registered, row, memo, resume, phase, persona, inFlight, position,
                     decisions, ran>>
  BY <1>1, <1>2 DEF PersistAlwaysAllow, AskCalls
<1>4. \A t \in Tools : permission'[t] = IF t = ToolOf[c] THEN "allow" ELSE permission[t]
  BY <1>3 DEF GateTypeOK
<1>5. AllowedWithApproval'
  BY <1>1, <1>2, <1>3, <1>4 DEF Undisturbed, AllowedWithApproval
<1>6. RowsFollow' /\ AskedInOrder'
  BY <1>3 DEF Undisturbed, RowsFollow, AskedInOrder, Verdict
<1>7. GateStands' /\ BatchRuns' /\ NothingLeftOpen'
  BY <1>2, <1>3 DEF Undisturbed, GateStands, BatchRuns, NothingLeftOpen
<1>8. RunsWereAllowed'
  BY <1>3 DEF Undisturbed, RunsWereAllowed, DeclinedNeverRuns
<1> QED
  BY <1>3, <1>5, <1>6, <1>7, <1>8 DEF Undisturbed

\* Phase 2 carries out what was decided, the call at position first.
LEMMA PhaseTwoIsFaithful ==
  ASSUME DelegationIsUngated, GateTypeOK, InOrder, Undisturbed, PhaseTwo
  PROVE  Undisturbed'
<1> PICK p \in Calls : p = position
  BY PhaseTwoStep
<1> DEFINE t == ToolOf[p]
<1>1. /\ phase = "executing" /\ position = p
      /\ \/ position' = p + 1
            /\ phase' = IF p = Len(ToolOf) THEN "done" ELSE "executing"
         \/ phase' = "failed" /\ position' = p
      /\ \/ ran' = ran
         \/ ran' = [ran EXCEPT ![p] = 1]
      /\ \/ row' = row
         \/ \E s \in {"executed", "failed"} : row' = [row EXCEPT ![p] = s]
      /\ UNCHANGED <<permission, registered, memo, resume, persona, inFlight, decisions,
                     allowing, edits>>
  BY PhaseTwoStep
<1>2. p \in Nat /\ Calls = 1 .. Len(ToolOf) /\ Len(ToolOf) \in Nat /\ t \in Tools
  BY <1>1, BatchOfCalls
<1>3. /\ GatedThisTurn(t) <=> p \in AskCalls
      /\ p \in AskCalls => t \in OriginAllowed /\ EffectivePermission(t) # "blocked"
      /\ t \in OriginAllowed /\ EffectivePermission(t) # "blocked" /\ t \in Destructive =>
           p \in AskCalls
      /\ p \in AskCalls => t \notin Delegating
      /\ t \in registered
  <2>1. p \in AskCalls <=> t \in AskTools
    BY <1>1 DEF AskCalls
  <2>2. /\ GatedThisTurn(t) <=> t \in AskTools
        /\ persona[t] = Permission[t] \/ (persona[t] = "allow" /\ t \in AskTools \ Destructive)
    BY <1>1, <1>2 DEF Undisturbed, GateStands
  <2>3. t \in AskTools => t \in OriginAllowed /\ EffectivePermission(t) # "blocked"
    BY <2>2 DEF AskTools, EffectivePermission
  <2>4. t \in OriginAllowed /\ EffectivePermission(t) # "blocked" /\ t \in Destructive =>
          t \in AskTools
    BY <2>2 DEF GatedThisTurn, EffectivePermission
  <2>5. t \in AskTools => t \notin Delegating
    BY DEF DelegationIsUngated
  <2>6. t \in registered
    BY <1>2 DEF Undisturbed
  <2> QED
    BY <2>1, <2>2, <2>3, <2>4, <2>5, <2>6
<1>4. /\ IF p \in AskCalls THEN decisions[p] \in Answers ELSE decisions[p] = "none"
      /\ row[p] = RowOf(decisions[p])
      /\ \A c \in Calls : /\ IF c \in AskCalls THEN decisions[c] \in Answers
                                               ELSE decisions[c] = "none"
                          /\ c < p => Carried(c)
                          /\ c > p => row[c] = RowOf(decisions[c])
  BY <1>1, <1>2 DEF Undisturbed, BatchRuns
<1>5. \A c \in Calls : c # p => row'[c] = row[c] /\ ran'[c] = ran[c]
  BY <1>1 DEF GateTypeOK
<1>6. ran \in [Calls -> 0 .. MaxRuns] /\ row \in [Calls -> Rows] /\ ran[p] = 0
  BY <1>1, <1>2 DEF GateTypeOK, InOrder
\* What became of the call: refused, declined, executed, or a failed turn.
<1>7. \/ /\ p \notin AskCalls /\ row'[p] = "none"
         /\ ran'[p] > 0 => t \notin Destructive
      \/ p \in AskCalls /\ decisions[p] = "reject" /\ row'[p] = "rejected" /\ ran'[p] = 0
      \/ /\ row'[p] \in {"executed", "failed"}
         /\ decisions[p] # "reject"
      \/ /\ phase' = "failed" /\ row'[p] = "approved"
  <2> DEFINE runnable == /\ t \in registered /\ t \in OriginAllowed
                         /\ EffectivePermission(t) # "blocked"
  <2>1. CASE ~runnable /\ Refused
    <3>1. p \notin AskCalls /\ row' = row /\ ran' = ran
      BY <1>3, <2>1 DEF Refused
    <3> QED
      BY <1>4, <1>6, <3>1, RowOfAnswers
  <2>2. CASE runnable /\ t \in Delegating /\ Delegate
    <3>1. p \notin AskCalls /\ row' = row /\ t \notin Destructive
      BY <1>3, <2>2 DEF Delegate
    <3> QED
      BY <1>4, <3>1, RowOfAnswers
  <2>3. CASE runnable /\ GatedThisTurn(t) /\ decisions[p] = "approve" /\ RunAndReport(TRUE)
    <3>1. row[p] = "approved" /\ decisions[p] # "reject"
      BY <1>4, <2>3, RowOfAnswers
    <3>2. \/ \E s \in {"executed", "failed"} : row' = [row EXCEPT ![p] = s]
          \/ phase' = "failed" /\ row' = row
      BY <2>3 DEF RunAndReport, Fails
    <3>3. row'[p] \in {"executed", "failed"} \/ (phase' = "failed" /\ row'[p] = "approved")
      BY <1>1, <1>6, <3>1, <3>2
    <3> QED
      BY <3>1, <3>3
  <2>4. CASE GatedThisTurn(t) /\ decisions[p] = "reject" /\ Refused
    <3>1. p \in AskCalls /\ row' = row /\ ran' = ran /\ row[p] = "rejected"
      BY <1>3, <1>4, <2>4, RowOfAnswers DEF Refused
    <3> QED
      BY <1>6, <2>4, <3>1
  <2>5. CASE GatedThisTurn(t) /\ decisions[p] = "none"
    BY <1>3, <1>4, <2>5 DEF Answers
  <2>6. CASE runnable /\ ~GatedThisTurn(t) /\ RunAndReport(FALSE)
    <3>1. p \notin AskCalls /\ t \notin Destructive /\ row[p] = "none" /\ decisions[p] = "none"
      BY <1>3, <1>4, <2>6, RowOfAnswers
    <3>2. \/ \E s \in {"executed", "failed"} : row' = [row EXCEPT ![p] = s]
          \/ row' = row
      BY <2>6 DEF RunAndReport
    <3>3. row'[p] \in {"executed", "failed"} \/ row'[p] = "none"
      BY <1>1, <1>6, <3>1, <3>2
    <3> QED
      BY <3>1, <3>3
  <2>7. PhaseTwo
    OBVIOUS
  <2> QED
    BY <2>1, <2>2, <2>3, <2>4, <2>5, <2>6, <2>7 DEF PhaseTwo
<1>8. phase' # "failed" => Carried(p)'
  <2>1. CASE p \notin AskCalls /\ row'[p] = "none"
    BY <1>1, <1>4, <2>1 DEF Carried
  <2>2. CASE decisions[p] = "reject" /\ row'[p] = "rejected"
    BY <1>1, <2>2 DEF Carried
  <2>3. CASE row'[p] \in {"executed", "failed"} /\ decisions[p] # "reject"
    BY <1>1, <2>3 DEF Carried
  <2> QED
    BY <1>7, <2>1, <2>2, <2>3
<1>9. \A c \in Calls : c < p => Carried(c)'
  BY <1>1, <1>2, <1>4, <1>5 DEF Carried
<1>10. BatchRuns'
  <2> SUFFICES ASSUME phase' = "executing", NEW c \in Calls
               PROVE  /\ IF c \in AskCalls THEN decisions'[c] \in Answers
                                           ELSE decisions'[c] = "none"
                      /\ IF c >= position' THEN row'[c] = RowOf(decisions'[c])
                                           ELSE Carried(c)'
    BY DEF BatchRuns
  <2>1. position' = p + 1 /\ decisions' = decisions /\ c \in Nat
    BY <1>1, <1>2
  <2>2. CASE c > p
    BY <1>2, <1>4, <1>5, <2>1, <2>2
  <2>3. CASE c <= p
    BY <1>2, <1>4, <1>8, <1>9, <2>1, <2>3
  <2> QED
    BY <1>2, <2>1, <2>2, <2>3
<1>11. NothingLeftOpen'
  <2>1. ASSUME NEW c \in Calls PROVE row'[c] # "pending_approval"
    BY <1>1, <1>5, <1>7 DEF Undisturbed, NothingLeftOpen
  <2>2. ASSUME phase' = "done", NEW c \in Calls PROVE Carried(c)'
    <3>1. p = Len(ToolOf) /\ c \in Nat /\ c <= p
      BY <1>1, <1>2, <2>2
    <3> QED
      BY <1>2, <1>8, <1>9, <2>2, <3>1
  <2> QED
    BY <2>1, <2>2 DEF NothingLeftOpen
<1>12. RunsWereAllowed'
  <2>1. ASSUME NEW c \in Calls
        PROVE  /\ row'[c] = "rejected" => ran'[c] = 0
               /\ ToolOf[c] \in Destructive /\ ran'[c] > 0 =>
                    row'[c] \in {"approved", "executed", "failed"}
    <3>1. CASE c = p
      BY <1>6, <1>7, <3>1
    <3>2. CASE c # p
      BY <1>5, <3>2 DEF Undisturbed, RunsWereAllowed, DeclinedNeverRuns
    <3> QED
      BY <3>1, <3>2
  <2> QED
    BY <2>1 DEF RunsWereAllowed, DeclinedNeverRuns
<1>13. phase' \in {"executing", "done", "failed"}
  BY <1>1
<1>14. RowsFollow' /\ AskedInOrder'
  BY <1>1, <1>13 DEF Undisturbed, RowsFollow, AskedInOrder
<1>15. AllowedWithApproval'
  BY <1>1, <1>13 DEF Undisturbed, AllowedWithApproval
<1>16. GateStands'
  BY <1>1 DEF Undisturbed, GateStands, GatedThisTurn, EffectivePermission
<1> QED
  BY <1>1, <1>10, <1>11, <1>12, <1>14, <1>15, <1>16 DEF Undisturbed

\* Answers that come while an Always-allow is under way count as an edit.
LEMMA DecideIsFaithful ==
  ASSUME GateTypeOK, InOrder, Undisturbed, Decide, edits = 0, edits' = 0
  PROVE  Undisturbed'
<1>1. ASSUME NEW c \in Calls, NEW answer \in Answers, Resolve(c, answer)
      PROVE  Undisturbed'
  <2>1. Answer(c, answer) /\ permission' = permission /\ allowing' = allowing
    BY <1>1 DEF Resolve
  <2>2. allowing = {}
    BY <1>1, EditType DEF Resolve, Edit
  <2> QED
    BY <2>1, <2>2, AnswerIsFaithful
<1>2. ASSUME NEW c \in Calls, PersistAlwaysAllow(c)
      PROVE  Undisturbed'
  BY <1>2, AllowIsFaithful
<1>3. ASSUME NEW c \in Calls, ThenApprove(c)
      PROVE  Undisturbed'
  <2>1. c \in allowing /\ allowing' = allowing \ {c} /\ permission' = permission
    BY <1>3 DEF ThenApprove
  <2>2. CASE Answer(c, "approve")
    <3>1. allowing' = {}
      BY <2>1, <2>2 DEF Answer, Undisturbed, AllowedWithApproval
    <3>2. PICK yes \in Answers : yes = "approve"
      BY DEF Answers
    <3>3. Answer(c, yes)
      BY <2>2, <3>2
    <3> QED
      BY <2>1, <3>1, <3>2, <3>3, AnswerIsFaithful
  <2>3. CASE /\ phase # "waiting" \/ row[c] # "pending_approval"
             /\ UNCHANGED <<registered, row, memo, resume, phase, persona, inFlight, position,
                            decisions, ran>>
    <3>1. phase \notin {"queued", "built", "pausing", "executing"}
      BY <2>1 DEF Undisturbed, AllowedWithApproval
    <3>2. phase # "waiting"
      BY <2>1, <2>3 DEF Undisturbed, AllowedWithApproval, RowsFollow
    <3>3. RowsFollow' /\ AskedInOrder' /\ AllowedWithApproval'
      BY <2>3, <3>1, <3>2 DEF RowsFollow, AskedInOrder, AllowedWithApproval
    <3>4. GateStands' /\ BatchRuns' /\ NothingLeftOpen' /\ RunsWereAllowed'
      BY <2>3, <3>1, <3>2
         DEF Undisturbed, GateStands, BatchRuns, NothingLeftOpen, RunsWereAllowed,
             DeclinedNeverRuns, Carried
    <3> QED
      BY <2>3, <3>3, <3>4 DEF Undisturbed
  <2> QED
    BY <1>3, <2>2, <2>3 DEF ThenApprove
<1> QED
  BY <1>1, <1>2, <1>3 DEF Decide

LEMMA EndIsFaithful ==
  ASSUME GateTypeOK, InOrder, Undisturbed, TurnLost \/ CancelWaiting
  PROVE  Undisturbed'
<1>1. /\ phase' \in {"failed", "cancelled"}
      /\ UNCHANGED <<registered, ran>>
  BY DEF TurnLost, CancelWaiting
<1>2. ASSUME NEW c \in Calls PROVE row'[c] # "pending_approval"
  BY DEF TurnLost, CancelWaiting, Undisturbed, NothingLeftOpen
<1>3. RunsWereAllowed'
  <2>1. CASE TurnLost
    BY <2>1 DEF TurnLost, Undisturbed, RunsWereAllowed, DeclinedNeverRuns
  <2>2. CASE CancelWaiting
    <3>1. \A c \in Calls : ran'[c] = 0
      BY <2>2 DEF CancelWaiting, InOrder, NothingRunsBeforeEveryAnswer
    <3> QED
      BY <3>1 DEF RunsWereAllowed, DeclinedNeverRuns
  <2> QED
    BY <2>1, <2>2
<1>4. RowsFollow' /\ AskedInOrder' /\ AllowedWithApproval'
  BY <1>1 DEF RowsFollow, AskedInOrder, AllowedWithApproval
<1>5. GateStands' /\ BatchRuns' /\ NothingLeftOpen'
  BY <1>1, <1>2 DEF GateStands, BatchRuns, NothingLeftOpen
<1> QED
  BY <1>1, <1>3, <1>4, <1>5 DEF Undisturbed

LEMMA StepIsFaithful ==
  ASSUME DelegationIsUngated, GateTypeOK, InOrder, edits = 0 => Undisturbed,
         [GateNext]_gateVars
  PROVE  edits' = 0 => Undisturbed'
<1> SUFFICES ASSUME edits' = 0 PROVE Undisturbed'
  OBVIOUS
<1>1. edits = 0
  <2>1. edits \in Nat
    BY DEF GateTypeOK
  <2>2. edits' = edits \/ edits' = edits + 1
    BY DEF GateNext, Turn, Decide, gateVars, Build, PhaseOne, PauseForApproval, PhaseTwo,
           TurnLost, Resolve, PersistAlwaysAllow, ThenApprove, CancelWaiting, EditPersona,
           EditRegistry, Edit
  <2> QED
    BY <2>1, <2>2
<1>2. Undisturbed
  BY <1>1
<1>3. CASE Build
  BY <1>2, <1>3, BuildIsFaithful
<1>4. CASE PhaseOne
  BY <1>2, <1>4, PhaseOneIsFaithful
<1>5. CASE PauseForApproval
  BY <1>2, <1>5, PauseIsFaithful
<1>6. CASE PhaseTwo
  BY <1>2, <1>6, PhaseTwoIsFaithful
<1>7. CASE TurnLost \/ CancelWaiting
  BY <1>2, <1>7, EndIsFaithful
<1>8. CASE Decide
  BY <1>1, <1>2, <1>8, DecideIsFaithful
<1>9. CASE \E t \in Tools : EditRegistry(t) \/ \E q \in Permissions : EditPersona(t, q)
  BY <1>1, <1>9 DEF EditRegistry, EditPersona, Edit
<1>10. CASE UNCHANGED gateVars
  BY <1>2, <1>10
     DEF gateVars, Undisturbed, RowsFollow, AskedInOrder, AllowedWithApproval, GateStands,
         BatchRuns, NothingLeftOpen, RunsWereAllowed, DeclinedNeverRuns, Verdict, Carried,
         GatedThisTurn, EffectivePermission
<1> QED
  BY <1>3, <1>4, <1>5, <1>6, <1>7, <1>8, <1>9, <1>10 DEF GateNext, Turn

LEMMA BatchStartsUndisturbed == GateInit => Undisturbed
<1> SUFFICES ASSUME GateInit PROVE Undisturbed
  OBVIOUS
<1>1. GateTypeOK
  BY InitHasTypes
<1>2. ASSUME NEW c \in Calls PROVE Verdict(c) = "none"
  <2>1. resume = "none" /\ Len(memo) = 0
    BY DEF GateInit
  <2>2. c \in AskCalls => ~ (Rank(c) <= Len(memo))
    BY <2>1, RankPositive
  <2> QED
    BY <2>1, <2>2 DEF Verdict
<1>3. RowsFollow
  BY <1>2, RowOfAnswers DEF GateInit, RowsFollow
<1> QED
  BY <1>3 DEF GateInit, Undisturbed, AskedInOrder, AllowedWithApproval, GateStands, BatchRuns,
              NothingLeftOpen, RunsWereAllowed, DeclinedNeverRuns

(* Unless something is edited meanwhile, and as long as no delegation asks, *)
(* each decision reaches the call it was made for: for every batch and      *)
(* every persona, through any number of pauses and replays, declined calls  *)
(* never run, destructive ones run only approved, and a finished batch has  *)
(* the outcome of every decision on record (callTools() with interrupt()).  *)
THEOREM DecisionsReachTheirCalls ==
  ASSUME DelegationIsUngated
  PROVE  GateSpec => []DecisionsAreCarriedOut
<1> DEFINE GateInv == GateTypeOK /\ InOrder /\ (edits = 0 => Undisturbed)
<1>1. GateInit => GateInv
  BY InitHasTypes, BatchStartsUndisturbed
<1>2. GateInv /\ [GateNext]_gateVars => GateInv'
  <2> SUFFICES ASSUME GateInv, [GateNext]_gateVars PROVE GateInv'
    OBVIOUS
  <2>1. GateTypeOK' /\ InOrder'
    BY StepKeepsTypes
  <2>2. edits' = 0 => Undisturbed'
    BY StepIsFaithful
  <2> QED
    BY <2>1, <2>2
<1>3. GateInv => DecisionsAreCarriedOut
  BY DEF InOrder, Undisturbed, RunsWereAllowed, NothingLeftOpen, Carried,
         DecisionsAreCarriedOut
<1> QED
  BY <1>1, <1>2, <1>3, PTL DEF GateSpec

-----------------------------------------------------------------------------
(* What the model is told (Conversation).  Only a prompt is a place where   *)
(* old messages are cut off, and a run adds a prompt only as its first      *)
(* message: so what a summary stands for was in the checkpoint when it was  *)
(* made, and no crash takes it back.                                        *)

ThreadMessage == [role : {"user", "assistant", "calls", "tool"}, turn : Nat, at : Nat, nth : Nat]
ThreadSummary == [count : Nat, tells : SUBSET ThreadMessage]
GraphRun == [pc : {"thread_hygiene", "model", "tools", "end"}, number : Nat,
             initial : ThreadSummary, summary : ThreadSummary, messages : Seq(ThreadMessage)]

ConversationFits ==
  /\ prompts \in Nat
  /\ chat \in [status : {"new", "queued", "running", "done", "failed", "cancelled"},
               input : {"user_message", "retry"}, runs : Nat]
  /\ thread \in [messages : Seq(ThreadMessage), summary : ThreadSummary]
  /\ stored \in ThreadSummary
  /\ run \in {NoRun} \cup GraphRun
  /\ run.pc # "none" => run \in GraphRun /\ chat.status = "running"
  /\ chat.status # "new" => prompts > 0

\* A summary tells of each message it stands for.
Covers(summary, messages) ==
  summary.count <= Len(messages) /\ \A i \in 1 .. summary.count : messages[i] \in summary.tells

Extends(messages, prefix) ==
  /\ Len(prefix) <= Len(messages) /\ \A i \in 1 .. Len(prefix) : messages[i] = prefix[i]
  /\ \A i \in DOMAIN messages : IsUser(messages, i) => i <= Len(prefix) + 1

SummariesTell ==
  /\ Covers(thread.summary, thread.messages) /\ Covers(stored, thread.messages)
  /\ run.pc # "none" =>
       /\ Extends(run.messages, thread.messages)
       /\ Covers(run.summary, thread.messages) /\ Covers(run.initial, thread.messages)

PromptsOf(messages) == {i \in DOMAIN messages : IsUser(messages, i)}

\* The newest prompt of the messages is the newest of the transcript.
AsksNewest(messages) ==
  \E i \in PromptsOf(messages) :
    messages[i].turn = prompts /\ \A j \in PromptsOf(messages) : j <= i

\* No more prompts reach the thread than were asked; and when as many did,
\* the newest is among them.
PromptsCounted ==
  /\ UserTurns(thread.messages) <= prompts
  /\ UserTurns(thread.messages) = prompts /\ prompts > 0 => AsksNewest(thread.messages)
  /\ chat.status = "queued" /\ chat.input = "user_message" => UserTurns(thread.messages) < prompts
  /\ run.pc # "none" => UserTurns(run.messages) <= prompts /\ AsksNewest(run.messages)

ConversationInv == ConversationFits /\ SummariesTell /\ PromptsCounted

-----------------------------------------------------------------------------
LEMMA ExtendedIsCovered ==
  ASSUME NEW messages \in Seq(ThreadMessage), NEW prefix \in Seq(ThreadMessage),
         NEW summary \in ThreadSummary, Extends(messages, prefix), Covers(summary, prefix)
  PROVE  Covers(summary, messages)
<1>1. summary.count \in Nat /\ Len(prefix) \in Nat /\ Len(messages) \in Nat
  BY DEF ThreadSummary
<1> QED
  BY <1>1 DEF Covers, Extends

LEMMA PromptsAreFinite ==
  ASSUME NEW messages \in Seq(ThreadMessage)
  PROVE  /\ IsFiniteSet(PromptsOf(messages)) /\ PromptsOf(messages) \subseteq 1 .. Len(messages)
         /\ UserTurns(messages) = Cardinality(PromptsOf(messages)) /\ UserTurns(messages) \in Nat
<1>1. IsFiniteSet(1 .. Len(messages)) /\ PromptsOf(messages) \subseteq 1 .. Len(messages)
  BY FS_Interval DEF PromptsOf
<1>2. IsFiniteSet(PromptsOf(messages))
  BY <1>1, FS_Subset
<1>3. UserTurns(messages) = Cardinality(PromptsOf(messages))
  BY DEF UserTurns, PromptsOf
<1> QED
  BY <1>1, <1>2, <1>3, FS_CardinalityType

LEMMA NoSummaryTells ==
  ASSUME NEW messages \in Seq(ThreadMessage)
  PROVE  /\ NoSummary \in ThreadSummary /\ NoSummary.count = 0 /\ Covers(NoSummary, messages)
         /\ ValidAtSafeBoundary(NoSummary, messages)
<1>1. NoSummary \in ThreadSummary /\ NoSummary.count = 0
  BY DEF NoSummary, ThreadSummary
<1> QED
  BY <1>1 DEF Covers, ValidAtSafeBoundary

LEMMA SelectedTells ==
  ASSUME NEW messages \in Seq(ThreadMessage), NEW prefix \in Seq(ThreadMessage),
         NEW one \in ThreadSummary, NEW other \in ThreadSummary,
         Covers(one, prefix), Covers(other, prefix)
  PROVE  LET s == selectThreadSummary(one, other, messages)
         IN  /\ s \in ThreadSummary /\ Covers(s, prefix) /\ ValidAtSafeBoundary(s, messages)
             /\ s \in {NoSummary, one, other}
<1>1. PICK valid : valid = {s \in {one, other} : ValidAtSafeBoundary(s, messages)}
  OBVIOUS
<1>2. PICK s : s = IF valid = {} THEN NoSummary
                   ELSE IF valid = {one, other}
                     THEN IF one.count > other.count THEN one ELSE other
                   ELSE CHOOSE t \in valid : TRUE
  OBVIOUS
<1>3. s = NoSummary \/ s \in valid
  <2>1. valid # {} => (CHOOSE t \in valid : TRUE) \in valid
    OBVIOUS
  <2>2. valid = {one, other} => one \in valid /\ other \in valid
    OBVIOUS
  <2> QED
    BY <1>2, <2>1, <2>2
<1>4. /\ s \in ThreadSummary /\ Covers(s, prefix) /\ ValidAtSafeBoundary(s, messages)
      /\ s \in {NoSummary, one, other}
  BY <1>1, <1>3, NoSummaryTells
<1>5. s = selectThreadSummary(one, other, messages)
  BY <1>1, <1>2 DEF selectThreadSummary
<1> QED
  BY <1>4, <1>5

\* Old messages end before a prompt.
LEMMA CutsBeforeAPrompt ==
  ASSUME NEW messages \in Seq(ThreadMessage)
  PROVE  /\ recentContextStart(messages) \in Nat
         /\ \/ recentContextStart(messages) = 0
            \/ recentContextStart(messages) + 1 \in PromptsOf(messages)
<1>1. PICK turns, fitting :
        /\ turns = {i \in 2 .. Len(messages) : IsUser(messages, i)}
        /\ fitting = {i \in turns : Len(messages) - i + 1 <= RECENT_CONTEXT_TOKEN_BUDGET}
  OBVIOUS
<1>2. /\ Len(messages) \in Nat /\ turns \subseteq 0 .. Len(messages) /\ turns \subseteq PromptsOf(messages)
      /\ \A i \in turns : i \in Nat /\ i - 1 \in Nat /\ (i - 1) + 1 = i
      /\ fitting \subseteq turns /\ fitting \subseteq Nat
  BY <1>1 DEF PromptsOf
<1>3. PICK low, high : /\ low = CHOOSE i \in fitting : \A j \in fitting : i <= j
                       /\ high = CHOOSE i \in turns : \A j \in turns : j <= i
  OBVIOUS
<1>4. fitting # {} => low \in fitting
  <2>1. fitting # {} => \E i \in fitting : \A j \in fitting : i <= j
    BY <1>2, LeastMember
  <2> QED
    BY <1>3, <2>1
<1>5. turns # {} => high \in turns
  <2>1. turns # {} => \E i \in turns : \A j \in turns : j <= i
    BY <1>2, GreatestMember
  <2> QED
    BY <1>3, <2>1
<1>6. recentContextStart(messages) = IF fitting # {} THEN low - 1
                                     ELSE IF turns # {} THEN high - 1 ELSE 0
  BY <1>1, <1>3 DEF recentContextStart
<1>7. CASE fitting # {}
  BY <1>2, <1>4, <1>6, <1>7
<1>8. CASE fitting = {} /\ turns # {}
  BY <1>2, <1>5, <1>6, <1>8
<1>9. CASE fitting = {} /\ turns = {}
  BY <1>6, <1>9
<1> QED
  BY <1>7, <1>8, <1>9

\* A step of the graph that adds a message which is no prompt.
LEMMA PromptsStay ==
  ASSUME NEW messages \in Seq(ThreadMessage), NEW m \in ThreadMessage, m.role # "user"
  PROVE  /\ Append(messages, m) \in Seq(ThreadMessage)
         /\ PromptsOf(Append(messages, m)) = PromptsOf(messages)
         /\ \A i \in PromptsOf(messages) : Append(messages, m)[i] = messages[i]
<1>1. PICK new : new = Append(messages, m)
  OBVIOUS
<1>2. /\ new \in Seq(ThreadMessage) /\ Len(new) = Len(messages) + 1 /\ new[Len(messages) + 1] = m
      /\ \A i \in 1 .. Len(messages) : new[i] = messages[i]
  BY <1>1
<1>3. PromptsOf(new) = PromptsOf(messages)
  BY <1>2 DEF PromptsOf, IsUser
<1> QED
  BY <1>1, <1>2, <1>3, PromptsAreFinite

LEMMA PromptIsAdded ==
  ASSUME NEW messages \in Seq(ThreadMessage), NEW m \in ThreadMessage, m.role = "user"
  PROVE  /\ Append(messages, m) \in Seq(ThreadMessage)
         /\ PromptsOf(Append(messages, m)) = PromptsOf(messages) \cup {Len(messages) + 1}
         /\ UserTurns(Append(messages, m)) = UserTurns(messages) + 1
         /\ Append(messages, m)[Len(messages) + 1] = m
<1>1. PICK new : new = Append(messages, m)
  OBVIOUS
<1>2. /\ new \in Seq(ThreadMessage) /\ Len(new) = Len(messages) + 1 /\ new[Len(messages) + 1] = m
      /\ \A i \in 1 .. Len(messages) : new[i] = messages[i]
  BY <1>1
<1>3. PromptsOf(new) = PromptsOf(messages) \cup {Len(messages) + 1}
  BY <1>2 DEF PromptsOf, IsUser
<1>4. Len(messages) + 1 \notin PromptsOf(messages)
  BY DEF PromptsOf
<1>5. UserTurns(new) = UserTurns(messages) + 1
  <2>1. PICK S, last : S = PromptsOf(messages) /\ last = Len(messages) + 1
    OBVIOUS
  <2>2. IsFiniteSet(S) /\ last \notin S
    BY <1>4, <2>1, PromptsAreFinite
  <2>3. Cardinality(S \cup {last}) = Cardinality(S) + 1
    BY <2>2, FS_AddElement
  <2> QED
    BY <1>2, <1>3, <2>1, <2>3, PromptsAreFinite
<1> QED
  BY <1>1, <1>2, <1>3, <1>5

LEMMA NoRunIsNone == NoRun.pc = "none" /\ \A r \in GraphRun : r.pc # "none"
  BY DEF NoRun, GraphRun

LEMMA ConversationStarts == ConversationInit => ConversationInv
<1> SUFFICES ASSUME ConversationInit PROVE ConversationInv
  OBVIOUS
<1>1. PICK none : none = <<>>
  OBVIOUS
<1>2. none \in Seq(ThreadMessage) /\ Len(none) = 0 /\ PromptsOf(none) = {}
  BY <1>1 DEF PromptsOf
<1>3. UserTurns(none) = 0
  BY <1>2, PromptsAreFinite, FS_EmptySet
<1>4. /\ prompts = 0 /\ chat = [status |-> "new", input |-> "user_message", runs |-> 0]
      /\ thread = [messages |-> none, summary |-> NoSummary] /\ stored = NoSummary /\ run = NoRun
  BY <1>1 DEF ConversationInit
<1>5. NoSummary \in ThreadSummary /\ Covers(NoSummary, none)
  BY <1>2, NoSummaryTells
<1>6. /\ thread.messages = none /\ thread.summary = NoSummary
      /\ thread \in [messages : Seq(ThreadMessage), summary : ThreadSummary]
  BY <1>2, <1>4, <1>5
<1>7. ConversationFits
  BY <1>4, <1>5, <1>6, NoRunIsNone DEF ConversationFits
<1> QED
  BY <1>3, <1>4, <1>5, <1>6, <1>7, NoRunIsNone DEF ConversationInv, SummariesTell, PromptsCounted

LEMMA TurnsKeepConversation ==
  ASSUME ConversationInv, AskTurn \/ RetryTurn \/ EndUnstarted
  PROVE  ConversationInv'
<1>1. /\ UNCHANGED <<thread, stored, run>> /\ run.pc = "none"
      /\ chat.status \in {"new", "done", "failed", "cancelled", "queued"}
  BY DEF AskTurn, RetryTurn, EndUnstarted, ConversationInv, ConversationFits
<1>2. prompts \in Nat /\ thread.messages \in Seq(ThreadMessage) /\ UserTurns(thread.messages) \in Nat
  BY PromptsAreFinite DEF ConversationInv, ConversationFits
<1>3. /\ UserTurns(thread.messages)' = UserTurns(thread.messages)
      /\ prompts' = prompts => (AsksNewest(thread.messages)' <=> AsksNewest(thread.messages))
  BY <1>1 DEF UserTurns, AsksNewest, PromptsOf, IsUser
<1>4. SummariesTell'
  BY <1>1 DEF ConversationInv, SummariesTell
<1>5. CASE AskTurn
  <2>1. /\ prompts' = prompts + 1 /\ chat' \in [status : {"queued"}, input : {"user_message"}, runs : Nat]
    BY <1>5 DEF AskTurn, Queue, ConversationInv, ConversationFits
  <2>2. ConversationFits'
    BY <1>1, <1>2, <2>1 DEF ConversationInv, ConversationFits
  <2>3. UserTurns(thread.messages) < prompts'
    BY <1>2, <2>1 DEF ConversationInv, PromptsCounted
  <2>4. PromptsCounted'
    BY <1>1, <1>2, <1>3, <2>1, <2>3 DEF PromptsCounted
  <2> QED
    BY <1>4, <2>2, <2>4 DEF ConversationInv
<1>6. CASE RetryTurn \/ EndUnstarted
  <2>1. /\ UNCHANGED prompts /\ prompts > 0
        /\ \/ chat' \in [status : {"queued"}, input : {"retry"}, runs : Nat]
           \/ chat' \in [status : {"cancelled", "failed"}, input : {"user_message", "retry"}, runs : Nat]
    BY <1>6 DEF RetryTurn, EndUnstarted, Queue, ConversationInv, ConversationFits
  <2>2. ConversationFits'
    BY <1>1, <2>1 DEF ConversationInv, ConversationFits
  <2>3. PromptsCounted'
    BY <1>1, <1>3, <2>1 DEF ConversationInv, PromptsCounted
  <2> QED
    BY <1>4, <2>2, <2>3 DEF ConversationInv
<1> QED
  BY <1>5, <1>6

LEMMA StartKeepsConversation ==
  ASSUME ConversationInv, StartGraph
  PROVE  ConversationInv'
<1>1. PICK old, number, prompt, messages :
        /\ old = thread.messages /\ number = chat.runs + 1
        /\ prompt = [role |-> "user", turn |-> prompts, at |-> number, nth |-> Len(old) + 1]
        /\ messages = old \o (IF chat.input = "user_message" \/ Resupplied(old)
                              THEN <<prompt>> ELSE <<>>)
  OBVIOUS
<1>2. /\ chat.status = "queued" /\ UNCHANGED <<prompts, thread, stored>>
      /\ run' = [pc |-> "thread_hygiene", number |-> number, initial |-> stored,
                 summary |-> thread.summary, messages |-> messages]
      /\ chat' = [chat EXCEPT !.status = "running", !.runs = number]
  BY <1>1 DEF StartGraph
<1>3. /\ old \in Seq(ThreadMessage) /\ Len(old) \in Nat /\ number \in Nat /\ prompts \in Nat
      /\ prompts > 0 /\ chat.input \in {"user_message", "retry"}
      /\ thread.summary \in ThreadSummary /\ stored \in ThreadSummary
      /\ UserTurns(old) \in Nat /\ UserTurns(old) <= prompts
  BY <1>1, <1>2, PromptsAreFinite DEF ConversationInv, ConversationFits, PromptsCounted
<1>4. prompt \in ThreadMessage /\ prompt.role = "user" /\ prompt.turn = prompts
  BY <1>1, <1>3 DEF ThreadMessage
<1>5. /\ messages \in Seq(ThreadMessage) /\ Extends(messages, old)
      /\ UserTurns(messages) <= prompts /\ AsksNewest(messages)
  <2>1. CASE chat.input = "user_message" \/ Resupplied(old)
    <3>1. messages = Append(old, prompt)
      <4>1. messages = old \o <<prompt>>
        BY <1>1, <2>1
      <4> QED
        BY <1>3, <1>4, <4>1
    <3>2. UserTurns(old) < prompts
      BY <1>1, <1>2, <2>1 DEF Resupplied, ConversationInv, PromptsCounted
    <3>3. /\ messages \in Seq(ThreadMessage) /\ messages[Len(old) + 1] = prompt
          /\ UserTurns(messages) = UserTurns(old) + 1
          /\ PromptsOf(messages) = PromptsOf(old) \cup {Len(old) + 1}
      BY <1>3, <1>4, <3>1, PromptIsAdded
    <3>4. Extends(messages, old)
      BY <1>3, <1>4, <3>1 DEF Extends
    <3>5. AsksNewest(messages)
      BY <1>3, <1>4, <3>3, PromptsAreFinite DEF AsksNewest
    <3> QED
      BY <1>3, <3>2, <3>3, <3>4, <3>5
  <2>2. CASE ~ (chat.input = "user_message" \/ Resupplied(old))
    <3>1. messages = old
      BY <1>1, <1>3, <2>2
    <3>2. UserTurns(old) = prompts
      BY <1>3, <2>2 DEF Resupplied
    <3>3. AsksNewest(old)
      BY <1>1, <1>3, <3>2 DEF ConversationInv, PromptsCounted
    <3>4. Extends(old, old)
      BY <1>3 DEF Extends
    <3> QED
      BY <1>3, <3>1, <3>3, <3>4
  <2> QED
    BY <2>1, <2>2
<1>6. /\ run' \in GraphRun /\ run'.pc # "none" /\ run'.messages = messages
      /\ run'.summary = thread.summary /\ run'.initial = stored
  BY <1>2, <1>3, <1>5 DEF GraphRun
<1>7. chat' \in [status : {"running"}, input : {"user_message", "retry"}, runs : Nat]
  BY <1>2, <1>3 DEF ConversationInv, ConversationFits
<1>8. ConversationFits'
  BY <1>2, <1>3, <1>6, <1>7 DEF ConversationInv, ConversationFits
<1>9. SummariesTell'
  BY <1>1, <1>2, <1>5, <1>6 DEF ConversationInv, SummariesTell
<1>10. PromptsCounted'
  <2>1. /\ UserTurns(thread.messages)' = UserTurns(old)
        /\ UserTurns(run.messages)' = UserTurns(messages)
        /\ AsksNewest(thread.messages)' <=> AsksNewest(old)
        /\ AsksNewest(run.messages)' <=> AsksNewest(messages)
    <3>1. thread'.messages = old /\ run'.messages = messages /\ prompts' = prompts
      BY <1>1, <1>2, <1>6
    <3> QED
      BY <3>1 DEF UserTurns, AsksNewest, PromptsOf, IsUser
  <2> QED
    BY <1>1, <1>2, <1>5, <1>7, <2>1 DEF ConversationInv, PromptsCounted
<1> QED
  BY <1>8, <1>9, <1>10 DEF ConversationInv

\* A step of the graph in the worker's memory.
LEMMA GraphMoves ==
  ASSUME ConversationInv, run.pc # "none", NEW next \in GraphRun, run' = next,
         next.initial = run.initial, Covers(next.summary, thread.messages),
         Extends(next.messages, thread.messages),
         UserTurns(next.messages) <= prompts, AsksNewest(next.messages),
         NEW kept \in ThreadSummary, stored' = kept, Covers(kept, thread.messages),
         UNCHANGED <<prompts, chat, thread>>
  PROVE  ConversationInv'
<1>1. ConversationFits'
  BY NoRunIsNone DEF ConversationInv, ConversationFits
<1>2. SummariesTell'
  BY DEF ConversationInv, SummariesTell
<1>3. PromptsCounted'
  <2>1. /\ UserTurns(thread.messages)' = UserTurns(thread.messages)
        /\ UserTurns(run.messages)' = UserTurns(next.messages)
        /\ AsksNewest(thread.messages)' <=> AsksNewest(thread.messages)
        /\ AsksNewest(run.messages)' <=> AsksNewest(next.messages)
    BY DEF UserTurns, AsksNewest, PromptsOf, IsUser
  <2> QED
    BY <2>1 DEF ConversationInv, PromptsCounted
<1> QED
  BY <1>1, <1>2, <1>3 DEF ConversationInv

LEMMA GraphAtWork ==
  ASSUME ConversationInv, run.pc # "none"
  PROVE  /\ run \in GraphRun /\ run.messages \in Seq(ThreadMessage)
         /\ run.summary \in ThreadSummary /\ run.initial \in ThreadSummary
         /\ thread.messages \in Seq(ThreadMessage) /\ thread.summary \in ThreadSummary
         /\ stored \in ThreadSummary /\ prompts \in Nat
         /\ Extends(run.messages, thread.messages)
         /\ Covers(run.summary, thread.messages) /\ Covers(run.initial, thread.messages)
         /\ Covers(stored, thread.messages) /\ Covers(thread.summary, thread.messages)
         /\ UserTurns(run.messages) <= prompts /\ AsksNewest(run.messages)
<1>1. run \in GraphRun
  BY DEF ConversationInv, ConversationFits
<1> QED
  BY <1>1 DEF ConversationInv, ConversationFits, SummariesTell, PromptsCounted, GraphRun

LEMMA HygieneKeepsConversation ==
  ASSUME ConversationInv, SummarizeOld \/ SkipHygiene
  PROVE  ConversationInv'
<1>1. run.pc # "none" /\ UNCHANGED <<prompts, chat, thread>>
  BY DEF SummarizeOld, SkipHygiene
<1>2. PICK messages, old, current, start :
        /\ messages = run.messages /\ old = thread.messages
        /\ current = selectThreadSummary(run.summary, run.initial, run.messages)
        /\ start = recentContextStart(run.messages)
  OBVIOUS
<1>3. /\ run \in GraphRun /\ messages \in Seq(ThreadMessage) /\ old \in Seq(ThreadMessage)
      /\ stored \in ThreadSummary /\ Extends(messages, old) /\ Covers(stored, old)
      /\ run.summary \in ThreadSummary /\ Covers(run.summary, old)
      /\ UserTurns(messages) <= prompts /\ AsksNewest(messages)
  BY <1>1, <1>2, GraphAtWork
<1>4. current \in ThreadSummary /\ Covers(current, old)
  BY <1>1, <1>2, <1>3, GraphAtWork, SelectedTells
<1>5. PICK next : next = [count |-> start, tells |->
                          current.tells \cup ToSet(SubSeq(messages, current.count + 1, start))]
  OBVIOUS
<1>6. start > current.count => next \in ThreadSummary /\ Covers(next, old)
  <2> SUFFICES ASSUME start > current.count PROVE next \in ThreadSummary /\ Covers(next, old)
    OBVIOUS
  <2>1. current.count \in Nat /\ current.tells \subseteq ThreadMessage
    BY <1>4 DEF ThreadSummary
  <2>2. start \in Nat /\ start + 1 \in PromptsOf(messages)
    BY <1>2, <1>3, <2>1, CutsBeforeAPrompt
  <2>3. /\ start <= Len(old) /\ Len(old) <= Len(messages) /\ Len(old) \in Nat /\ Len(messages) \in Nat
        /\ \A i \in 1 .. start : messages[i] = old[i] /\ old[i] \in ThreadMessage
    <3>1. start + 1 <= Len(old) + 1 /\ Len(old) <= Len(messages)
      BY <1>3, <2>2 DEF PromptsOf, Extends
    <3> QED
      BY <1>3, <2>2, <3>1 DEF Extends
  <2>4. PICK cut : cut = SubSeq(messages, current.count + 1, start)
    OBVIOUS
  <2>5. /\ cut \in Seq(ThreadMessage) /\ Len(cut) = start - current.count
        /\ \A i \in 1 .. Len(cut) : cut[i] = messages[current.count + i]
    BY <1>3, <2>1, <2>2, <2>3, <2>4
  <2>6. ToSet(cut) \subseteq ThreadMessage /\ \A i \in 1 .. Len(cut) : cut[i] \in ToSet(cut)
    BY <2>5 DEF ToSet
  <2>7. next.count = start /\ next.tells = current.tells \cup ToSet(cut) /\ next \in ThreadSummary
    BY <1>5, <2>1, <2>2, <2>4, <2>6 DEF ThreadSummary
  <2>8. ASSUME NEW i \in 1 .. start PROVE old[i] \in next.tells
    <3>1. CASE i <= current.count
      BY <1>4, <2>1, <2>7, <3>1 DEF Covers
    <3>2. CASE i > current.count
      <4>1. PICK k : k = i - current.count
        OBVIOUS
      <4>2. k \in 1 .. Len(cut) /\ current.count + k = i
        BY <2>1, <2>2, <2>5, <3>2, <4>1
      <4>3. cut[k] = old[i] /\ cut[k] \in ToSet(cut)
        BY <2>3, <2>5, <2>6, <4>2
      <4> QED
        BY <2>7, <4>3
    <3> QED
      BY <2>1, <2>2, <3>1, <3>2
  <2> QED
    BY <2>3, <2>7, <2>8 DEF Covers
<1>7. PICK summary : /\ run' = [run EXCEPT !.summary = summary, !.pc = "model"]
                     /\ summary \in ThreadSummary /\ Covers(summary, old)
                     /\ \/ stored' = summary
                        \/ stored' = stored
  <2>1. CASE SummarizeOld
    <3>1. \/ /\ start > current.count /\ stored' = next
             /\ run' = [run EXCEPT !.summary = next, !.pc = "model"]
          \/ /\ stored' = stored
             /\ run' = [run EXCEPT !.summary = current, !.pc = "model"]
      BY <1>2, <1>5, <2>1 DEF SummarizeOld
    <3> QED
      BY <1>4, <1>6, <3>1
  <2>2. CASE SkipHygiene
    <3>1. run' = [run EXCEPT !.summary = run.summary, !.pc = "model"] /\ stored' = stored
      BY <1>3, <2>2 DEF SkipHygiene, GraphRun
    <3> QED
      BY <1>3, <3>1
  <2> QED
    BY <2>1, <2>2
<1>8. PICK moved : moved = [run EXCEPT !.summary = summary, !.pc = "model"]
  OBVIOUS
<1>9. /\ moved \in GraphRun /\ moved.initial = run.initial /\ moved.summary = summary
      /\ moved.messages = messages
  BY <1>2, <1>3, <1>7, <1>8 DEF GraphRun
<1>10. PICK kept : kept = stored' /\ kept \in ThreadSummary /\ Covers(kept, old)
  BY <1>3, <1>7
<1> QED
  BY <1>1, <1>2, <1>3, <1>7, <1>8, <1>9, <1>10, GraphMoves

LEMMA MessageKeepsConversation ==
  ASSUME ConversationInv, CallModel \/ CallTools
  PROVE  ConversationInv'
<1>1. run.pc # "none" /\ UNCHANGED <<prompts, chat, thread, stored>>
  BY DEF CallModel, CallTools
<1>2. PICK role, pc : /\ role \in {"assistant", "calls", "tool"}
                      /\ pc \in {"end", "tools", "thread_hygiene"} /\ Append1(role, pc)
  BY DEF CallModel, CallTools
<1>3. PICK messages, old, m :
        /\ messages = run.messages /\ old = thread.messages
        /\ m = [role |-> role, turn |-> prompts, at |-> run.number, nth |-> Len(run.messages) + 1]
  OBVIOUS
<1>4. /\ run \in GraphRun /\ messages \in Seq(ThreadMessage) /\ old \in Seq(ThreadMessage)
      /\ stored \in ThreadSummary /\ Extends(messages, old) /\ Covers(stored, old)
      /\ run.summary \in ThreadSummary /\ Covers(run.summary, old)
      /\ UserTurns(messages) <= prompts /\ AsksNewest(messages) /\ prompts \in Nat
  BY <1>1, <1>3, GraphAtWork
<1>5. m \in ThreadMessage /\ m.role # "user"
  <2>1. run.number \in Nat /\ Len(messages) + 1 \in Nat
    BY <1>4 DEF GraphRun
  <2> QED
    BY <1>2, <1>3, <1>4, <2>1 DEF ThreadMessage
<1>6. PICK longer : longer = Append(messages, m)
  OBVIOUS
<1>7. PICK next : next = [run EXCEPT !.pc = pc, !.messages = longer]
  OBVIOUS
<1>8. run' = next
  BY <1>2, <1>3, <1>6, <1>7 DEF Append1
<1>9. /\ longer \in Seq(ThreadMessage) /\ PromptsOf(longer) = PromptsOf(messages)
      /\ \A i \in PromptsOf(messages) : longer[i] = messages[i]
  BY <1>4, <1>5, <1>6, PromptsStay
<1>10. /\ next \in GraphRun /\ next.messages = longer /\ next.initial = run.initial
       /\ next.summary = run.summary
  BY <1>2, <1>4, <1>7, <1>9 DEF GraphRun
<1>11. Extends(longer, old)
  <2>1. /\ Len(longer) = Len(messages) + 1 /\ Len(messages) \in Nat /\ Len(old) \in Nat
        /\ \A i \in 1 .. Len(messages) : longer[i] = messages[i]
    BY <1>4, <1>5, <1>6
  <2>2. \A i \in PromptsOf(longer) : i <= Len(old) + 1
    BY <1>4, <1>9 DEF Extends, PromptsOf
  <2> QED
    BY <1>4, <2>1, <2>2 DEF Extends, PromptsOf
<1>12. UserTurns(longer) = UserTurns(messages) /\ AsksNewest(longer)
  BY <1>4, <1>9, PromptsAreFinite DEF AsksNewest
<1> QED
  BY <1>1, <1>3, <1>4, <1>8, <1>10, <1>11, <1>12, GraphMoves

LEMMA CheckpointKeepsConversation ==
  ASSUME ConversationInv, WriteCheckpoint \/ FinishGraph \/ AbandonGraph
  PROVE  ConversationInv'
<1>1. /\ run.pc # "none" /\ UNCHANGED <<prompts, stored>>
      /\ \/ run' = run /\ chat' = chat
         \/ run' = NoRun /\ chat'.status \in {"done", "cancelled", "failed"}
      /\ chat' \in [status : {"new", "queued", "running", "done", "failed", "cancelled"},
                    input : {"user_message", "retry"}, runs : Nat]
  BY DEF WriteCheckpoint, FinishGraph, AbandonGraph, ConversationInv, ConversationFits
<1>2. /\ run \in GraphRun /\ run.messages \in Seq(ThreadMessage)
      /\ run.summary \in ThreadSummary /\ prompts \in Nat /\ stored \in ThreadSummary
      /\ chat.status = "running" /\ prompts > 0
  BY <1>1, GraphAtWork DEF ConversationInv, ConversationFits
<1>3. PICK now, summary :
        /\ now = thread'.messages /\ summary = thread'.summary
        /\ thread' \in [messages : Seq(ThreadMessage), summary : ThreadSummary]
        /\ \/ now = run.messages /\ summary = run.summary
           \/ now = thread.messages /\ summary = thread.summary
  <2>1. \/ thread' = [messages |-> run.messages, summary |-> run.summary]
        \/ thread' = thread
    BY DEF WriteCheckpoint, FinishGraph, AbandonGraph
  <2>2. CASE thread' = [messages |-> run.messages, summary |-> run.summary]
    BY <1>2, <2>2
  <2>3. CASE thread' = thread
    BY <2>3 DEF ConversationInv, ConversationFits
  <2> QED
    BY <2>1, <2>2, <2>3
<1>4. ConversationFits'
  BY <1>1, <1>2, <1>3, NoRunIsNone DEF ConversationInv, ConversationFits
<1>5. /\ now \in Seq(ThreadMessage) /\ Covers(stored, now) /\ Covers(summary, now)
      /\ Covers(run.summary, now) /\ Covers(run.initial, now) /\ Extends(run.messages, now)
  <2>1. Extends(run.messages, run.messages)
    BY <1>2 DEF Extends
  <2> QED
    BY <1>1, <1>3, <2>1, GraphAtWork, ExtendedIsCovered
<1>6. SummariesTell'
  BY <1>1, <1>3, <1>5, NoRunIsNone DEF SummariesTell
<1>7. /\ UserTurns(now) <= prompts
      /\ UserTurns(now) = prompts => AsksNewest(now)
  BY <1>1, <1>2, <1>3, GraphAtWork DEF ConversationInv, PromptsCounted
<1>8. PromptsCounted'
  <2>1. /\ UserTurns(thread.messages)' = UserTurns(now)
        /\ AsksNewest(thread.messages)' <=> AsksNewest(now)
    BY <1>1, <1>3 DEF UserTurns, AsksNewest, PromptsOf, IsUser
  <2>2. run' = run => /\ UserTurns(run.messages)' = UserTurns(run.messages)
                      /\ AsksNewest(run.messages)' <=> AsksNewest(run.messages)
    BY <1>1 DEF UserTurns, AsksNewest, PromptsOf, IsUser
  <2> QED
    BY <1>1, <1>2, <1>7, <2>1, <2>2, NoRunIsNone, GraphAtWork DEF PromptsCounted
<1> QED
  BY <1>4, <1>6, <1>8 DEF ConversationInv

\* What the model is not shown are calls without a result, and results
\* without a call.
GoesAlong(messages, i) ==
  /\ messages[i].role = "calls" => Results(messages, i)
  /\ messages[i].role = "tool" => i > 1 /\ messages[i - 1].role = "calls"

LEMMA ModelMessages ==
  ASSUME NEW messages
  PROVE  toModelMessages(messages) = {messages[i] : i \in {j \in DOMAIN messages : GoesAlong(messages, j)}}
<1>1. ASSUME NEW j
      PROVE  (CASE messages[j].role = "calls" -> Results(messages, j)
                [] messages[j].role = "tool" -> j > 1 /\ messages[j - 1].role = "calls"
                [] OTHER -> TRUE) <=> GoesAlong(messages, j)
  <2>1. CASE messages[j].role = "calls"
    BY <2>1 DEF GoesAlong
  <2>2. CASE messages[j].role = "tool"
    BY <2>2 DEF GoesAlong
  <2>3. CASE messages[j].role # "calls" /\ messages[j].role # "tool"
    BY <2>3 DEF GoesAlong
  <2> QED
    BY <2>1, <2>2, <2>3
<1> QED
  BY <1>1, Zenon DEF toModelMessages

\* What a summary that ends before a prompt leaves, with what it tells, is
\* all there is.
LEMMA NothingIsLeftOut ==
  ASSUME NEW messages \in Seq(ThreadMessage), NEW summary \in ThreadSummary,
         Covers(summary, messages), ValidAtSafeBoundary(summary, messages)
  PROVE  toModelMessages(messages) \subseteq Shown(summary, messages)
<1>1. PICK cut, rest : cut = summary.count /\ rest = SubSeq(messages, cut + 1, Len(messages))
  OBVIOUS
<1>2. cut \in Nat /\ cut <= Len(messages) /\ Len(messages) \in Nat
  BY <1>1 DEF ThreadSummary, Covers
<1>3. /\ rest \in Seq(ThreadMessage) /\ Len(rest) = Len(messages) - cut
      /\ \A i \in 1 .. Len(rest) : rest[i] = messages[cut + i]
  BY <1>1, <1>2
<1>4. SUFFICES ASSUME NEW j \in DOMAIN messages, GoesAlong(messages, j)
               PROVE  messages[j] \in summary.tells \cup toModelMessages(rest)
  BY <1>1, ModelMessages DEF Shown
<1>5. CASE j <= cut
  BY <1>1, <1>2, <1>5 DEF Covers
<1>6. CASE j > cut
  <2>1. PICK k : k = j - cut
    OBVIOUS
  <2>2. k \in 1 .. Len(rest) /\ cut + k = j /\ rest[k] = messages[j]
    BY <1>2, <1>3, <1>6, <2>1
  <2>3. messages[j].role = "tool" => k > 1
    <3>1. SUFFICES ASSUME messages[j].role = "tool", k = 1 PROVE FALSE
      BY <1>3, <2>2
    <3>2. j = cut + 1
      BY <1>2, <2>2, <3>1
    <3>3. CASE cut = 0
      BY <1>4, <3>1, <3>2, <3>3 DEF GoesAlong
    <3>4. CASE cut # 0
      BY <1>1, <3>1, <3>2, <3>4 DEF ValidAtSafeBoundary, IsUser
    <3> QED
      BY <3>3, <3>4
  <2>4. messages[j].role = "tool" => rest[k - 1].role = "calls"
    <3>1. k > 1 => k - 1 \in 1 .. Len(rest) /\ cut + (k - 1) = j - 1
      BY <1>2, <1>3, <2>2
    <3> QED
      BY <1>3, <1>4, <2>3, <3>1 DEF GoesAlong
  <2>5. messages[j].role = "calls" => Results(rest, k)
    <3>1. j < Len(messages) => k + 1 \in 1 .. Len(rest) /\ cut + (k + 1) = j + 1 /\ k < Len(rest)
      BY <1>2, <1>3, <2>2
    <3> QED
      BY <1>3, <1>4, <3>1 DEF GoesAlong, Results
  <2>6. GoesAlong(rest, k) /\ k \in DOMAIN rest
    BY <1>3, <2>2, <2>3, <2>4, <2>5 DEF GoesAlong
  <2> QED
    BY <2>2, <2>6, ModelMessages
<1> QED
  BY <1>2, <1>5, <1>6

\* As many prompts as were asked: either each is there once, or one is
\* missing.
LEMMA TwiceMeansMissing ==
  ASSUME NEW messages \in Seq(ThreadMessage), NEW N \in Nat, UserTurns(messages) <= N,
         NEW i \in PromptsOf(messages), NEW j \in PromptsOf(messages),
         messages[i].turn = messages[j].turn, i # j
  PROVE  \E turn \in 1 .. N : \A k \in PromptsOf(messages) : messages[k].turn # turn
<1> SUFFICES ASSUME \A turn \in 1 .. N : \E k \in PromptsOf(messages) : messages[k].turn = turn
             PROVE  FALSE
  OBVIOUS
<1>1. PICK S, f : /\ S = {k \in PromptsOf(messages) : messages[k].turn \in 1 .. N}
                  /\ f = [k \in S |-> messages[k].turn]
  OBVIOUS
<1>2. S \subseteq PromptsOf(messages) /\ IsFiniteSet(PromptsOf(messages))
  BY <1>1, PromptsAreFinite
<1>3. IsFiniteSet(S) /\ Cardinality(S) <= Cardinality(PromptsOf(messages))
  BY <1>2, FS_Subset
<1>4. f \in [S -> 1 .. N] /\ \A turn \in 1 .. N : \E k \in S : f[k] = turn
  BY <1>1
<1>5. f \in Surjection(S, 1 .. N)
  BY <1>4 DEF Surjection
<1>6. Cardinality(1 .. N) = N
  BY FS_Interval
<1>7. /\ Cardinality(S) \in Nat /\ Cardinality(PromptsOf(messages)) \in Nat
      /\ Cardinality(PromptsOf(messages)) <= N /\ N <= Cardinality(S)
      /\ N = Cardinality(S) <=> f \in Injection(S, 1 .. N)
  BY <1>2, <1>3, <1>5, <1>6, FS_CardinalityType, FS_Surjection, PromptsAreFinite
<1>8. Cardinality(S) = N /\ Cardinality(S) = Cardinality(PromptsOf(messages))
  BY <1>3, <1>7
<1>9. S = PromptsOf(messages)
  BY <1>2, <1>8, FS_Subset
<1>10. f[i] = f[j]
  BY <1>1, <1>9
<1> QED
  BY <1>7, <1>8, <1>9, <1>10 DEF Injection, IsInjective

LEMMA ConversationInvariant == ConversationSpec => []ConversationInv
<1>1. ConversationInv /\ [ConversationNext]_conversationVars => ConversationInv'
  <2> SUFFICES ASSUME ConversationInv, [ConversationNext]_conversationVars PROVE ConversationInv'
    OBVIOUS
  <2>1. CASE UNCHANGED conversationVars
    BY <2>1 DEF conversationVars, ConversationInv, ConversationFits, SummariesTell, PromptsCounted,
       UserTurns, AsksNewest, PromptsOf, IsUser, Covers, Extends
  <2>2. CASE AskTurn \/ RetryTurn \/ EndUnstarted
    BY <2>2, TurnsKeepConversation
  <2>3. CASE StartGraph
    BY <2>3, StartKeepsConversation
  <2>4. CASE SummarizeOld \/ SkipHygiene
    BY <2>4, HygieneKeepsConversation
  <2>5. CASE CallModel \/ CallTools
    BY <2>5, MessageKeepsConversation
  <2>6. CASE WriteCheckpoint \/ FinishGraph \/ AbandonGraph
    BY <2>6, CheckpointKeepsConversation
  <2> QED
    BY <2>1, <2>2, <2>3, <2>4, <2>5, <2>6, Zenon DEF ConversationNext
<1> QED
  BY <1>1, ConversationStarts, PTL DEF ConversationSpec

(* When the model is called, every message of the thread is in front of it *)
(* or told by the summary in front of it, and the newest prompt is the one *)
(* asked last, whatever crashed between the summary, the checkpoint and    *)
(* the turn (persona-graph.ts, thread-hygiene.ts, graphInputForRetry).     *)
THEOREM TheThreadIsTold == ConversationSpec => []ModelIsToldTheThread
<1>1. ConversationInv => ModelIsToldTheThread
  <2> SUFFICES ASSUME ConversationInv, run.pc = "model" PROVE ModelIsToldTheThread
    BY DEF ModelIsToldTheThread, NothingLeftOut, NewestPromptIsAsked
  <2>1. PICK messages, s : /\ messages = run.messages
                           /\ s = selectThreadSummary(run.summary, run.initial, run.messages)
    OBVIOUS
  <2>2. /\ messages \in Seq(ThreadMessage) /\ prompts \in Nat
        /\ UserTurns(messages) <= prompts /\ AsksNewest(messages)
    BY <2>1, GraphAtWork
  <2>3. s \in ThreadSummary /\ Covers(s, thread.messages) /\ ValidAtSafeBoundary(s, messages)
    BY <2>1, GraphAtWork, SelectedTells
  <2>4. Covers(s, messages)
    BY <2>1, <2>3, GraphAtWork, ExtendedIsCovered
  <2>5. NothingLeftOut
    BY <2>1, <2>2, <2>3, <2>4, NothingIsLeftOut DEF NothingLeftOut
  <2>6. \/ \A i, j \in PromptsOf(messages) : messages[i].turn = messages[j].turn => i = j
        \/ \E turn \in 1 .. prompts : \A i \in PromptsOf(messages) : messages[i].turn # turn
    BY <2>2, TwiceMeansMissing
  <2>7. NewestPromptIsAsked
    BY <2>1, <2>2, <2>6 DEF NewestPromptIsAsked, AsksNewest, PromptsOf
  <2> QED
    BY <2>5, <2>7 DEF ModelIsToldTheThread
<1> QED
  BY <1>1, ConversationInvariant, PTL
-----------------------------------------------------------------------------
(* The bounds of the thread: a turn starts only with room for its prompt,  *)
(* a call, the result of it and a reply, and each step of the graph keeps   *)
(* the room that the ones after it need.                                    *)

RoomAfter == [thread_hygiene |-> 1, model |-> 1, tools |-> 2, end |-> 0]

ThreadIsBounded ==
  /\ prompts <= MaxPrompts /\ chat.runs <= MaxGraphRuns
  /\ thread.messages \in Seq(ChatMessage) /\ Len(thread.messages) <= MaxMessages
  /\ thread.summary.tells \subseteq ChatMessage /\ stored.tells \subseteq ChatMessage
  /\ run.pc # "none" =>
       /\ run.number \in 1 .. MaxGraphRuns /\ run.messages \in Seq(ChatMessage)
       /\ Len(run.messages) + RoomAfter[run.pc] <= MaxMessages
       /\ run.summary.tells \subseteq ChatMessage /\ run.initial.tells \subseteq ChatMessage

LEMMA NothingIsTold == NoSummary.tells \subseteq ChatMessage
  BY DEF NoSummary

LEMMA BoundsAreNumbers ==
  MaxPrompts \in Nat /\ MaxGraphRuns \in Nat /\ MaxMessages \in Nat
  BY ConversationAssumption

\* A step of the graph that asks nothing and starts nothing.
LEMMA GraphStaysBounded ==
  ASSUME ThreadIsBounded, run.pc # "none", NEW next, run' = next,
         next.number = run.number, next.messages \in Seq(ChatMessage),
         Len(next.messages) + RoomAfter[next.pc] <= MaxMessages,
         next.summary.tells \subseteq ChatMessage, next.initial = run.initial,
         stored'.tells \subseteq ChatMessage, UNCHANGED <<prompts, chat, thread>>
  PROVE  ThreadIsBounded'
  BY DEF ThreadIsBounded

LEMMA StartStaysBounded ==
  ASSUME ConversationInv, ThreadIsBounded, StartGraph
  PROVE  ThreadIsBounded'
<1>1. PICK old, number, prompt, asked :
        /\ old = thread.messages /\ number = chat.runs + 1
        /\ prompt = [role |-> "user", turn |-> prompts, at |-> number, nth |-> Len(old) + 1]
        /\ asked = IF chat.input = "user_message" \/ Resupplied(old) THEN <<prompt>> ELSE <<>>
  OBVIOUS
<1>2. PICK messages : messages = old \o asked
  OBVIOUS
<1>3. /\ chat.status = "queued" /\ chat.runs < MaxGraphRuns /\ UNCHANGED <<prompts, thread, stored>>
      /\ run' = [pc |-> "thread_hygiene", number |-> number, initial |-> stored,
                 summary |-> thread.summary, messages |-> messages]
      /\ chat' = [chat EXCEPT !.status = "running", !.runs = number]
      /\ Len(old) + 4 <= MaxMessages
  BY <1>1, <1>2 DEF StartGraph
<1>4. /\ chat \in [status : {"new", "queued", "running", "done", "failed", "cancelled"},
                   input : {"user_message", "retry"}, runs : Nat]
      /\ prompts \in 1 .. MaxPrompts /\ old \in Seq(ChatMessage) /\ Len(old) \in Nat
      /\ number \in 1 .. MaxGraphRuns
  BY <1>1, <1>3, BoundsAreNumbers DEF ConversationInv, ConversationFits, ThreadIsBounded
<1>5. prompt \in ChatMessage
  <2>1. Len(old) + 1 \in 1 .. MaxMessages
    BY <1>3, <1>4, BoundsAreNumbers
  <2> QED
    BY <1>1, <1>4, <2>1 DEF ChatMessage
<1>6. asked \in Seq(ChatMessage) /\ Len(asked) <= 1 /\ Len(asked) \in Nat
  <2>1. PICK none : none = <<>>
    OBVIOUS
  <2>2. PICK one : one = <<prompt>>
    OBVIOUS
  <2>3. /\ one \in Seq(ChatMessage) /\ Len(one) <= 1 /\ Len(one) \in Nat
        /\ none \in Seq(ChatMessage) /\ Len(none) <= 1 /\ Len(none) \in Nat
    BY <1>5, <2>1, <2>2
  <2>4. asked = one \/ asked = none
    BY <1>1, <2>1, <2>2
  <2> QED
    BY <2>3, <2>4, Zenon
<1>7. messages \in Seq(ChatMessage) /\ Len(messages) = Len(old) + Len(asked)
  BY <1>2, <1>4, <1>6
<1>8. Len(messages) + 1 <= MaxMessages
  BY <1>3, <1>4, <1>6, <1>7, BoundsAreNumbers
<1>9. /\ run'.pc = "thread_hygiene" /\ run'.number = number /\ run'.messages = messages
      /\ run'.summary = thread.summary /\ run'.initial = stored /\ chat'.runs = number
  BY <1>3, <1>4
<1> QED
  BY <1>3, <1>4, <1>7, <1>8, <1>9, BoundsAreNumbers DEF ThreadIsBounded, RoomAfter

LEMMA HygieneStaysBounded ==
  ASSUME ConversationInv, ThreadIsBounded, SummarizeOld \/ SkipHygiene
  PROVE  ThreadIsBounded'
<1>1. run.pc = "thread_hygiene" /\ UNCHANGED <<prompts, chat, thread>>
  BY DEF SummarizeOld, SkipHygiene
<1>2. PICK messages, current, start :
        /\ messages = run.messages
        /\ current = selectThreadSummary(run.summary, run.initial, run.messages)
        /\ start = recentContextStart(run.messages)
  OBVIOUS
<1>3. /\ run \in GraphRun /\ messages \in Seq(ThreadMessage) /\ messages \in Seq(ChatMessage)
      /\ Len(messages) + 1 <= MaxMessages /\ run.summary.tells \subseteq ChatMessage
      /\ stored.tells \subseteq ChatMessage
  BY <1>1, <1>2, GraphAtWork DEF ThreadIsBounded, RoomAfter
<1>4. current \in ThreadSummary /\ current.tells \subseteq ChatMessage
  <2>1. current \in ThreadSummary /\ current \in {NoSummary, run.summary, run.initial}
    BY <1>1, <1>2, GraphAtWork, SelectedTells
  <2> QED
    BY <1>1, <2>1, NothingIsTold DEF ThreadIsBounded
<1>5. PICK next : next = [count |-> start, tells |->
                          current.tells \cup ToSet(SubSeq(messages, current.count + 1, start))]
  OBVIOUS
<1>6. start > current.count => next.tells \subseteq ChatMessage
  <2> SUFFICES ASSUME start > current.count PROVE next.tells \subseteq ChatMessage
    OBVIOUS
  <2>1. current.count \in Nat
    BY <1>4 DEF ThreadSummary
  <2>2. start \in Nat /\ start <= Len(messages) /\ Len(messages) \in Nat
    BY <1>2, <1>3, <2>1, CutsBeforeAPrompt DEF PromptsOf
  <2>3. SubSeq(messages, current.count + 1, start) \in Seq(ChatMessage)
    BY <1>3, <2>1, <2>2
  <2>4. ToSet(SubSeq(messages, current.count + 1, start)) \subseteq ChatMessage
    BY <2>3 DEF ToSet
  <2> QED
    BY <1>4, <1>5, <2>4
<1>7. PICK summary : /\ run' = [run EXCEPT !.summary = summary, !.pc = "model"]
                     /\ summary.tells \subseteq ChatMessage
                     /\ stored' = summary \/ stored' = stored
  <2>1. CASE SummarizeOld
    <3>1. \/ /\ start > current.count /\ stored' = next
             /\ run' = [run EXCEPT !.summary = next, !.pc = "model"]
          \/ /\ stored' = stored
             /\ run' = [run EXCEPT !.summary = current, !.pc = "model"]
      BY <1>2, <1>5, <2>1 DEF SummarizeOld
    <3> QED
      BY <1>4, <1>6, <3>1
  <2>2. CASE SkipHygiene
    <3>1. run' = [run EXCEPT !.summary = run.summary, !.pc = "model"] /\ stored' = stored
      BY <1>3, <2>2 DEF SkipHygiene, GraphRun
    <3> QED
      BY <1>3, <3>1
  <2> QED
    BY <2>1, <2>2
<1>8. /\ run'.pc = "model" /\ run'.number = run.number /\ run'.messages = messages
      /\ run'.summary = summary /\ run'.initial = run.initial
  BY <1>2, <1>3, <1>7 DEF GraphRun
<1>9. Len(run'.messages) + RoomAfter[run'.pc] <= MaxMessages
  BY <1>3, <1>8 DEF RoomAfter
<1>10. PICK moved : moved = run'
  OBVIOUS
<1> QED
  BY <1>1, <1>3, <1>7, <1>8, <1>9, <1>10, GraphStaysBounded

LEMMA MessageStaysBounded ==
  ASSUME ConversationInv, ThreadIsBounded, CallModel \/ CallTools
  PROVE  ThreadIsBounded'
<1>1. run.pc # "none" /\ UNCHANGED <<prompts, chat, thread, stored>>
  BY DEF CallModel, CallTools
<1>2. PICK messages, room : messages = run.messages /\ room = MaxMessages - Len(messages)
  OBVIOUS
<1>3. /\ run \in GraphRun /\ messages \in Seq(ChatMessage) /\ Len(messages) \in Nat
      /\ run.number \in 1 .. MaxGraphRuns /\ prompts \in 1 .. MaxPrompts
      /\ run.summary.tells \subseteq ChatMessage
      /\ Len(messages) + RoomAfter[run.pc] <= MaxMessages
  BY <1>1, <1>2, GraphAtWork, BoundsAreNumbers DEF ThreadIsBounded, ConversationInv, ConversationFits
<1>4. PICK role, pc :
        /\ role \in {"assistant", "calls", "tool"} /\ pc \in {"end", "tools", "thread_hygiene"}
        /\ Append1(role, pc) /\ Len(messages) + 1 + RoomAfter[pc] <= MaxMessages
  <2>1. CASE CallModel /\ Append1("assistant", "end")
    <3>1. Len(messages) + 1 + RoomAfter["end"] <= MaxMessages
      BY <1>3, <2>1, BoundsAreNumbers DEF CallModel, RoomAfter
    <3> QED
      BY <2>1, <3>1
  <2>2. CASE Len(messages) + 3 <= MaxMessages /\ Append1("calls", "tools")
    <3>1. Len(messages) + 1 + RoomAfter["tools"] <= MaxMessages
      BY <1>3, <2>2, BoundsAreNumbers DEF RoomAfter
    <3> QED
      BY <2>2, <3>1
  <2>3. CASE CallTools
    <3>1. Len(messages) + 1 + RoomAfter["thread_hygiene"] <= MaxMessages
      BY <1>3, <2>3, BoundsAreNumbers DEF CallTools, RoomAfter
    <3> QED
      BY <2>3, <3>1 DEF CallTools
  <2> QED
    BY <1>2, <2>1, <2>2, <2>3 DEF CallModel
<1>5. PICK m : m = [role |-> role, turn |-> prompts, at |-> run.number, nth |-> Len(messages) + 1]
  OBVIOUS
<1>6. m \in ChatMessage
  <2>1. Len(messages) + 1 \in 1 .. MaxMessages
    BY <1>3, <1>4, BoundsAreNumbers DEF RoomAfter
  <2> QED
    BY <1>3, <1>4, <1>5, <2>1 DEF ChatMessage
<1>7. PICK longer : longer = Append(messages, m)
  OBVIOUS
<1>8. PICK next : next = [run EXCEPT !.pc = pc, !.messages = longer]
  OBVIOUS
<1>9. run' = next
  BY <1>2, <1>4, <1>5, <1>7, <1>8 DEF Append1
<1>10. longer \in Seq(ChatMessage) /\ Len(longer) = Len(messages) + 1
  BY <1>3, <1>6, <1>7
<1>11. /\ next.pc = pc /\ next.number = run.number /\ next.messages = longer
       /\ next.summary = run.summary /\ next.initial = run.initial
  BY <1>3, <1>8 DEF GraphRun
<1>12. stored'.tells \subseteq ChatMessage
  BY <1>1 DEF ThreadIsBounded
<1> QED
  BY <1>1, <1>3, <1>4, <1>9, <1>10, <1>11, <1>12, GraphStaysBounded

LEMMA CheckpointStaysBounded ==
  ASSUME ConversationInv, ThreadIsBounded, WriteCheckpoint \/ FinishGraph \/ AbandonGraph
  PROVE  ThreadIsBounded'
<1>1. run.pc # "none" /\ run \in GraphRun
  BY GraphAtWork DEF WriteCheckpoint, FinishGraph, AbandonGraph
<1>2. /\ UNCHANGED <<prompts, stored>> /\ run' \in {run, NoRun}
      /\ thread' = thread \/ thread' = [messages |-> run.messages, summary |-> run.summary]
  BY DEF WriteCheckpoint, FinishGraph, AbandonGraph
<1>3. chat'.runs = chat.runs
  BY DEF WriteCheckpoint, FinishGraph, AbandonGraph, ConversationInv, ConversationFits
<1>4. Len(run.messages) <= MaxMessages /\ run.messages \in Seq(ChatMessage)
  <2>1. /\ run.messages \in Seq(ChatMessage) /\ RoomAfter[run.pc] \in Nat
        /\ Len(run.messages) + RoomAfter[run.pc] <= MaxMessages
    BY <1>1 DEF ThreadIsBounded, RoomAfter, GraphRun
  <2> QED
    BY <2>1, BoundsAreNumbers
<1>5. /\ thread'.messages \in Seq(ChatMessage) /\ Len(thread'.messages) <= MaxMessages
      /\ thread'.summary.tells \subseteq ChatMessage
  BY <1>1, <1>2, <1>4 DEF ThreadIsBounded
<1> QED
  BY <1>1, <1>2, <1>3, <1>5, NoRunIsNone DEF ThreadIsBounded

(* The thread of a chat, its summaries and its runs keep their types and    *)
(* bounds: no turn outgrows the thread it started with room in, and no      *)
(* summary stands for more messages than a thread can have                  *)
(* (thread-hygiene.ts, persona-graph.ts).                                   *)
THEOREM TheThreadIsTyped == ConversationSpec => []ConversationTypeOK
<1>1. ConversationInit => ThreadIsBounded
  <2> SUFFICES ASSUME ConversationInit PROVE ThreadIsBounded
    OBVIOUS
  <2>1. PICK none : none = <<>>
    OBVIOUS
  <2>2. none \in Seq(ChatMessage) /\ Len(none) = 0
    BY <2>1
  <2>3. /\ prompts = 0 /\ chat.runs = 0 /\ thread.messages = none
        /\ thread.summary = NoSummary /\ stored = NoSummary /\ run.pc = "none"
    BY <2>1, NoRunIsNone DEF ConversationInit
  <2> QED
    BY <2>2, <2>3, NothingIsTold, BoundsAreNumbers DEF ThreadIsBounded
<1>2. ConversationInv /\ ThreadIsBounded /\ [ConversationNext]_conversationVars => ThreadIsBounded'
  <2> SUFFICES ASSUME ConversationInv, ThreadIsBounded, [ConversationNext]_conversationVars
               PROVE  ThreadIsBounded'
    OBVIOUS
  <2>1. CASE UNCHANGED conversationVars
    BY <2>1 DEF conversationVars, ThreadIsBounded
  <2>2. CASE AskTurn \/ RetryTurn \/ EndUnstarted
    <3>1. UNCHANGED <<thread, stored, run>> /\ chat'.runs = chat.runs
      BY <2>2 DEF AskTurn, RetryTurn, EndUnstarted, Queue, ConversationInv, ConversationFits
    <3>2. prompts \in Nat /\ (prompts' # prompts => prompts' = prompts + 1 /\ prompts < MaxPrompts)
      BY <2>2 DEF AskTurn, RetryTurn, EndUnstarted, ConversationInv, ConversationFits
    <3>3. prompts' <= MaxPrompts
      BY <3>2, BoundsAreNumbers DEF ThreadIsBounded
    <3> QED
      BY <3>1, <3>3 DEF ThreadIsBounded
  <2>3. CASE StartGraph
    BY <2>3, StartStaysBounded
  <2>4. CASE SummarizeOld \/ SkipHygiene
    BY <2>4, HygieneStaysBounded
  <2>5. CASE CallModel \/ CallTools
    BY <2>5, MessageStaysBounded
  <2>6. CASE WriteCheckpoint \/ FinishGraph \/ AbandonGraph
    BY <2>6, CheckpointStaysBounded
  <2> QED
    BY <2>1, <2>2, <2>3, <2>4, <2>5, <2>6, Zenon DEF ConversationNext
<1>3. ConversationInv /\ ThreadIsBounded => ConversationTypeOK
  <2> SUFFICES ASSUME ConversationInv, ThreadIsBounded PROVE ConversationTypeOK
    OBVIOUS
  <2>1. prompts \in 0 .. MaxPrompts
    BY BoundsAreNumbers DEF ConversationInv, ConversationFits, ThreadIsBounded
  <2>2. chat \in [status : {"new", "queued", "running", "done", "failed", "cancelled"},
                  input : {"user_message", "retry"}, runs : 0 .. MaxGraphRuns]
    BY BoundsAreNumbers DEF ConversationInv, ConversationFits, ThreadIsBounded
  <2>3. \A summary \in ThreadSummary :
          /\ Covers(summary, thread.messages) /\ summary.tells \subseteq ChatMessage
          => summary \in Summary
    <3>1. Len(thread.messages) \in Nat /\ Len(thread.messages) <= MaxMessages
      BY DEF ConversationInv, ConversationFits, ThreadIsBounded
    <3> QED
      BY <3>1, BoundsAreNumbers DEF Covers, ThreadSummary, Summary
  <2>4. thread.summary \in Summary /\ stored \in Summary
    BY <2>3 DEF ConversationInv, ConversationFits, SummariesTell, ThreadIsBounded
  <2>5. run.pc \in {"none", "thread_hygiene", "model", "tools", "end"}
    BY NoRunIsNone DEF ConversationInv, ConversationFits, GraphRun
  <2> QED
    BY <2>1, <2>2, <2>4, <2>5 DEF ConversationTypeOK, ThreadIsBounded
<1> QED
  BY <1>1, <1>2, <1>3, ConversationInvariant, PTL DEF ConversationSpec
=============================================================================
