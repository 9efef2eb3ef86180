---------------------------- MODULE PersonaMemory ----------------------------
(***************************************************************************)
(* Durable facts of personas: persona-memory-repo.ts, the tools of         *)
(* memory-tools.ts and the effects a turn stages for them.                 *)
(*                                                                         *)
(* remember() is a transaction of a SELECT and two writes at PostgreSQL's  *)
(* default isolation: what it selected may have changed when it writes.    *)
(***************************************************************************)
EXTENDS Naturals, FiniteSets, Sequences, Rankings

CONSTANTS
  Writers,    \* turns (and their tools) that write memories concurrently
  Staff,      \* personas
  Manager,    \* Manager[p]: who p reports to, or Nobody
  Nobody,
  Topics,     \* labels the model may choose
  Reserved,   \* labels that begin with "job-summary:"
  Facts,      \* [importance, sensitive, size]: size is the characters it costs
  MaxRows,    \* bound: rows ever inserted
  CharBudget, \* characters an injection may spend
  MaxInjected \* rows an injection may hold

ASSUME MemoryAssumption ==
  /\ Manager \in [Staff -> Staff \cup {Nobody}] /\ Nobody \notin Staff
  /\ Reserved \cap Topics = {}
  /\ Facts \subseteq [importance : 0 .. 2, sensitive : BOOLEAN, size : Nat]
  /\ {MaxRows, CharBudget, MaxInjected} \subseteq Nat \ {0}

VARIABLES
  memories,  \* persona_memories in the order of their insertion
  writer     \* what each writer selected and is about to write

memoryVars == <<memories, writer>>

\* Labels are sequences of words: promotion puts the owner's name in front.
Promoted(p, l) == <<p>> \o l

Labels == Topics \cup Reserved \cup {Promoted(p, l) : p \in Staff, l \in Topics}

\* expires_at is left out, for no caller sets it.  raced is a ghost: another
\* row of the label was written between this row's SELECT and its INSERT, or
\* the SELECT found what such a race had left.
Memory == [persona : Staff, label : Labels, fact : Facts, raced : BOOLEAN,
           supersedes : 0 .. MaxRows, status : {"live", "superseded"}]

Deleted == [status |-> "gone"]

Rest == [pc |-> "rest"]

MemoryInit ==
  /\ memories = <<>>
  /\ writer = [w \in Writers |-> Rest]

Ids == 1 .. Len(memories)

LiveUnder(p, l) == {i \in Ids : /\ memories[i].status = "live"
                                /\ memories[i].persona = p /\ memories[i].label = l}

-----------------------------------------------------------------------------
(* remember(), promote_memory() and the summary of a job.                  *)

\* SELECT of the live row; which of several it returns is not determined.
PriorOf(p, l) == IF LiveUnder(p, l) = {} THEN {0} ELSE LiveUnder(p, l)

InFlight(p, l) == {w \in Writers : /\ writer[w].pc = "write"
                                   /\ writer[w].persona = p /\ writer[w].label = l}

\* Begins the transaction that stores one of the facts under p and l: which,
\* shows when it is written.
SelectPrior(w, p, l, facts) ==
  /\ \E prior \in PriorOf(p, l) :
       writer' = [writer EXCEPT ![w] = [pc |-> "write", persona |-> p, label |-> l,
                                        facts |-> facts, prior |-> prior,
                                        raced |-> Cardinality(LiveUnder(p, l)) > 1]]
  /\ UNCHANGED memories

Remember(w) ==
  /\ writer[w] = Rest
  /\ \E p \in Staff, l \in Topics : SelectPrior(w, p, l, Facts)

RememberJobSummary(w) ==
  /\ writer[w] = Rest
  /\ \E p \in Staff, l \in Reserved :
       SelectPrior(w, p, l, {f \in Facts : f.importance = 0 /\ ~f.sensitive})

\* promote_memory reads the caller's fact, then remembers it for the manager.
ReadOwnMemory(w) ==
  /\ writer[w] = Rest
  /\ \E p \in Staff, l \in Topics : \E i \in LiveUnder(p, l) :
       /\ Manager[p] # Nobody
       /\ writer' = [writer EXCEPT ![w] = [pc |-> "promote", persona |-> p, label |-> l,
                                            fact |-> memories[i].fact]]
  /\ UNCHANGED memories

PromoteMemory(w) ==
  /\ writer[w].pc = "promote"
  /\ LET own == writer[w]
     IN  SelectPrior(w, Manager[own.persona], Promoted(own.persona, own.label), {own.fact})

\* Mutant: the row that is replaced is not retired.
KeepPrior(rows, i) == rows

Supersede(rows, i) ==
  IF i = 0 THEN rows
  ELSE [rows EXCEPT ![i].status = "superseded"]

\* UPDATE of the selected row, INSERT of the new one.  A row deleted since the
\* SELECT breaks the foreign key supersedes_id, and nothing is written.
WriteMemory(w) ==
  /\ writer[w].pc = "write"
  /\ Len(memories) < MaxRows
  /\ LET f == writer[w]
         others == InFlight(f.persona, f.label) \ {w}
     IN  /\ f.prior # 0 => memories[f.prior] # Deleted
         /\ \E fact \in f.facts :
              memories' = Append(Supersede(memories, f.prior),
                [persona |-> f.persona, label |-> f.label, fact |-> fact,
                 raced |-> f.raced, supersedes |-> f.prior, status |-> "live"])
         /\ writer' = [x \in Writers |-> IF x = w THEN Rest
                                         ELSE IF x \in others
                                           THEN [writer[x] EXCEPT !.raced = TRUE]
                                           ELSE writer[x]]

\* The lease was lost, the statement failed, or the foreign key is broken.
AbandonWrite(w) ==
  /\ writer[w] # Rest
  /\ writer' = [writer EXCEPT ![w] = Rest]
  /\ UNCHANGED memories

-----------------------------------------------------------------------------
(* Forgetting.                                                             *)

\* ON DELETE SET NULL: a row that superseded a deleted one forgets which.
Delete(gone) ==
  memories' = [i \in Ids |->
    IF i \in gone \/ memories[i] = Deleted THEN Deleted
    ELSE [memories[i] EXCEPT !.supersedes = IF @ \in gone THEN 0 ELSE @]]

\* The tool and the effect it stages.
ForgetMemoryByLabel(p, l) ==
  /\ l \in Topics
  /\ LiveUnder(p, l) # {}
  /\ Delete(LiveUnder(p, l))
  /\ UNCHANGED writer

\* The owner's DELETE route, for any visible row.
ForgetMemory(p, i) ==
  /\ memories[i] # Deleted
  /\ memories[i].persona = p
  /\ Delete({i})
  /\ UNCHANGED writer

-----------------------------------------------------------------------------
(* What a turn is told at its start.                                       *)

Candidates(p) ==
  {i \in Ids : /\ memories[i].status = "live" /\ memories[i].persona = p
               /\ ~memories[i].fact.sensitive /\ memories[i].label \notin Reserved}

\* Mutant: recency alone decides.
RanksBeforeByAge(i, j) == i > j

\* More important, then more recent.
RanksBefore(i, j) ==
  LET a == memories[i].fact.importance
      b == memories[j].fact.importance
  IN  a > b \/ (a = b /\ i > j)

Ranked(p) ==
  InOrder(Candidates(p), {ij \in Candidates(p) \X Candidates(p) : RanksBefore(ij[1], ij[2])})

Sizes(order, m) == RunningSum([n \in 1 .. m |-> memories[order[n]].fact.size], m)

\* The loop of listMemoriesForInjection() over at most MaxInjected rows: it
\* stops at the first row that does not fit, except the very first.
Injected(p) ==
  LET order == Ranked(p)
      last == IF Cardinality(Candidates(p)) < MaxInjected
                THEN Cardinality(Candidates(p)) ELSE MaxInjected
      spent == Sizes(order, last)
      Stops(n) == n = last \/ (n > 0 /\ spent[n + 1] > CharBudget)
      taken == CHOOSE n \in 0 .. last : Stops(n) /\ \A k \in 0 .. n - 1 : ~ Stops(k)
  IN  {order[n] : n \in 1 .. taken}

MemoryNext ==
  \/ \E w \in Writers : \/ Remember(w) \/ RememberJobSummary(w)
                        \/ ReadOwnMemory(w) \/ PromoteMemory(w)
                        \/ WriteMemory(w) \/ AbandonWrite(w)
  \/ \E p \in Staff, l \in Topics : ForgetMemoryByLabel(p, l)
  \/ \E p \in Staff, i \in Ids : ForgetMemory(p, i)

MemorySpec == MemoryInit /\ [][MemoryNext]_memoryVars

-----------------------------------------------------------------------------
(* Properties.                                                             *)

MemoryTypeOK ==
  /\ memories \in Seq(Memory \cup {Deleted})

(* A second live row under a label comes only from transactions that        *)
(* overlapped: without overlap, one live row per label, whoever writes,    *)
(* promotes or forgets.                                                    *)
OneLiveUnlessRaced ==
  \A p \in Staff, l \in Labels : \A i, j \in LiveUnder(p, l) :
    i < j => memories[j].raced

(* What a persona once believed is retired only by a later belief of its    *)
(* own under the same label, and a row points back only to a retired one.  *)
RetiredByASuccessor ==
  \A i \in Ids : memories[i] # Deleted =>
    LET later == {j \in Ids : /\ j > i /\ memories[j] # Deleted
                              /\ memories[j].supersedes = i}
    IN  /\ \A j \in later : /\ memories[i].status = "superseded"
                             /\ memories[j].persona = memories[i].persona
                             /\ memories[j].label = memories[i].label
        /\ Cardinality(later) > 1 => \E j \in later : memories[j].raced
        /\ memories[i].status = "superseded" /\ later = {} =>
             \E j \in Ids : j > i /\ memories[j] = Deleted

Total(S) ==
  RunningSum([n \in 1 .. Len(memories) |-> IF n \in S THEN memories[n].fact.size ELSE 0],
             Len(memories))[Len(memories)]

(* The prompt is told the highest-ranked facts, as many as the budget       *)
(* holds but at least one, and never a sensitive one or another job's       *)
(* summary.                                                                *)
PromptHoldsTheBestFacts ==
  \A p \in Staff :
    LET told == Injected(p)
        left == Candidates(p) \ told
    IN  /\ told \subseteq Candidates(p)
        /\ Candidates(p) # {} => told # {}
        /\ Total(told) <= CharBudget \/ Cardinality(told) = 1
        /\ \A i \in told, j \in left :
             LET a == memories[i].fact.importance
                 b == memories[j].fact.importance
             IN  a >= b /\ (a = b => j < i)
        /\ left = {} \/ Cardinality(told) = MaxInjected
             \/ \E j \in left : Total(told \cup {j}) > CharBudget

(* Violated by overlapping transactions: the promise as the comment of      *)
(* rememberMemoryUnchecked() states it.                                    *)
OneLiveMemory ==
  \A p \in Staff, l \in Labels : Cardinality(LiveUnder(p, l)) <= 1

(* Each label has one live fact unless transactions overlapped, a fact is  *)
(* retired only by its successor, and the prompt is told the               *)
(* highest-ranked ones.                                                    *)
LiveFactsAreTold == OneLiveUnlessRaced /\ RetiredByASuccessor /\ PromptHoldsTheBestFacts

=============================================================================
