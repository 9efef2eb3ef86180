----------------------------- MODULE Delegation -----------------------------
(***************************************************************************)
(* The limits on delegation (orchestration/delegation.ts) while the turns  *)
(* of one family run side by side.  A delegated child runs inside the      *)
(* turn of its parent; once it has paused or ended, an approval or the     *)
(* owner queues it again, and it then runs in a slot of its own, beside    *)
(* the turns above it.                                                     *)
(***************************************************************************)
EXTENDS Naturals, Sequences, FiniteSets

CONSTANTS
  MAX_DEPTH, MAX_DESCENDANTS,  \* of delegation.ts
  Slots                        \* the worker's concurrency

ASSUME DelegationAssumption ==
  /\ {MAX_DEPTH, MAX_DESCENDANTS} \subseteq Nat
  /\ Slots \in Nat \ {0}

VARIABLE family   \* the jobs of one family, the root first

delegationVars == <<family>>

\* A turn holds a slot of its own, or runs inline in the turn of its parent.
\* "checked": the limits allowed a child that is not yet created; "waiting":
\* that child runs inside this turn.
Job == [parent : Nat, depth : Nat, slot : BOOLEAN,
        turn : {"settled", "queued", "running", "checked", "waiting"}]

DelegationTypeOK ==
  /\ family \in Seq(Job)
  /\ Cardinality({j \in DOMAIN family : family[j].slot}) <= Slots
  /\ \A j \in DOMAIN family : family[j].parent < j

DelegationInit ==
  family = <<[parent |-> 0, depth |-> 0, slot |-> FALSE, turn |-> "queued"]>>

\* Every other job of the family descends from the root.
Descendants == Len(family) - 1

\* Mutant: the limit is noticed one child too late.
AllowedTooLate(j) == family[j].depth < MAX_DEPTH /\ Descendants <= MAX_DESCENDANTS

checkDelegationAllowed(j) ==
  family[j].depth < MAX_DEPTH /\ Descendants < MAX_DESCENDANTS

SetTurn(j, turn, slot) ==
  family' = [family EXCEPT ![j].turn = turn, ![j].slot = slot]

\* Mutant: a slot is taken for free while its turn waits for a child.
SlotUnlessWaiting ==
  Cardinality({i \in DOMAIN family : family[i].slot /\ family[i].turn # "waiting"}) < Slots

FreeSlot == Cardinality({i \in DOMAIN family : family[i].slot}) < Slots

ClaimJob(j) ==
  /\ family[j].turn = "queued" /\ FreeSlot
  /\ SetTurn(j, "running", TRUE)

\* A refusal becomes the tool result, and the turn goes on.
CheckLimits(j) ==
  /\ family[j].turn = "running" /\ checkDelegationAllowed(j)
  /\ SetTurn(j, "checked", family[j].slot)

\* The child is inserted in a later transaction, with the depth of the row
\* that its parent's turn was claimed with.
StartChild(j) ==
  /\ family[j].turn = "checked"
  /\ family' = Append([family EXCEPT ![j].turn = "waiting"],
       [parent |-> j, depth |-> family[j].depth + 1, slot |-> FALSE, turn |-> "running"])

\* No persona matches, or the child could not be created.
ChildRefused(j) ==
  /\ family[j].turn = "checked"
  /\ SetTurn(j, "running", family[j].slot)

\* Done, failed, or paused at its own approval; a parent that waits for this
\* child folds the outcome into its turn.
EndJobTurn(j) ==
  /\ family[j].turn = "running"
  /\ family' = [i \in DOMAIN family |->
       IF i = j THEN [family[i] EXCEPT !.turn = "settled", !.slot = FALSE]
       ELSE IF i = family[j].parent /\ ~ family[j].slot
              THEN [family[i] EXCEPT !.turn = "running"]
       ELSE family[i]]

\* Approved, declined, continued or retried.
QueueAgain(j) ==
  /\ family[j].turn = "settled"
  /\ SetTurn(j, "queued", FALSE)

DelegationNext ==
  \E j \in DOMAIN family :
    \/ ClaimJob(j) \/ CheckLimits(j) \/ StartChild(j) \/ ChildRefused(j)
    \/ EndJobTurn(j) \/ QueueAgain(j)

DelegationSpec == DelegationInit /\ [][DelegationNext]_delegationVars

-----------------------------------------------------------------------------
\* However the turns of a family interleave, no job is deeper than the limit.
\* The size is not the hard cap that docs/OPERATING.md:62-68 describes, "at most
\* ten delegated jobs in total": the check is a read and the insert a later
\* transaction (delegation.ts, dispatcher.ts onDelegate), so turns of one family
\* that pass the check together all insert.  What the code does keep is that
\* they outgrow the limit by less than the worker has slots.
FamilyStaysSmall ==
  /\ \A j \in DOMAIN family : family[j].depth <= MAX_DEPTH
  /\ Descendants <= MAX_DESCENDANTS + Slots - 1

=============================================================================
