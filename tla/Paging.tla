-------------------------------- MODULE Paging --------------------------------
(***************************************************************************)
(* Lists read page by page.  Each list function of the repositories orders *)
(* its rows by createdAt and id, newest first, and takes the rows behind a *)
(* cursor; rows come and go between two pages.  PostgreSQL keeps createdAt *)
(* in microseconds, toISOString() tells milliseconds.                      *)
(***************************************************************************)
EXTENDS Naturals, Sequences, SequencesExt, Rankings

CONSTANTS
  RowIds,   \* ids, numbers in the order in which PostgreSQL compares them
  Fine,     \* instants of one millisecond that are told apart
  MaxTime,  \* bound on createdAt
  Limit     \* rows of a page

ASSUME PagingAssumption ==
  /\ RowIds \subseteq Nat \ {0} /\ IsFiniteSet(RowIds) /\ Fine \in Nat \ {0} /\ MaxTime \in Nat
  /\ Limit \in Nat \ {0}

VARIABLES
  list,   \* the list that is read
  table,  \* createdAt of each row, or Gone
  walk    \* the reader: the cursor it holds and what it was told; ghosts: the rows
          \* that stay all the while, the milliseconds its cursors cut short

pagingVars == <<list, table, walk>>

Lists == {"clients", "audit", "personas", "jobs", "approvals", "pending", "messages",
          "notifications", "routines"}

Gone == MaxTime + 1
Here == {i \in RowIds : table[i] # Gone}

NoWalk == [pc |-> "none", cursor |-> 0, at |-> 0, cut |-> {}, told |-> <<>>, there |-> {}]

\* toISOString().
Millisecond(time) == time - (time % Fine)

PagingInit ==
  /\ list \in Lists
  /\ table \in [RowIds -> 0 .. Gone]
  \* createMessage() is given its date by the process.
  /\ list = "messages" => \A i \in Here : table[i] = Millisecond(table[i])
  /\ walk = NoWalk

-----------------------------------------------------------------------------
\* ORDER BY createdAt DESC, id DESC.
Newer(i, j) == table[i] > table[j] \/ (table[i] = table[j] /\ i > j)

LatestFirst(S) == InOrder(S, {ij \in S \X S : Newer(ij[1], ij[2])})
ById(S) == InOrder(S, {ij \in S \X S : ij[1] < ij[2]})

\* Mutant: rows of the very same instant are taken for told.
BehindInstant(i, time, id) == table[i] < time

\* WHERE createdAt < cursor OR (createdAt = cursor AND id < cursor's).
Behind(i, time, id) == table[i] < time \/ (table[i] = time /\ i < id)

\* One page: limit + 1 rows are read, the last one only to know that there are
\* more, and the cursor is made from the last row of the page.
ReadPageOf(ordered, cursorTime) ==
  LET page == SubSeq(ordered, 1, IF Len(ordered) < Limit THEN Len(ordered) ELSE Limit)
  IN  /\ walk' = [walk EXCEPT
           !.told = @ \o page,
           !.pc = IF Len(ordered) > Limit THEN "more" ELSE "end",
           !.cursor = IF page = <<>> THEN 0 ELSE Last(page),
           !.at = IF page = <<>> THEN 0 ELSE cursorTime[Last(page)],
           !.cut = IF page = <<>> \/ cursorTime[Last(page)] = table[Last(page)] THEN @
                   ELSE @ \cup {cursorTime[Last(page)]}]
      /\ UNCHANGED <<list, table>>

Reading(l) == list = l /\ walk.pc \in {"first", "more"}

RowsBehind == {i \in Here : walk.pc = "first" \/ Behind(i, walk.at, walk.cursor)}

ByMilliseconds(l) ==
  /\ Reading(l)
  /\ ReadPageOf(LatestFirst(RowsBehind), [i \in Here |-> Millisecond(table[i])])

ListControlAuditEvents == ByMilliseconds("audit")
ListPersonasPage == ByMilliseconds("personas")
ListJobsPage == ByMilliseconds("jobs")
ListPending == ByMilliseconds("approvals")
ListPendingToolCallsPage == ByMilliseconds("pending")
ListMessagesPageByJob == ByMilliseconds("messages")
ListNotificationsPage == ByMilliseconds("notifications")

\* createdAtKey: the cursor of clients is a number of full precision.
ListControlClients ==
  /\ Reading("clients")
  /\ ReadPageOf(LatestFirst(RowsBehind), table)

\* The page after the row of the cursor, in the order of the ids; a cursor
\* whose routine is gone is refused.
ListRoutinesPage ==
  /\ Reading("routines")
  /\ IF walk.pc = "more" /\ walk.cursor \notin Here
       THEN walk' = [walk EXCEPT !.pc = "refused"] /\ UNCHANGED <<list, table>>
       ELSE ReadPageOf(ById({i \in Here : i > walk.cursor}), [i \in Here |-> 0])

-----------------------------------------------------------------------------
StartWalk ==
  /\ walk' = [NoWalk EXCEPT !.pc = "first", !.there = Here]
  /\ UNCHANGED <<list, table>>

\* A transaction commits a row; its createdAt is when it began.
InsertRow(i, time) ==
  /\ table[i] = Gone /\ i \notin walk.there
  /\ list = "messages" => time = Millisecond(time)
  /\ table' = [table EXCEPT ![i] = time]
  /\ UNCHANGED <<list, walk>>

\* Routines are deleted; approvals are decided and notices are read.
RowLeaves(i) ==
  /\ list \in {"routines", "approvals", "pending", "notifications"}
  /\ i \in Here
  /\ table' = [table EXCEPT ![i] = Gone]
  /\ walk' = [walk EXCEPT !.there = @ \ {i}]
  /\ UNCHANGED list

PagingNext ==
  \/ StartWalk
  \/ ListControlClients \/ ListControlAuditEvents \/ ListPersonasPage \/ ListJobsPage
  \/ ListPending \/ ListPendingToolCallsPage \/ ListMessagesPageByJob
  \/ ListNotificationsPage \/ ListRoutinesPage
  \/ \E i \in RowIds : RowLeaves(i) \/ \E time \in 0 .. MaxTime : InsertRow(i, time)

PagingSpec == PagingInit /\ [][PagingNext]_pagingVars

-----------------------------------------------------------------------------
PagingTypeOK ==
  /\ list \in Lists
  /\ table \in [RowIds -> 0 .. Gone]
  /\ walk.pc \in {"none", "first", "more", "end", "refused"}
  /\ walk.told \in Seq(RowIds) /\ walk.there \subseteq RowIds

(* A reader who follows the cursors to the end is told every row that was  *)
(* there all the while, and none twice.  What may be left out is a row in  *)
(* whose millisecond a cursor was made from a row that PostgreSQL dates    *)
(* finer, in the lists whose cursor tells milliseconds only.               *)
WalkTellsEveryRow ==
  /\ \A i, j \in DOMAIN walk.told : i # j /\ walk.told[i] = walk.told[j]
       => walk.told[i] \notin walk.there
  /\ walk.pc = "end" =>
       \A i \in walk.there \ ToSet(walk.told) :
         list \notin {"clients", "messages", "routines"} /\ Millisecond(table[i]) \in walk.cut

=============================================================================
