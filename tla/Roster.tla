------------------------------- MODULE Roster -------------------------------
(***************************************************************************)
(* The personas: their reporting line and the tools assigned to them       *)
(* (personas/persona-repo.ts, persona-routes.ts, tools/autonomy.ts, the    *)
(* always-allow route of tool-call-routes.ts).  A PATCH reads, checks and  *)
(* writes in separate statements, and always-allow writes back the whole   *)
(* array it read, so that what was checked may be stale when it is used.   *)
(***************************************************************************)
EXTENDS Naturals, FiniteSets

CONSTANTS
  Personas,
  ToolIds,
  DestructiveIds,   \* the tools whose risk class is destructive
  MaxCalls          \* bound: HTTP requests between their reads and their write

ASSUME RosterAssumption == DestructiveIds \subseteq ToolIds /\ MaxCalls \in Nat

NoManager == "nobody"   \* reports_to is null
ASSUME NoManagerAssumption == NoManager \notin Personas

VARIABLES
  roster,   \* the personas table: reports_to and assigned_tool_ids
  calls,    \* what the requests checked or read, and are about to write
  crossed   \* ghost: a manager was changed between a check and its write

rosterVars == <<roster, calls, crossed>>

Permitted == {"blocked", "ask", "allow"}

RosterTypeOK ==
  /\ \A p \in DOMAIN roster : roster[p].reportsTo \in Personas \cup {NoManager}
  /\ \A p \in DOMAIN roster : roster[p].tools \in [ToolIds -> Permitted]
  /\ DOMAIN roster \subseteq Personas /\ IsFiniteSet(calls) /\ Cardinality(calls) <= MaxCalls
  /\ crossed \in BOOLEAN

\* The first hire, at the top of the chart, with every tool on Ask.
RosterInit ==
  /\ \E p \in Personas :
       roster = [q \in {p} |-> [reportsTo |-> NoManager, tools |-> [t \in ToolIds |-> "ask"]]]
  /\ calls = {}
  /\ crossed = FALSE

-----------------------------------------------------------------------------
\* normalizeAssignedTools: a stored Allow on a destructive tool becomes Ask.
normalizeAssignedTools(tools) ==
  [t \in ToolIds |-> IF tools[t] = "allow" /\ t \in DestructiveIds THEN "ask" ELSE tools[t]]

\* A set that the line of none of its personas leaves.
HoldsItsManagers(S) == \A q \in S : roster[q].reportsTo \in S \cup {NoManager}

\* Everyone above a persona, itself included, however long the line is: whom
\* the walk up the line meets, which stops at somebody it has met before.
Above(p) ==
  {q \in DOMAIN roster : \A S \in SUBSET DOMAIN roster :
     {p} \cap DOMAIN roster \subseteq S /\ HoldsItsManagers(S) => q \in S}

\* Mutant: only a persona that would report to itself is refused.
OnlySelfReports(p, manager) == manager = p

wouldCreateReportingCycle(p, manager) == p \in Above(manager) \cup {manager}

StartCall(step) == Cardinality(calls) < MaxCalls /\ calls' = calls \cup {step}
EndCall(c) == calls' = calls \ {c}

\* POST /personas: the manager exists, and a hire has nobody below it.
HirePersona(p, manager) ==
  /\ p \in Personas \ DOMAIN roster
  /\ manager \in DOMAIN roster \cup {NoManager}
  /\ roster' = [q \in DOMAIN roster \cup {p} |->
       IF q = p THEN [reportsTo |-> manager, tools |-> [t \in ToolIds |-> "ask"]]
       ELSE roster[q]]
  /\ UNCHANGED <<calls, crossed>>

\* PATCH /personas/:id with a manager: 400 for nobody, or for a cycle.
CheckManager(p, manager) ==
  /\ p \in DOMAIN roster /\ manager \in DOMAIN roster
  /\ ~ wouldCreateReportingCycle(p, manager)
  /\ StartCall([pc |-> "manager", persona |-> p, manager |-> manager])
  /\ UNCHANGED <<roster, crossed>>

WriteManager(c) ==
  /\ c.pc = "manager"
  /\ roster' = [roster EXCEPT ![c.persona].reportsTo = c.manager]
  /\ crossed' = (crossed \/ \E d \in calls \ {c} : d.pc = "manager")
  /\ EndCall(c)

\* reportsTo: null needs no check.
ClearManager(p) ==
  /\ p \in DOMAIN roster
  /\ roster' = [roster EXCEPT ![p].reportsTo = NoManager]
  /\ UNCHANGED <<calls, crossed>>

\* The form of a persona shows the tools it loaded, and sends all of them
\* back with the one that was changed.
OpenForm(p, t, permission) ==
  /\ p \in DOMAIN roster /\ roster[p].tools[t] # permission
  /\ StartCall([pc |-> "form", persona |-> p, tool |-> t,
           tools |-> [roster[p].tools EXCEPT ![t] = permission]])
  /\ UNCHANGED <<roster, crossed>>

\* POST /tool-calls/:id/always-allow: never for a destructive tool, nor one
\* that is no longer assigned.
ReadTools(p, t) ==
  /\ p \in DOMAIN roster /\ t \notin DestructiveIds /\ roster[p].tools[t] # "blocked"
  /\ StartCall([pc |-> "always", persona |-> p, tool |-> t,
           tools |-> [roster[p].tools EXCEPT ![t] = "allow"]])
  /\ UNCHANGED <<roster, crossed>>

\* updatePersona: the array replaces the stored one.
WriteTools(c) ==
  /\ c.pc \in {"form", "always"}
  /\ roster' = [roster EXCEPT ![c.persona].tools =
       IF c.pc = "form" THEN normalizeAssignedTools(c.tools) ELSE c.tools]
  /\ EndCall(c)
  /\ UNCHANGED crossed

RosterNext ==
  \/ \E c \in calls : WriteManager(c) \/ WriteTools(c)
  \/ \E p \in Personas :
       \/ ClearManager(p)
       \/ \E m \in Personas \cup {NoManager} : HirePersona(p, m)
       \/ \E m \in Personas : CheckManager(p, m)
       \/ \E t \in ToolIds : \/ ReadTools(p, t)
                           \/ \E permission \in Permitted : OpenForm(p, t, permission)

RosterSpec == RosterInit /\ [][RosterNext]_rosterVars

-----------------------------------------------------------------------------
\* Nobody reports to somebody below them, unless two changes of a manager
\* overlapped: each checked the chart the other was about to change
\* (wouldCreateReportingCycle, schema.ts personas.reportsTo).
ChartHasNoCycleUnlessRaced ==
  crossed \/ \A p \in DOMAIN roster : p \notin Above(roster[p].reportsTo)

=============================================================================
