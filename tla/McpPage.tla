------------------------------- MODULE McpPage -------------------------------
(***************************************************************************)
(* The MCP Connections page (mcp-settings-content.tsx): the list of        *)
(* servers with the number of their approved tools, the tools of the one   *)
(* that is selected, and the calls it has under way.  The backend carries  *)
(* out each call in a step of its own, and its answer arrives later, in    *)
(* any order.  Tools and servers on the backend are as ToolCatalog has     *)
(* them; here they change in one step a call.                              *)
(***************************************************************************)
EXTENDS Naturals, FiniteSets

CONSTANTS
  Hosts,      \* MCP servers
  FirstHosts, \* those that exist when the page is opened
  HostOf,     \* the server each tool belongs to
  Pending     \* calls that may be under way at once

NoHost == "none"

ASSUME McpPageAssumption ==
  /\ FirstHosts \subseteq Hosts /\ NoHost \notin Hosts
  /\ IsFiniteSet(DOMAIN HostOf)
  /\ \A t \in DOMAIN HostOf : HostOf[t] \in Hosts

VARIABLES
  hosts,     \* mcp_servers: the rows that exist
  approvals, \* mcp_server_tools: the approved flag of each row
  mcpPage,   \* the state of the page
  pending,   \* the calls under way, with what each handler captured
  disturbed  \* ghost: calls overlapped, an answer was lost, others wrote, or a
             \* server that is not the selected one was asked for its tools

mcpVars == <<hosts, approvals, mcpPage, pending, disturbed>>

ToolsOf(h) == {t \in DOMAIN HostOf : HostOf[t] = h}

\* The rows of a query: approvedCount of each server, approved of each tool.
HostRows == [h \in hosts |-> Cardinality({t \in ToolsOf(h) : approvals[t]})]
ToolRows(h) == [t \in (IF h \in hosts THEN ToolsOf(h) ELSE {}) |-> approvals[t]]

NoRowsAtAll == [t \in {} |-> TRUE]

Free == [kind |-> "free"]
Sent(call) == [kind |-> call.kind, call |-> call, phase |-> "sent"]

LoadServers(then) == [kind |-> "servers", select |-> then]
LoadTools(h) == [kind |-> "tools", host |-> h]

FreshPage == [state |-> "loading", servers |-> NoRowsAtAll, selected |-> NoHost,
              tools |-> NoRowsAtAll, marked |-> {}, error |-> FALSE, bulkBusy |-> FALSE]

McpInit ==
  /\ hosts = FirstHosts
  /\ approvals = [t \in DOMAIN HostOf |-> FALSE]
  /\ mcpPage = FreshPage
  /\ pending = [x \in Pending |-> IF x = CHOOSE y \in Pending : TRUE
                                     THEN Sent(LoadServers(NoHost)) ELSE Free]
  /\ disturbed = FALSE

FreeSlots == {x \in Pending : pending[x] = Free}

Quiescent == \A x \in Pending : pending[x] = Free

\* Bound: once the page was disturbed, what is under way ends and the page is
\* opened anew before anything else is done.
OnceDisturbed == ~disturbed

\* A handler of the page makes its first call.
Start(call) ==
  /\ OnceDisturbed
  /\ FreeSlots # {}
  /\ pending' = [pending EXCEPT ![CHOOSE x \in FreeSlots : TRUE] = Sent(call)]
  /\ disturbed' = (disturbed \/ ~Quiescent)
  /\ UNCHANGED <<hosts, approvals>>

\* The call in x is over; the handler makes one or two more, or none.
GoOn(x, call) == pending' = [pending EXCEPT ![x] = Sent(call)]
GoOnTwice(x, one, two) ==
  /\ FreeSlots # {}
  /\ pending' = [pending EXCEPT ![x] = Sent(one), ![CHOOSE y \in FreeSlots : TRUE] = Sent(two)]
Finish(x) == pending' = [pending EXCEPT ![x] = Free]

-----------------------------------------------------------------------------
(* What the owner does.                                                    *)

\* The mark of every tool goes, and the tools of the server are loaded; the
\* tools of the last one stay until they arrive.
SelectHost(h) ==
  /\ mcpPage.state = "ready"
  /\ h \in DOMAIN mcpPage.servers
  /\ IF mcpPage.selected = h
       THEN /\ mcpPage' = [mcpPage EXCEPT !.selected = NoHost, !.marked = {}]
            /\ UNCHANGED <<hosts, approvals, pending, disturbed>>
       ELSE /\ mcpPage' = [mcpPage EXCEPT !.selected = h, !.marked = {}, !.error = FALSE]
            /\ Start(LoadTools(h))

ToolsAreShown == mcpPage.state = "ready" /\ mcpPage.selected # NoHost

ToggleToolSelection(t) ==
  /\ ToolsAreShown /\ t \in DOMAIN mcpPage.tools /\ ~mcpPage.tools[t]
  /\ mcpPage' = [mcpPage EXCEPT !.marked = IF t \in @ THEN @ \ {t} ELSE @ \cup {t}]
  /\ UNCHANGED <<hosts, approvals, pending, disturbed>>

\* handleApprove() and handleRevoke(), with the list of tools as it was then.
HandleUpdate(t) ==
  /\ ToolsAreShown /\ t \in DOMAIN mcpPage.tools
  /\ Start([kind |-> "update", host |-> mcpPage.selected, tools |-> {t},
            approved |-> ~mcpPage.tools[t], before |-> mcpPage.tools])
  /\ UNCHANGED mcpPage

HandleBulkApprove ==
  /\ ToolsAreShown /\ mcpPage.marked # {} /\ ~mcpPage.bulkBusy
  /\ LET chosen == {t \in DOMAIN mcpPage.tools : ~mcpPage.tools[t] /\ t \in mcpPage.marked}
     IN  Start([kind |-> "bulk", host |-> mcpPage.selected, tools |-> chosen,
                approved |-> TRUE, before |-> mcpPage.tools])
  /\ mcpPage' = [mcpPage EXCEPT !.bulkBusy = TRUE, !.error = FALSE]

HandleServer(kind, h) ==
  /\ mcpPage.state = "ready" /\ h \in DOMAIN mcpPage.servers
  /\ Start([kind |-> kind, host |-> h,
            selected |-> kind = "delete" /\ h = mcpPage.selected])
  /\ UNCHANGED mcpPage

HandleAddServer(h) ==
  /\ h \notin hosts
  /\ \A x \in Pending : pending[x].kind # "add"
  /\ Start([kind |-> "add", host |-> h])
  /\ UNCHANGED mcpPage

RetryServers ==
  /\ mcpPage.state = "error"
  /\ mcpPage' = [mcpPage EXCEPT !.state = "loading"]
  /\ Start(LoadServers(NoHost))

-----------------------------------------------------------------------------
(* The backend.                                                            *)

\* getMcpServerTool() asks for the id of the server as well.
FoundTool(h, t) == h \in hosts /\ HostOf[t] = h

Answer(x, answer) == pending' = [pending EXCEPT ![x] =
  [kind |-> @.kind, call |-> @.call, phase |-> "answered", answer |-> answer]]

\* A call is carried out and its answer is on its way.
Serve(x) ==
  /\ pending[x] # Free /\ pending[x].phase = "sent"
  /\ LET call == pending[x].call
     IN  \/ /\ call.kind = "servers"
            /\ Answer(x, HostRows)
            /\ UNCHANGED <<hosts, approvals>>
         \/ /\ call.kind = "tools" /\ call.host \in hosts
            /\ Answer(x, ToolRows(call.host))
            /\ UNCHANGED <<hosts, approvals>>
         \/ /\ call.kind \in {"update", "bulk"}
            /\ LET found == {t \in call.tools : FoundTool(call.host, t)}
               IN  /\ found # {} \/ call.kind = "bulk"
                   /\ approvals' = [t \in DOMAIN HostOf |->
                                      IF t \in found THEN call.approved ELSE approvals[t]]
                   /\ Answer(x, found)
            /\ UNCHANGED hosts
         \/ /\ call.kind = "discover" /\ call.host \in hosts
            /\ \E changed \in SUBSET ToolsOf(call.host) :
                 approvals' = [t \in DOMAIN HostOf |-> approvals[t] /\ t \notin changed]
            /\ UNCHANGED hosts /\ Answer(x, NoRowsAtAll)
         \/ /\ call.kind = "delete" /\ call.host \in hosts
            /\ hosts' = hosts \ {call.host}
            /\ approvals' = [t \in DOMAIN HostOf |-> approvals[t] /\ HostOf[t] # call.host]
            /\ Answer(x, NoRowsAtAll)
         \/ /\ call.kind = "toggle" /\ call.host \in hosts
            /\ UNCHANGED <<hosts, approvals>> /\ Answer(x, NoRowsAtAll)
         \/ /\ call.kind = "add" /\ call.host \notin hosts
            /\ hosts' = hosts \cup {call.host}
            /\ UNCHANGED approvals /\ Answer(x, NoRowsAtAll)
  /\ UNCHANGED <<mcpPage, disturbed>>

-----------------------------------------------------------------------------
(* What the page makes of the answers.                                     *)

Arrived(x, kind) == pending[x].kind = kind /\ pending[x].phase = "answered"

ShowServers(x) ==
  /\ Arrived(x, "servers")
  /\ LET then == pending[x].call.select
         page == [mcpPage EXCEPT !.state = "ready", !.servers = pending[x].answer]
     IN  IF then \in {NoHost, mcpPage.selected}
           THEN mcpPage' = page /\ Finish(x)
           ELSE /\ mcpPage' = [page EXCEPT !.selected = then, !.marked = {}, !.error = FALSE]
                /\ GoOn(x, LoadTools(then))
  /\ UNCHANGED <<hosts, approvals, disturbed>>

\* Whatever server is selected by now.
ShowTools(x) ==
  /\ Arrived(x, "tools")
  /\ mcpPage' = [mcpPage EXCEPT !.tools = pending[x].answer]
  /\ Finish(x)
  /\ UNCHANGED <<hosts, approvals, disturbed>>

Differing(before, updated, approved) ==
  {t \in updated : t \in DOMAIN before /\ before[t] # approved}

\* Mutant: the difference of a server is set and not added to.
CountsTheLast(before, updated, approved) ==
  {CHOOSE t \in S : TRUE : S \in {Differing(before, updated, approved)} \ {{}}}

\* The updates that count: against the tools the handler captured.
CountedUpdates(before, updated, approved) == Differing(before, updated, approved)

\* mergeMcpToolUpdates(): the rows that are on the page, and the number of
\* approved tools of the servers on the page.
MergeUpdates(page, updated, approved, before) ==
  [page EXCEPT
     !.tools = [t \in DOMAIN @ |-> IF t \in updated THEN approved ELSE @[t]],
     !.servers = [h \in DOMAIN @ |->
       LET n == Cardinality({t \in CountedUpdates(before, updated, approved) : HostOf[t] = h})
       IN  IF approved THEN @[h] + n ELSE IF @[h] < n THEN 0 ELSE @[h] - n],
     !.marked = IF approved THEN @ \ updated ELSE @]

ShowUpdate(x) ==
  /\ Arrived(x, "update")
  /\ LET call == pending[x].call
     IN  mcpPage' = MergeUpdates(mcpPage, pending[x].answer, call.approved, call.before)
  /\ Finish(x)
  /\ UNCHANGED <<hosts, approvals, disturbed>>

ShowBulk(x) ==
  /\ Arrived(x, "bulk")
  /\ LET call == pending[x].call
         page == MergeUpdates(mcpPage, pending[x].answer, TRUE, call.before)
     IN  mcpPage' = [page EXCEPT !.bulkBusy = FALSE,
                                 !.error = @ \/ pending[x].answer # call.tools]
  /\ Finish(x)
  /\ UNCHANGED <<hosts, approvals, disturbed>>

\* loadServers() hides the list until its answer arrives.  The tools of the
\* server that was asked again are loaded, whichever is selected.
Reloading(page) == [page EXCEPT !.state = "loading"]

AfterDiscover(x) ==
  /\ Arrived(x, "discover")
  /\ mcpPage' = [Reloading(mcpPage) EXCEPT !.error = FALSE]
  /\ GoOnTwice(x, LoadServers(NoHost), LoadTools(pending[x].call.host))
  /\ disturbed' = (disturbed \/ pending[x].call.host # mcpPage.selected)
  /\ UNCHANGED <<hosts, approvals>>

\* The server that was selected when Delete was pressed is let go.
AfterDelete(x) ==
  /\ Arrived(x, "delete")
  /\ mcpPage' = IF pending[x].call.selected
                  THEN [Reloading(mcpPage) EXCEPT !.selected = NoHost, !.marked = {}, !.tools = NoRowsAtAll]
                  ELSE Reloading(mcpPage)
  /\ GoOn(x, LoadServers(NoHost))
  /\ UNCHANGED <<hosts, approvals, disturbed>>

AfterToggle(x) ==
  /\ Arrived(x, "toggle")
  /\ mcpPage' = Reloading(mcpPage)
  /\ GoOn(x, LoadServers(NoHost))
  /\ UNCHANGED <<hosts, approvals, disturbed>>

\* A new server is selected once the list has it.
AfterAdd(x) ==
  /\ Arrived(x, "add")
  /\ mcpPage' = Reloading(mcpPage)
  /\ GoOn(x, LoadServers(pending[x].call.host))
  /\ UNCHANGED <<hosts, approvals, disturbed>>

\* The catch blocks.  A call that fails may have been carried out.
CallFails(x) ==
  /\ pending[x] # Free
  /\ LET kind == pending[x].kind
     IN  mcpPage' = [mcpPage EXCEPT
           !.state = IF kind = "servers" THEN "error" ELSE @,
           !.error = @ \/ kind \in {"tools", "discover", "bulk"},
           !.bulkBusy = @ /\ kind # "bulk"]
  /\ disturbed' = (disturbed \/ pending[x].kind = "tools"
                   \/ (pending[x].kind # "servers" /\ pending[x].phase = "answered"))
  /\ Finish(x)
  /\ UNCHANGED <<hosts, approvals>>

ApproveElsewhere(t) ==
  /\ OnceDisturbed
  /\ HostOf[t] \in hosts
  /\ approvals' = [approvals EXCEPT ![t] = ~@]
  /\ disturbed' = TRUE
  /\ UNCHANGED <<hosts, mcpPage, pending>>

\* The page is opened anew: what is under way is carried out or lost.
OpenMcpPage ==
  /\ Quiescent
  /\ mcpPage' = FreshPage
  /\ pending' = [pending EXCEPT ![CHOOSE x \in Pending : TRUE] = Sent(LoadServers(NoHost))]
  /\ disturbed' = FALSE
  /\ UNCHANGED <<hosts, approvals>>

McpNext ==
  \/ \E h \in Hosts : \/ SelectHost(h) \/ HandleAddServer(h)
                      \/ \E kind \in {"discover", "delete", "toggle"} : HandleServer(kind, h)
  \/ \E t \in DOMAIN HostOf : ToggleToolSelection(t) \/ HandleUpdate(t) \/ ApproveElsewhere(t)
  \/ HandleBulkApprove \/ RetryServers \/ OpenMcpPage
  \/ \E x \in Pending :
       \/ Serve(x) \/ CallFails(x)
       \/ ShowServers(x) \/ ShowTools(x) \/ ShowUpdate(x) \/ ShowBulk(x)
       \/ AfterDiscover(x) \/ AfterDelete(x) \/ AfterToggle(x) \/ AfterAdd(x)

McpSpec == McpInit /\ [][McpNext]_mcpVars

-----------------------------------------------------------------------------
McpTypeOK ==
  /\ hosts \subseteq Hosts
  /\ approvals \in [DOMAIN HostOf -> BOOLEAN]
  /\ mcpPage.state \in {"loading", "ready", "error"}
  /\ mcpPage.selected \in Hosts \cup {NoHost}
  /\ disturbed \in BOOLEAN

(* An owner who waits for each answer sees what is stored: the tools of    *)
(* the selected server and, for every server, how many are approved,       *)
(* although approvals are merged into the page and not read again.         *)
PatientPageIsCurrent ==
  Quiescent /\ ~disturbed /\ mcpPage.state = "ready" /\ ~mcpPage.error =>
    /\ mcpPage.servers = HostRows
    /\ mcpPage.selected # NoHost => mcpPage.tools = ToolRows(mcpPage.selected)

=============================================================================
