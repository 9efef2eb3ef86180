--------------------------- MODULE ControlClients ---------------------------
(***************************************************************************)
(* Clients of the control plane: their rows (control/client-repo.ts), the  *)
(* requests that arrive with their tokens at /mcp/control (middleware.ts,  *)
(* mcp-server.ts), and the owner's Access page, which lists, creates and   *)
(* revokes them.  A step is one statement, or what runs between two awaits.*)
(***************************************************************************)
EXTENDS Integers, Sequences, FiniteSets, SequencesExt

CONSTANTS
  Inbound,     \* requests that may be under way at once
  Calls,       \* tool calls the clients make: [tool, args, key]
  Grants,      \* sets of scopes the owner gives
  MaxClients,  \* bound: clients ever created
  MaxMinted,   \* bound: keys minted for calls without one
  PageSize     \* rows of one page of the list

NoKey == 0

ASSUME ClientsAssumption ==
  /\ MaxClients \in Nat /\ MaxMinted \in Nat /\ PageSize \in Nat \ {0}
  /\ \A c \in Calls : c.key \in Nat

VARIABLES
  clients,    \* control_clients, oldest first
  operations, \* control_operations of these clients
  minted,     \* keys minted so far
  inbound,    \* the locals of each request
  access      \* the state of the Access page

clientsVars == <<clients, operations, minted, inbound, access>>

toolScopes ==
  [retinueos_personas_list |-> "personas:read", retinueos_personas_get |-> "personas:read",
   retinueos_jobs_list |-> "jobs:read", retinueos_jobs_get |-> "jobs:read",
   retinueos_jobs_create |-> "jobs:write", retinueos_jobs_continue |-> "jobs:write",
   retinueos_jobs_cancel |-> "jobs:write", retinueos_routines_list |-> "routines:read",
   retinueos_routines_create |-> "routines:write", retinueos_routines_update |-> "routines:write",
   retinueos_routines_pause |-> "routines:write", retinueos_routines_resume |-> "routines:write",
   retinueos_routines_run |-> "routines:write", retinueos_routines_delete |-> "routines:write",
   retinueos_approvals_list |-> "approvals:read", retinueos_approvals_resolve |-> "approvals:write",
   retinueos_audit_list |-> "audit:read"]

Scopes == {toolScopes[t] : t \in DOMAIN toolScopes}

Mutations == {t \in DOMAIN toolScopes :
                toolScopes[t] \in {"jobs:write", "routines:write", "approvals:write"}}

ASSUME CallsAssumption ==
  /\ Grants \subseteq SUBSET Scopes
  /\ \A c \in Calls : c.tool \in DOMAIN toolScopes /\ c.args \in Nat

\* used: lastUsedAt, against the hour after which it is written again.
\* revocations: its client.revoke rows of the audit.
ClientRow == [scopes : SUBSET Scopes, revoked : BOOLEAN,
              used : {"never", "recent", "old"}, revocations : 0 .. 1]

Operation == [client : 1 .. MaxClients, tool : Mutations, key : Int, args : Nat,
              status : {"in_progress", "completed", "failed"}]

Resting == [pc |-> "rest"]

Closed == [state |-> "closed"]

ClientsInit ==
  /\ clients = <<>> /\ operations = {} /\ minted = 0
  /\ inbound = [r \in Inbound |-> Resting]
  /\ access = Closed

Active(c) == ~clients[c].revoked

Step(r, frame) == inbound' = [inbound EXCEPT ![r] = frame]

-----------------------------------------------------------------------------
(* The rows.                                                               *)

CreateControlClient(scopes) ==
  /\ Len(clients) < MaxClients
  /\ clients' = Append(clients, [scopes |-> scopes, revoked |-> FALSE,
                                 used |-> "never", revocations |-> 0])

\* Only the statement that finds the client active writes the audit row.
RevokeControlClient(c) ==
  clients' = IF Active(c) THEN [clients EXCEPT ![c].revoked = TRUE, ![c].revocations = @ + 1]
             ELSE clients

HourPasses(c) ==
  /\ clients[c].used = "recent"
  /\ clients' = [clients EXCEPT ![c].used = "old"]
  /\ UNCHANGED <<operations, minted, inbound, access>>

-----------------------------------------------------------------------------
(* A request: requireControlClient(), then controlMcpRoutes().             *)

Arriving(pc, c, call) == [pc |-> pc, client |-> c, scopes |-> clients[c].scopes, call |-> call]

\* The first SELECT; a token used within the hour is let in on it alone.
SelectClient(r, c, call) ==
  /\ inbound[r] = Resting
  /\ Active(c)
  /\ Step(r, Arriving(IF clients[c].used = "recent" THEN "admitted" ELSE "touch", c, call))
  /\ UNCHANGED <<clients, operations, minted, access>>

\* Mutant: the UPDATE asks for the hour only.
TouchAnyClient(r) ==
  /\ inbound[r].pc = "touch"
  /\ LET c == inbound[r].client
     IN  /\ Step(r, [inbound[r] EXCEPT !.pc = "admitted"])
         /\ clients' = [clients EXCEPT ![c].used = "recent"]
  /\ UNCHANGED <<operations, minted, access>>

\* The UPDATE of lastUsedAt, which also looks at revokedAt.
TouchClient(r) ==
  /\ inbound[r].pc = "touch"
  /\ LET c == inbound[r].client
     IN  IF Active(c) /\ clients[c].used # "recent"
           THEN /\ Step(r, [inbound[r] EXCEPT !.pc = "admitted"])
                /\ clients' = [clients EXCEPT ![c].used = "recent"]
           ELSE Step(r, [inbound[r] EXCEPT !.pc = "reselect"]) /\ UNCHANGED clients
  /\ UNCHANGED <<operations, minted, access>>

\* Another request wrote it first, or the client was revoked meanwhile.
ReselectClient(r) ==
  /\ inbound[r].pc = "reselect"
  /\ Step(r, IF Active(inbound[r].client) THEN [inbound[r] EXCEPT !.pc = "admitted"] ELSE Resting)
  /\ UNCHANGED <<clients, operations, minted, access>>

Allowed(scopes, tool) == toolScopes[tool] \in scopes

\* mutationIdempotencyKey(): minted keys are the numbers below zero.
MutationIdempotencyKey(call) == IF call.key = NoKey THEN -(minted + 1) ELSE call.key

\* The scopes are those of the row that let the request in.  An untrusted
\* Origin, a missing scope or a tool that is not registered for the actor
\* ends it; so does the answer of a read.
DispatchCall(r) ==
  /\ inbound[r].pc = "admitted"
  /\ LET f == inbound[r]
     IN  IF Allowed(f.scopes, f.call.tool) /\ f.call.tool \in Mutations
           THEN /\ minted < MaxMinted
                /\ minted' = IF f.call.key = NoKey THEN minted + 1 ELSE minted
                /\ Step(r, [pc |-> "claim", client |-> f.client, call |-> f.call,
                            key |-> MutationIdempotencyKey(f.call)])
           ELSE Step(r, Resting) /\ UNCHANGED minted
  /\ UNCHANGED <<clients, operations, access>>

TurnAway(r) ==
  /\ inbound[r].pc = "admitted"
  /\ Step(r, Resting)
  /\ UNCHANGED <<clients, operations, minted, access>>

\* The row of the actor, the action and the key.
Claims(r) == {o \in operations : /\ o.client = inbound[r].client
                                 /\ o.tool = inbound[r].call.tool
                                 /\ o.key = inbound[r].key}

Answered(r, outcome) == Step(r, [pc |-> "answered", call |-> inbound[r].call, outcome |-> outcome])

ClaimOperation(r) ==
  /\ inbound[r].pc = "claim"
  /\ LET f == inbound[r]
         new == [client |-> f.client, tool |-> f.call.tool, key |-> f.key,
                 args |-> f.call.args, status |-> "in_progress"]
     IN  \/ /\ Claims(r) = {}
            /\ operations' = operations \cup {new}
            /\ Step(r, [pc |-> "perform", call |-> f.call, operation |-> new])
         \/ \E o \in Claims(r) :
              /\ Answered(r, CASE o.args # f.call.args -> "idempotency_conflict"
                               [] o.status = "in_progress" -> "operation_in_progress"
                               [] o.status = "failed" -> "operation_failed"
                               [] o.status = "completed" -> "replayed")
              /\ UNCHANGED operations
  /\ UNCHANGED <<clients, minted, access>>

\* The mutation itself, which a revocation no longer stops.
PerformOperation(r, status) ==
  /\ inbound[r].pc = "perform"
  /\ LET o == inbound[r].operation
     IN  operations' = (operations \ {o}) \cup {[o EXCEPT !.status = status]}
  /\ Answered(r, IF status = "completed" THEN "performed" ELSE "failed")
  /\ UNCHANGED <<clients, minted, access>>

EndRequest(r) ==
  /\ inbound[r].pc = "answered"
  /\ Step(r, Resting)
  /\ UNCHANGED <<clients, operations, minted, access>>

-----------------------------------------------------------------------------
(* The Access page.                                                        *)

Row(c) == [id |-> c, revoked |-> clients[c].revoked]

NotLoading == [busy |-> FALSE]

\* load(): behind is mutationGeneration against its value at the start.
StartLoad == [busy |-> TRUE, items |-> <<>>, cursor |-> MaxClients + 1, read |-> FALSE, behind |-> FALSE]

OpenPage ==
  /\ access = Closed
  /\ access' = [state |-> "loading", shown |-> <<>>, load |-> StartLoad,
                creating |-> 0, revoking |-> 0, answered |-> {}]
  /\ UNCHANGED <<clients, operations, minted, inbound>>

\* Answers that arrive after the page is left change nothing.
LeavePage ==
  /\ access # Closed
  /\ access' = Closed
  /\ UNCHANGED <<clients, operations, minted, inbound>>

RetryLoad ==
  /\ access.state = "error"
  /\ access' = [access EXCEPT !.state = "loading", !.load = StartLoad]
  /\ UNCHANGED <<clients, operations, minted, inbound>>

\* A set of rows as a list, the newest first.
NewestFirst(S) ==
  [i \in 1 .. Cardinality(S) |->
     CHOOSE x \in S : Cardinality({y \in S : y.id > x.id}) = i - 1]

\* listControlClients(): the newest rows before the cursor, which holds the
\* full precision of createdAt, and whether there are more.
PageBefore(cursor) ==
  LET lower == {c \in DOMAIN clients : c < cursor}
      page == {c \in lower : Cardinality({d \in lower : d > c}) < PageSize}
  IN  [items |-> NewestFirst({Row(c) : c \in page}),
       next  |-> IF page = lower THEN 0 ELSE Min(page)]

OnePageOn(load) ==
  LET page == PageBefore(load.cursor)
  IN  [load EXCEPT !.items = @ \o page.items, !.cursor = page.next, !.read = (page.next = 0)]

ReadPage ==
  /\ access.state = "loading" /\ ~access.load.read
  /\ access' = [access EXCEPT !.load = OnePageOn(@)]
  /\ UNCHANGED <<clients, operations, minted, inbound>>

IdsShown(items) == {items[i].id : i \in DOMAIN items}

\* Mutant: the list that was loaded is the list that is shown.
LoadedAsRead(loaded, current, behind) == loaded

\* mergeClientsAfterStaleLoad(), for a load that a mutation overtook: the rows
\* that are not shown yet come last, newest first as they were loaded.
Merged(loaded, current, behind) ==
  IF behind THEN current \o NewestFirst({x \in ToSet(loaded) : x.id \notin IdsShown(current)})
  ELSE loaded

ShowLoad ==
  /\ access.state = "loading" /\ access.load.read
  /\ access' = [access EXCEPT !.state = "ready", !.load = NotLoading,
                              !.shown = Merged(access.load.items, @, access.load.behind)]
  /\ UNCHANGED <<clients, operations, minted, inbound>>

LoadFails ==
  /\ access.state = "loading"
  /\ access' = [access EXCEPT !.state = "error", !.load = NotLoading]
  /\ UNCHANGED <<clients, operations, minted, inbound>>

\* What an answered mutation does to the page: a load that runs is overtaken.
Overtaken == IF access.load.busy THEN [access.load EXCEPT !.behind = TRUE] ELSE access.load

\* handleCreate(): the row commits, its answer arrives (or not) afterwards.
SubmitCreate(scopes) ==
  /\ access # Closed /\ access.creating = 0
  /\ CreateControlClient(scopes)
  /\ access' = [access EXCEPT !.creating = Len(clients')]
  /\ UNCHANGED <<operations, minted, inbound>>

CreateAnswers ==
  /\ access # Closed /\ access.creating # 0
  /\ LET c == access.creating
     IN  access' = [access EXCEPT !.creating = 0, !.shown = <<[id |-> c, revoked |-> FALSE]>> \o @,
                                  !.load = Overtaken, !.answered = (@ \ {<<c, TRUE>>}) \cup {<<c, FALSE>>}]
  /\ UNCHANGED <<clients, operations, minted, inbound>>

CreateFails ==
  /\ access # Closed /\ access.creating # 0
  /\ access' = [access EXCEPT !.creating = 0]
  /\ UNCHANGED <<clients, operations, minted, inbound>>

\* confirmRevoke() of a row that the list shows as active.
ConfirmRevoke(c) ==
  /\ access.state = "ready" /\ access.revoking = 0
  /\ \E i \in DOMAIN access.shown : access.shown[i] = [id |-> c, revoked |-> FALSE]
  /\ RevokeControlClient(c)
  /\ access' = [access EXCEPT !.revoking = c]
  /\ UNCHANGED <<operations, minted, inbound>>

RevokeAnswers ==
  /\ access # Closed /\ access.revoking # 0
  /\ LET c == access.revoking
     IN  access' = [access EXCEPT !.revoking = 0, !.load = Overtaken,
                      !.shown = [i \in DOMAIN @ |-> IF @[i].id = c THEN [@[i] EXCEPT !.revoked = TRUE]
                                                    ELSE @[i]],
                      !.answered = (@ \ {<<c, FALSE>>}) \cup {<<c, TRUE>>}]
  /\ UNCHANGED <<clients, operations, minted, inbound>>

RevokeFails ==
  /\ access # Closed /\ access.revoking # 0
  /\ access' = [access EXCEPT !.revoking = 0]
  /\ UNCHANGED <<clients, operations, minted, inbound>>

-----------------------------------------------------------------------------
\* Another page, or a call of the REST API, creates and revokes as well.
CreateElsewhere(scopes) ==
  CreateControlClient(scopes) /\ UNCHANGED <<operations, minted, inbound, access>>

RevokeElsewhere(c) ==
  RevokeControlClient(c) /\ UNCHANGED <<operations, minted, inbound, access>>

EndpointNext ==
  \/ \E scopes \in Grants : CreateElsewhere(scopes)
  \/ \E c \in DOMAIN clients : RevokeElsewhere(c) \/ HourPasses(c)
  \/ \E r \in Inbound :
       \/ \E c \in DOMAIN clients, call \in Calls : SelectClient(r, c, call)
       \/ TouchClient(r) \/ ReselectClient(r) \/ DispatchCall(r) \/ TurnAway(r)
       \/ ClaimOperation(r) \/ EndRequest(r)
       \/ \E status \in {"completed", "failed"} : PerformOperation(r, status)

AccessNext ==
  \/ \E scopes \in Grants : CreateElsewhere(scopes) \/ SubmitCreate(scopes)
  \/ \E c \in DOMAIN clients : RevokeElsewhere(c) \/ ConfirmRevoke(c)
  \/ OpenPage \/ LeavePage \/ RetryLoad \/ ReadPage \/ ShowLoad \/ LoadFails
  \/ CreateAnswers \/ CreateFails \/ RevokeAnswers \/ RevokeFails

ClientsNext == EndpointNext \/ AccessNext

ClientsSpec == ClientsInit /\ [][ClientsNext]_clientsVars

-----------------------------------------------------------------------------
ClientsTypeOK ==
  /\ clients \in Seq(ClientRow) /\ Len(clients) <= MaxClients
  /\ operations \in SUBSET Operation
  /\ minted \in 0 .. MaxMinted
  /\ access.state \in {"closed", "loading", "ready", "error"}

(* A request is let in only while its client is active, whichever of the   *)
(* three statements lets it in and whoever revokes between them            *)
(* (client-repo.ts, authenticateControlToken).                             *)
AdmittedWhileActive ==
  [][\A r \in Inbound : inbound'[r].pc = "admitted" /\ inbound[r].pc # "admitted"
       => Active(inbound'[r].client)]_clientsVars

(* What the owner was told last stays on the page: a client whose creation *)
(* was answered is listed, and one whose revocation was answered is never  *)
(* listed as active, whatever load was under way.                          *)
AccessKeepsAnswers ==
  access.state = "ready" =>
    \A a \in access.answered :
      /\ a[1] \in IdsShown(access.shown)
      /\ a[2] => \A i \in DOMAIN access.shown :
                    access.shown[i].id = a[1] => access.shown[i].revoked

=============================================================================
