----------------------------- MODULE ToolCatalog -----------------------------
(***************************************************************************)
(* The tools of one remote MCP server: its rows (mcp-server-repo.ts), the  *)
(* handlers of mcp-routes.ts that change them, and the live registry of    *)
(* the process (registry.ts, mcp-registration.ts), which a handler brings  *)
(* up to date in steps of its own after its statement has committed.       *)
(***************************************************************************)
EXTENDS Naturals, Sequences, FiniteSets, SequencesExt

CONSTANTS
  Requests,   \* handlers that may be under way at once
  Offered,    \* names of tools the remote server may offer
  Versions,   \* content versions of a tool's contract
  Risks,      \* risk classes the owner may give
  MaxPages,   \* pages of one tools/list that are followed
  MaxListed,  \* bound: tools on one page
  MaxRotations \* bound: changes of the URL or of the bearer token

ASSUME CatalogAssumption ==
  /\ IsFiniteSet(Offered) /\ MaxPages \in Nat \ {0}
  /\ MaxListed \in Nat /\ MaxRotations \in Nat
  /\ "none" \notin Risks

VARIABLES
  server,     \* the mcp_servers row
  rows,       \* mcp_server_tools: a tool's row or Absent
  registry,   \* ToolRegistry.tools under this server's namespace
  request,    \* the local variables of each handler
  overlapped, \* ghost: since the process began, two handlers ran at once
  mishaps     \* ghost: what went wrong since the namespace was last cleared

catalogVars == <<server, rows, registry, request, overlapped, mishaps>>

Absent == [version |-> "none"]
Unregistered == [version |-> "none"]
AtRest == [pc |-> "rest"]

ToolRow == [version : Versions, approved : BOOLEAN, risk : Risks \cup {"none"}]
ToolSpec == [version : Versions, risk : Risks, connection : 0 .. MaxRotations]

\* connected: a bearer token needs no handshake, OAuth a refresh token.
Server == [exists : BOOLEAN, deleted : BOOLEAN, enabled : BOOLEAN, oauth : BOOLEAN, pending : BOOLEAN,
           refreshToken : BOOLEAN, connection : 0 .. MaxRotations]

CatalogTypeOK ==
  /\ server \in Server
  /\ rows \in [Offered -> ToolRow \cup {Absent}]
  /\ registry \in [Offered -> ToolSpec \cup {Unregistered}]
  /\ overlapped \in BOOLEAN /\ mishaps \subseteq {"failed", "twice", "token"}

CatalogInit ==
  /\ server = [exists |-> FALSE, deleted |-> FALSE, enabled |-> TRUE, oauth |-> FALSE,
               pending |-> FALSE, refreshToken |-> FALSE, connection |-> 0]
  /\ rows = [t \in Offered |-> Absent]
  /\ registry = [t \in Offered |-> Unregistered]
  /\ request = [r \in Requests |-> AtRest]
  /\ overlapped = FALSE /\ mishaps = {}

IsApproved(row) == row # Absent /\ row.approved /\ row.risk # "none"

ApprovedTools == {t \in Offered : IsApproved(rows[t])}

Usable == server.exists /\ server.enabled /\ (server.oauth => server.refreshToken)

Goto(r, frame) == request' = [request EXCEPT ![r] = frame]

\* A handler begins; it overlaps any other that has not answered yet.
Begin(r, frame) ==
  /\ request[r] = AtRest
  /\ Goto(r, frame)
  /\ overlapped' = (overlapped \/ \E x \in Requests : request[x] # AtRest)

ClearNamespace == registry' = [t \in Offered |-> Unregistered]

\* A SELECT or the statement itself fails and the handler ends with it: nothing
\* was written yet, or what was written stands without its registrations.
StatementFails(r) ==
  LET f == request[r]
  IN  /\ \/ f.pc \in {"patch", "store", "rows", "connect"}
         \/ f.pc = "register" /\ IsApproved(Head(f.left)[2])
      /\ Goto(r, AtRest)
      /\ mishaps' = mishaps \cup (IF f.pc \in {"patch", "store"} THEN {} ELSE {"failed"})
      /\ UNCHANGED <<server, rows, registry, overlapped>>

-----------------------------------------------------------------------------
(* registerApprovedMcpTool for each row of a list, the row being a snapshot.*)

\* Goes on with the rows that are left, or answers.
RegisterRest(r, left) ==
  Goto(r, IF left = <<>> THEN AtRest ELSE [pc |-> "register", left |-> left])

\* Reads the server: a disabled or unconnected one registers nothing.
CheckServer(r) ==
  /\ request[r].pc = "register"
  /\ LET left == request[r].left
         row == Head(left)[2]
     IN  IF IsApproved(row) /\ Usable
           THEN Goto(r, [pc |-> IF server.oauth THEN "put" ELSE "connect",
                         left |-> left, connection |-> 0])
           ELSE RegisterRest(r, Tail(left))
  /\ UNCHANGED <<server, rows, registry, overlapped, mishaps>>

\* Mutant: the connection of the first registration is kept.
ReadFirstConnection(r) ==
  /\ request[r].pc = "connect"
  /\ Goto(r, [request[r] EXCEPT !.pc = "put"])
  /\ UNCHANGED <<server, rows, registry, overlapped, mishaps>>

\* The bearer connection, baked into the tool when it is registered.
ReadConnection(r) ==
  /\ request[r].pc = "connect"
  /\ IF server.exists
       THEN Goto(r, [request[r] EXCEPT !.pc = "put", !.connection = server.connection])
       ELSE RegisterRest(r, Tail(request[r].left))
  /\ UNCHANGED <<server, rows, registry, overlapped, mishaps>>

RegisterTool(r) ==
  /\ request[r].pc = "put"
  /\ LET entry == Head(request[r].left)
     IN  registry' = [registry EXCEPT ![entry[1]] =
           [version |-> entry[2].version, risk |-> entry[2].risk,
            connection |-> request[r].connection]]
  /\ RegisterRest(r, Tail(request[r].left))
  /\ UNCHANGED <<server, rows, overlapped, mishaps>>

-----------------------------------------------------------------------------
(* PATCH /mcp/servers/:id/tools/:toolId.                                    *)

\* What the body may hold: a risk class, an approval, or both.
Patches == [risk : Risks \cup {"none"}, approved : {"yes", "no", "same"}]
             \ {[risk |-> "none", approved |-> "same"]}

\* The stored row decides whether an approval has its risk class.
ReadTool(r, t, patch) ==
  /\ rows[t] # Absent
  /\ LET approved == IF patch.approved = "same" THEN rows[t].approved
                     ELSE patch.approved = "yes"
         risk == IF patch.risk = "none" THEN rows[t].risk ELSE patch.risk
     IN  /\ approved => risk # "none"
         /\ Begin(r, [pc |-> "patch", tool |-> t, risk |-> patch.risk, approved |-> approved])
  /\ UNCHANGED <<server, rows, registry, mishaps>>

\* setMcpServerToolApproval: a risk class is only written when it was given.
Approval(row, risk, approved) ==
  [row EXCEPT !.approved = approved, !.risk = IF risk = "none" THEN @ ELSE risk]

SetApproval(r) ==
  /\ request[r].pc = "patch"
  /\ LET f == request[r]
         row == Approval(rows[f.tool], f.risk, f.approved)
     IN  IF rows[f.tool] = Absent
           THEN Goto(r, AtRest) /\ UNCHANGED rows
           ELSE /\ rows' = [rows EXCEPT ![f.tool] = row]
                /\ IF IsApproved(row)
                     THEN RegisterRest(r, <<<<f.tool, row>>>>)
                     ELSE Goto(r, [pc |-> "drop", tool |-> f.tool])
  /\ UNCHANGED <<server, registry, overlapped, mishaps>>

UnregisterTool(r) ==
  /\ request[r].pc = "drop"
  /\ registry' = [registry EXCEPT ![request[r].tool] = Unregistered]
  /\ Goto(r, AtRest)
  /\ UNCHANGED <<server, rows, overlapped, mishaps>>

-----------------------------------------------------------------------------
(* Discovery: POST .../discover, and the OAuth callback after its tokens.   *)

Discover(r) ==
  /\ server.exists /\ (server.oauth => server.refreshToken)
  /\ Begin(r, [pc |-> "list", found |-> <<>>, page |-> 1, new |-> FALSE])
  /\ UNCHANGED <<server, rows, registry, mishaps>>

\* POST /mcp/servers: an OAuth server is not connected yet; any other is asked
\* for its catalogue.  Its tools are new, and none of them is registered.
CreateServer(r, oauth) ==
  /\ ~ server.exists /\ ~ server.deleted
  /\ server' = [server EXCEPT !.exists = TRUE, !.oauth = oauth]
  /\ Begin(r, IF oauth THEN AtRest
              ELSE [pc |-> "list", found |-> <<>>, page |-> 1, new |-> TRUE])
  /\ UNCHANGED <<rows, registry, mishaps>>

Names(found) == {found[i][1] : i \in DOMAIN found}

\* One page of tools/list, which may show a name that was shown before.  A
\* cursor seen before, a page too many or any failure of the session throws the
\* whole catalogue away.
FetchPage(r) ==
  /\ request[r].pc = "list"
  /\ LET f == request[r]
     IN  \/ \E page \in BoundedSeq(Offered \X Versions, MaxListed), last \in BOOLEAN :
              LET found == f.found \o page
              IN  Goto(r, IF last THEN [pc |-> "store", found |-> found, new |-> f.new]
                          ELSE IF f.page = MaxPages THEN AtRest
                          ELSE [f EXCEPT !.found = found, !.page = @ + 1])
         \/ Goto(r, AtRest)
  /\ UNCHANGED <<server, rows, registry, overlapped, mishaps>>

\* Mutant: the approval of a tool outlives its contract.
KeepApproval(row, version) ==
  IF row # Absent THEN [row EXCEPT !.version = version]
  ELSE [version |-> version, approved |-> FALSE, risk |-> "none"]

\* An approval stands only while the content version is the same.
Upserted(row, version) ==
  IF row # Absent /\ row.version = version THEN row
  ELSE [version |-> version, approved |-> FALSE, risk |-> "none"]

\* The row that the i-th upsert of one catalogue returns: an entry of the same
\* name before it may have replaced the contract already.
RowAfter(found, i) ==
  LET row == rows[found[i][1]]
      replaced == \E k \in 1 .. i - 1 : found[k][1] = found[i][1] /\ found[k][2] # row.version
  IN  Upserted(IF replaced THEN Absent ELSE row, found[i][2])

\* upsertDiscoveredTools: one transaction, and nothing for an empty catalogue.
\* The last entry of a name stays in its row; every upsert's row is returned.
StoreCatalog(r) ==
  /\ request[r].pc = "store"
  /\ LET found == request[r].found
     IN  IF found = <<>> \/ ~server.exists
           THEN Goto(r, AtRest) /\ UNCHANGED rows
           ELSE \E last \in [Names(found) -> DOMAIN found] :
                  /\ \A t \in Names(found) : found[last[t]][1] = t
                  /\ \A i \in DOMAIN found : i <= last[found[i][1]]
                  /\ rows' = [t \in Offered |-> IF t \in Names(found)
                                                 THEN RowAfter(found, last[t]) ELSE Absent]
                  /\ Goto(r, IF request[r].new THEN AtRest
                             ELSE [pc |-> "replace",
                                   left |-> [i \in DOMAIN found |->
                                               <<found[i][1], RowAfter(found, i)>>]])
  /\ UNCHANGED <<server, registry, overlapped, mishaps>>

\* A list that shows two rows of one tool.
ShowsTwice(left) == \E i, k \in DOMAIN left : left[i][1] = left[k][1] /\ left[i][2] # left[k][2]

ReplaceNamespace(r) ==
  /\ request[r].pc = "replace"
  /\ ClearNamespace
  /\ RegisterRest(r, request[r].left)
  /\ mishaps' = IF ShowsTwice(request[r].left) THEN {"twice"} ELSE {}
  /\ UNCHANGED <<server, rows, overlapped>>

-----------------------------------------------------------------------------
(* The OAuth handshake.                                                     *)

\* The state token is stored (a newer one replaces it) or expires.
StartOAuth ==
  /\ server.exists /\ server.oauth
  /\ server' = [server EXCEPT !.pending = ~@]
  /\ UNCHANGED <<rows, registry, request, overlapped, mishaps>>

\* One UPDATE ... RETURNING finds and clears the state.
ConsumeOAuthState(r) ==
  /\ server.exists /\ server.pending
  /\ server' = [server EXCEPT !.pending = FALSE]
  /\ Begin(r, [pc |-> "exchange"])
  /\ UNCHANGED <<rows, registry, mishaps>>

\* The exchange or the UPDATE fails, or the tokens are stored and the catalogue
\* is fetched with the access token.  A provider may send no refresh token, and
\* one that was stored is kept then; the first one makes the rows usable.
StoreOAuthTokens(r) ==
  /\ request[r].pc = "exchange"
  /\ \/ Goto(r, AtRest) /\ UNCHANGED <<server, mishaps>>
     \/ \E sent \in BOOLEAN :
          /\ server' = [server EXCEPT !.refreshToken = @ \/ (sent /\ server.exists)]
          /\ mishaps' = IF ApprovedTools # {} /\ ~ server.refreshToken /\ sent
                          THEN mishaps \cup {"token"} ELSE mishaps
          /\ Goto(r, [pc |-> "list", found |-> <<>>, page |-> 1, new |-> FALSE])
  /\ UNCHANGED <<rows, registry, overlapped>>

-----------------------------------------------------------------------------
(* PATCH and DELETE of the server.                                          *)

UpdateServer(r, enabled, rotate) ==
  /\ server.exists
  /\ rotate => server.connection < MaxRotations
  /\ server' = [server EXCEPT !.enabled = enabled,
                              !.connection = IF rotate THEN @ + 1 ELSE @]
  /\ Begin(r, [pc |-> "reload", enabled |-> enabled])
  /\ UNCHANGED <<rows, registry, mishaps>>

\* The namespace goes first; the rows are read and registered afterwards.
ReloadServer(r) ==
  /\ request[r].pc = "reload"
  /\ ClearNamespace
  /\ mishaps' = {}
  /\ Goto(r, IF request[r].enabled THEN [pc |-> "rows"] ELSE AtRest)
  /\ UNCHANGED <<server, rows, overlapped>>

ListRows(r) ==
  /\ request[r].pc = "rows"
  /\ LET tools == SetToSeq({t \in Offered : rows[t] # Absent})
     IN  RegisterRest(r, [i \in DOMAIN tools |-> <<tools[i], rows[tools[i]]>>])
  /\ UNCHANGED <<server, rows, registry, overlapped, mishaps>>

\* The rows of the tools cascade.
DeleteServer(r) ==
  /\ server.exists
  /\ server' = [server EXCEPT !.exists = FALSE, !.deleted = TRUE, !.pending = FALSE, !.refreshToken = FALSE]
  /\ rows' = [t \in Offered |-> Absent]
  /\ Begin(r, [pc |-> "reload", enabled |-> FALSE])
  /\ UNCHANGED <<registry, mishaps>>

\* registerAllApprovedMcpTools, before the new process listens.
RestartProcess ==
  /\ request' = [r \in Requests |-> AtRest]
  /\ registry' = [t \in Offered |->
       IF t \in ApprovedTools /\ Usable
         THEN [version |-> rows[t].version, risk |-> rows[t].risk,
               connection |-> IF server.oauth THEN 0 ELSE server.connection]
         ELSE Unregistered]
  /\ overlapped' = FALSE /\ mishaps' = {}
  /\ UNCHANGED <<server, rows>>

CatalogNext ==
  \/ \E r \in Requests :
       \/ CheckServer(r) \/ ReadConnection(r) \/ RegisterTool(r)
       \/ \E t \in Offered, patch \in Patches : ReadTool(r, t, patch)
       \/ SetApproval(r) \/ UnregisterTool(r)
       \/ \E oauth \in BOOLEAN : CreateServer(r, oauth)
       \/ Discover(r) \/ FetchPage(r) \/ StoreCatalog(r) \/ ReplaceNamespace(r)
       \/ ConsumeOAuthState(r) \/ StoreOAuthTokens(r)
       \/ \E enabled, rotate \in BOOLEAN : UpdateServer(r, enabled, rotate)
       \/ ReloadServer(r) \/ ListRows(r) \/ DeleteServer(r) \/ StatementFails(r)
  \/ StartOAuth
  \/ RestartProcess

CatalogSpec == CatalogInit /\ [][CatalogNext]_catalogVars

-----------------------------------------------------------------------------
Quiet == \A r \in Requests : request[r] = AtRest

\* What a new process would register.
OnRestart(t) ==
  IF t \in ApprovedTools /\ Usable
    THEN [version |-> rows[t].version, risk |-> rows[t].risk,
          connection |-> IF server.oauth THEN 0 ELSE server.connection]
    ELSE Unregistered

\* A tool that can be called is one that a new process would register, with the
\* same contract and connection.
CallableAsStored(t) ==
  registry[t] # Unregistered =>
    /\ OnRestart(t) # Unregistered
    /\ registry[t].version = OnRestart(t).version
    /\ registry[t].connection = OnRestart(t).connection

\* Handlers that come one after the other leave the registry as a restart
\* would: exactly the approved tools of a usable server, at the version, the
\* risk class and the connection of their rows (mcp-routes.ts).  Not when a
\* statement failed after the namespace was cleared or a decision was stored,
\* nor when a refresh token came to rows that were approved before it and no
\* catalogue was found with it: until the next reload tools are missing then,
\* or have the risk class of before.  Yet none is callable that was revoked,
\* has another contract or another connection, except where one catalogue
\* showed a tool with two contracts.
SerialHandlersKeepRegistry ==
  Quiet /\ ~overlapped =>
    \A t \in Offered : /\ mishaps = {} => registry[t] = OnRestart(t)
                       /\ "twice" \notin mishaps => CallableAsStored(t)

\* A contract that changes goes back to the owner: no discovery approves a
\* tool, and none keeps the approval of another version.
ApprovalIsOfThisContract ==
  [][\A t \in Offered :
       (IsApproved(rows'[t]) /\ ~(IsApproved(rows[t]) /\ rows'[t].version = rows[t].version))
         => \E r \in Requests : request[r].pc = "patch" /\ request[r].tool = t]_catalogVars

=============================================================================
