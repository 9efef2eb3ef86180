----------------------------- MODULE MCServices -----------------------------
(* Small instances of the services around the turns, side by side: in each *)
(* behaviour one part moves and the others stay as they began, so that the *)
(* states of the run are the sum of the parts and not their product.       *)
EXTENDS PersonaPages, ToolCatalog, Delegation, Roster, Conversation, ControlClients, McpPage, Paging,
  Composer, CustomScripts, ToolSchemas

CONSTANT Parts  \* the parts that are run

VARIABLE part

TheFacts == {[importance |-> 2, sensitive |-> FALSE, size |-> 3],
             [importance |-> 0, sensitive |-> FALSE, size |-> 1],
             [importance |-> 0, sensitive |-> TRUE, size |-> 1]}
ATopic == {<<"topic">>}
ASummary == {<<"summary">>}
TheCalls ==
  {[tool |-> "retinueos_jobs_create", args |-> a, key |-> k] : a \in {1, 2}, k \in {0, 1}}
    \cup {[tool |-> "retinueos_jobs_list", args |-> 1, key |-> 0]}
TheGrants == {{"jobs:read"}, {"jobs:read", "jobs:write"}}
Homes == "t1" :> "s1" @@ "t2" :> "s1"
Boss == "ann" :> "none" @@ "bob" :> "ann"

ServicesInit ==
  /\ part \in Parts
  /\ MemoryInit /\ CatalogInit /\ DelegationInit /\ ConversationInit
  /\ ClientsInit /\ McpInit /\ WorkspaceInit
  /\ ComposerInit /\ (part # "composer" => chats = <<>>)
  /\ RoutinePanelInit /\ (part # "routine" => ~ routineRow.notify)
  /\ NotesInit /\ (part # "notes" => ~ note.kept)
  /\ ScriptsInit /\ (part # "scripts" => \A k \in Scripts : proposals[k] = <<>>)
  /\ IF part = "schemas" THEN SchemasInit ELSE toolCall = NoCall
  /\ PagingInit /\ (part # "paging" => list = "jobs" /\ Here = {})
  /\ RosterInit /\ (part # "roster" => DOMAIN roster = {"ann"})

\* Exactly one part moves.
ServicesNext ==
  /\ UNCHANGED part
  /\ IF part = "memory" THEN MemoryNext ELSE UNCHANGED memoryVars
  /\ IF part = "catalog" THEN CatalogNext ELSE UNCHANGED catalogVars
  /\ IF part = "delegation" THEN DelegationNext ELSE UNCHANGED delegationVars
  /\ IF part = "roster" THEN RosterNext ELSE UNCHANGED rosterVars
  /\ IF part = "conversation" THEN ConversationNext ELSE UNCHANGED conversationVars
  /\ IF part = "endpoint" THEN EndpointNext
     ELSE IF part = "access" THEN AccessNext ELSE UNCHANGED clientsVars
  /\ IF part = "mcp" THEN McpNext ELSE UNCHANGED mcpVars
  /\ IF part = "workspace" THEN WorkspaceNext ELSE UNCHANGED workspaceVars
  /\ IF part = "routine" THEN RoutinePanelNext ELSE UNCHANGED routinePanelVars
  /\ IF part = "composer" THEN ComposerNext ELSE UNCHANGED composerVars
  /\ IF part = "scripts" THEN ScriptsNext ELSE UNCHANGED scriptsVars
  /\ IF part = "notes" THEN NotesNext ELSE UNCHANGED notesVars
  /\ IF part = "schemas" THEN SchemasNext ELSE UNCHANGED schemasVars
  /\ IF part = "paging" THEN PagingNext ELSE UNCHANGED pagingVars

\* Bounds: one client makes the requests; of the note and the fact, one moves;
\* when no row can be added one writer rests; of overlapping handlers of a
\* catalogue none meets a mishap and each finds one tool at most; somebody is asked
\* from elsewhere only while no other chat is selected, and one is selected twice
\* only of two.
Bounded ==
  /\ part = "endpoint" => Len(clients) <= 1
  /\ part = "memory" => Len(memories) < MaxRows \/ \E w \in Writers : writer[w] = Rest
  /\ part = "catalog" /\ overlapped =>
       /\ mishaps = {}
       /\ \A r \in Requests : request[r].pc \in {"list", "store"} => Len(request[r].found) <= 1
  /\ \/ part # "notes"
     \/ fact.version = 1 /\ keeping["fact"] = [listed |-> TRUE, pc |-> "none"]
     \/ keeping["note"].pc = "none" /\ \A h \in Holders : holders[h] = Idle
  /\ part = "composer" => /\ tries.selected = 0 \/ drafts["dialog"] = None
                          /\ tries.selected < 2 \/ Len(chats) < 3

servicesVars ==
  <<part, memoryVars, catalogVars, delegationVars, rosterVars, conversationVars,
    clientsVars, mcpVars, pagingVars, workspaceVars, routinePanelVars, composerVars,
    scriptsVars, schemasVars, notesVars>>

ServicesSpec == ServicesInit /\ [][ServicesNext]_servicesVars

\* A part at rest is as it began.
ServicesTypeOK ==
  CASE part = "memory" -> MemoryTypeOK
    [] part = "catalog" -> CatalogTypeOK
    [] part = "delegation" -> DelegationTypeOK
    [] part = "roster" -> RosterTypeOK
    [] part = "conversation" -> ConversationTypeOK
    [] part \in {"endpoint", "access"} -> ClientsTypeOK
    [] part = "mcp" -> McpTypeOK
    [] part = "paging" -> PagingTypeOK
    [] part = "workspace" -> WorkspaceTypeOK
    [] part = "routine" -> RoutinePanelTypeOK
    [] part = "composer" -> ComposerTypeOK
    [] part = "scripts" -> ScriptsTypeOK
    [] part = "schemas" -> SchemasTypeOK
    [] part = "notes" -> NotesTypeOK

=============================================================================
