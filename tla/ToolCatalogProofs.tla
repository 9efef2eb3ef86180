-------------------------- MODULE ToolCatalogProofs --------------------------
(* The tools of an MCP server, for any number of handlers, tools, versions  *)
(* and pages.  While one handler works alone, the registry lags behind the  *)
(* rows only by what that handler has left to do; whether handlers overlap  *)
(* or not, only the owner's decision approves a tool.  Then the page of the *)
(* MCP servers, for any number of servers, tools and requests (McpPage).    *)
EXTENDS ToolCatalog, McpPage, FiniteSetTheorems, TLAPS

-----------------------------------------------------------------------------
(* The inductive invariant.                                                 *)

CatalogTypes ==
  /\ server \in Server
  /\ rows \in [Offered -> ToolRow \cup {Absent}]
  /\ registry = [t \in Offered |-> registry[t]]
  /\ request = [r \in Requests |-> request[r]]
  /\ overlapped \in BOOLEAN /\ mishaps \subseteq {"failed", "twice", "token"}

ListFrame == [pc : {"list"}, found : Seq(Offered \X Versions), page : 1 .. MaxPages, new : BOOLEAN]

\* The locals of a handler, whatever the others do.
FrameFits(r) ==
  /\ request[r] # AtRest => server.exists \/ server.deleted
  /\ request[r].pc = "patch" => /\ request[r].tool \in Offered /\ request[r].approved \in BOOLEAN
                                /\ request[r].risk \in Risks \cup {"none"}
  /\ request[r].pc = "list" => request[r] \in ListFrame
  /\ request[r].pc = "store" => request[r].found \in Seq(Offered \X Versions)
  /\ request[r].pc = "connect" =>
       request[r] = [pc |-> "connect", left |-> request[r].left, connection |-> 0]

\* Without a server there are no rows.
RowsHaveAServer == ~ server.exists => \A t \in Offered : rows[t] = Absent

\* What the claim says of one tool.
Told(t) ==
  /\ mishaps = {} => registry[t] = OnRestart(t)
  /\ "twice" \notin mishaps => CallableAsStored(t)

RegistryIsTold == \A t \in Offered : Told(t)

\* A list to register that still shows the rows.
IsOfTheRows(left) ==
  left \in Seq({<<t, rows[t]>> : t \in Offered})

\* The registry is as told but for the tools that are still to be registered.
LagsBy(left) == \A t \in Offered : IF t \in Names(left) THEN CallableAsStored(t) ELSE Told(t)

\* A handler that is alone.
InStep(r) ==
  LET f == request[r]
  IN  /\ f.pc \in {"patch", "list", "exchange", "store"} => RegistryIsTold
      /\ f.pc \in {"list", "store"} /\ f.new => \A t \in Offered : rows[t] = Absent
      /\ f.pc = "drop" => /\ f.tool \in Offered /\ f.tool \notin ApprovedTools
                          /\ \A t \in Offered : t # f.tool => Told(t)
      /\ f.pc \in {"register", "connect", "put"} =>
           f.left # <<>> /\ ("twice" \notin mishaps => IsOfTheRows(f.left) /\ LagsBy(f.left))
      /\ f.pc \in {"connect", "put"} => Usable /\ IsApproved(Head(f.left)[2])
      /\ f.pc = "connect" => ~ server.oauth
      /\ f.pc = "put" => f.connection = IF server.oauth THEN 0 ELSE server.connection
      /\ f.pc = "replace" => /\ ~ ShowsTwice(f.left) => IsOfTheRows(f.left)
                             /\ \A t \in Offered \ Names(f.left) : rows[t] = Absent
      /\ f.pc = "reload" /\ ~ f.enabled => ~ Usable
      /\ f.pc = "rows" => \A t \in Offered : registry[t] = Unregistered

Alone ==
  ~ overlapped =>
    /\ \A r, x \in Requests : request[r] # AtRest /\ request[x] # AtRest => r = x
    /\ Quiet => RegistryIsTold
    /\ \A r \in Requests : request[r] # AtRest => InStep(r)

CatalogInv ==
  /\ CatalogTypes /\ RowsHaveAServer
  /\ \A r \in Requests : FrameFits(r)
  /\ Alone

-----------------------------------------------------------------------------
(* Facts about the data.                                                    *)

LEMMA SetToSeqIsOnto ==
  ASSUME NEW S, IsFiniteSet(S)
  PROVE  /\ Cardinality(S) \in Nat
         /\ SetToSeq(S) \in [1 .. Cardinality(S) -> S]
         /\ \A t \in S : \E i \in 1 .. Cardinality(S) : SetToSeq(S)[i] = t
<1> DEFINE n == Cardinality(S)
<1>1. n \in Nat /\ ExistsBijection(1 .. n, S)
  BY FS_CardinalityType
<1>2. PICK g : g \in Bijection(1 .. n, S)
  BY <1>1 DEF ExistsBijection
<1>3. g \in [1 .. n -> S] /\ IsInjective(g)
  BY <1>2 DEF Bijection, Injection, IsInjective
<1>4. SetToSeq(S) \in [1 .. n -> S] /\ IsInjective(SetToSeq(S))
  BY <1>3 DEF SetToSeq
<1>5. PICK f : f = SetToSeq(S)
  OBVIOUS
<1>6. f \in Injection(1 .. n, S)
  BY <1>4, <1>5 DEF Injection, IsInjective
<1>7. IsFiniteSet(1 .. n) /\ Cardinality(1 .. n) = n
  BY <1>1, FS_Interval
<1>8. f \in Surjection(1 .. n, S)
  BY <1>6, <1>7, FS_Injection
<1> QED
  BY <1>1, <1>4, <1>5, <1>8 DEF Surjection

LEMMA OfferedSubsetsAreFinite ==
  ASSUME NEW S \in SUBSET Offered
  PROVE  IsFiniteSet(S)
BY CatalogAssumption, FS_Subset

\* A contract is never mistaken for the lack of one.
LEMMA ContractsAreNot ==
  ASSUME NEW a, NEW b, NEW c
  PROVE  [version |-> a, risk |-> b, connection |-> c] # Unregistered
BY DEF Unregistered

\* What holds of the contracts holds of the claim, whatever went wrong.
LEMMA CurrentIsTold ==
  ASSUME NEW t
  PROVE  /\ registry[t] = OnRestart(t) => Told(t) /\ CallableAsStored(t)
         /\ (registry[t] = OnRestart(t) => Told(t) /\ CallableAsStored(t))'
BY DEF Told, CallableAsStored

LEMMA UnregisteredIsStored ==
  ASSUME NEW t
  PROVE  /\ registry[t] = Unregistered => CallableAsStored(t)
         /\ (registry[t] = Unregistered => CallableAsStored(t))'
BY DEF CallableAsStored

LEMMA AfterAMishap ==
  ASSUME NEW t, mishaps' # {}, "twice" \notin mishaps' => CallableAsStored(t)'
  PROVE  Told(t)'
BY DEF Told

\* As far as a tool can be called, what holds of a list holds of every tool.
LEMMA LagsAreCallable ==
  ASSUME NEW left, LagsBy(left), "twice" \notin mishaps, NEW t \in Offered
  PROVE  CallableAsStored(t)
BY DEF LagsBy, Told

LEMMA RegisteredOnRestart ==
  ASSUME NEW t \in Offered
  PROVE  OnRestart(t) # Unregistered <=> IsApproved(rows[t]) /\ Usable
BY ContractsAreNot DEF OnRestart, ApprovedTools

-----------------------------------------------------------------------------
(* A handler that goes on or begins.                                        *)

\* The locals of a handler still fit when the server goes on as it may.
LEMMA LocalsStillFit ==
  ASSUME NEW x \in Requests, FrameFits(x), request'[x] = request[x],
         server.exists \/ server.deleted => server'.exists \/ server'.deleted
  PROVE  FrameFits(x)'
BY DEF FrameFits, ListFrame

\* One handler goes on, or begins, and leaves the others where they are.
LEMMA HandlerGoesOn ==
  ASSUME CatalogInv, NEW r \in Requests, NEW frame, Goto(r, frame),
         \/ request[r] # AtRest /\ overlapped' = overlapped
         \/ /\ request[r] = AtRest
            /\ overlapped' = (overlapped \/ \E x \in Requests : request[x] # AtRest),
         server' \in Server, rows' \in [Offered -> ToolRow \cup {Absent}],
         registry' = [t \in Offered |-> registry'[t]],
         mishaps' \subseteq {"failed", "twice", "token"},
         RowsHaveAServer',
         \A x \in Requests : FrameFits(x)',
         ~ overlapped' => IF frame = AtRest THEN RegistryIsTold' ELSE InStep(r)'
  PROVE  CatalogInv'
<1>1. /\ request' = [x \in Requests |-> request'[x]]
      /\ request'[r] = frame
      /\ \A x \in Requests : x # r => request'[x] = request[x]
  BY DEF CatalogInv, CatalogTypes, Goto
<1>2. CatalogTypes'
  BY <1>1 DEF CatalogInv, CatalogTypes
<1>3. ASSUME ~ overlapped' PROVE ~ overlapped /\ \A x \in Requests : x # r => request'[x] = AtRest
  <2>1. ~ overlapped
    BY <1>3 DEF CatalogInv, CatalogTypes
  <2>2. \A x \in Requests : x # r => request[x] = AtRest
    BY <1>3, <2>1 DEF CatalogInv, Alone
  <2> QED
    BY <2>1, <2>2, <1>1
<1>4. Alone'
  <2> SUFFICES ASSUME ~ overlapped'
               PROVE  /\ \A y, x \in Requests : request'[y] # AtRest /\ request'[x] # AtRest => y = x
                      /\ Quiet' => RegistryIsTold'
                      /\ \A x \in Requests : request'[x] # AtRest => InStep(x)'
    BY DEF Alone
  <2>1. \A y, x \in Requests : request'[y] # AtRest /\ request'[x] # AtRest => y = x
    BY <1>3
  <2>2. Quiet' => RegistryIsTold'
    BY <1>1, <1>3 DEF Quiet
  <2>3. ASSUME NEW x \in Requests, request'[x] # AtRest PROVE InStep(x)'
    <3>1. x = r /\ frame # AtRest
      BY <1>1, <1>3, <2>3
    <3>2. InStep(r)'
      BY <1>3, <3>1
    <3> QED
      BY <3>1, <3>2
  <2> QED
    BY <2>1, <2>2, <2>3
<1> QED
  BY <1>2, <1>4 DEF CatalogInv

LEMMA HandlerBegins ==
  ASSUME CatalogInv, NEW r \in Requests, NEW frame, Begin(r, frame),
         server' \in Server, rows' \in [Offered -> ToolRow \cup {Absent}],
         registry' = [t \in Offered |-> registry'[t]], UNCHANGED mishaps,
         RowsHaveAServer',
         \A x \in Requests : FrameFits(x)',
         RegistryIsTold => IF frame = AtRest THEN RegistryIsTold' ELSE InStep(r)'
  PROVE  CatalogInv'
<1>1. Goto(r, frame) /\ request[r] = AtRest
      /\ overlapped' = (overlapped \/ \E x \in Requests : request[x] # AtRest)
  BY DEF Begin
<1>2. ASSUME ~ overlapped' PROVE RegistryIsTold
  <2>1. ~ overlapped /\ Quiet
    BY <1>1, <1>2 DEF CatalogInv, CatalogTypes, Quiet
  <2> QED
    BY <2>1 DEF CatalogInv, Alone
<1>3. ~ overlapped' => IF frame = AtRest THEN RegistryIsTold' ELSE InStep(r)'
  BY <1>2
<1>4. mishaps' \subseteq {"failed", "twice", "token"}
  BY DEF CatalogInv, CatalogTypes
<1> QED
  BY <1>1, <1>3, <1>4, HandlerGoesOn

\* The rows that are left are registered one by one.
LEMMA NextToRegister ==
  ASSUME CatalogInv, NEW r \in Requests, request[r] # AtRest, NEW left, RegisterRest(r, left),
         overlapped' = overlapped, UNCHANGED server,
         rows' \in [Offered -> ToolRow \cup {Absent}],
         registry' = [t \in Offered |-> registry'[t]],
         mishaps' \subseteq {"failed", "twice", "token"},
         RowsHaveAServer',
         ~ overlapped /\ "twice" \notin mishaps' => IsOfTheRows(left)' /\ LagsBy(left)'
  PROVE  CatalogInv'
<1>1. PICK frame : frame = IF left = <<>> THEN AtRest ELSE [pc |-> "register", left |-> left]
  OBVIOUS
<1>2. Goto(r, frame)
  BY <1>1 DEF RegisterRest
<1>3. request'[r] = frame /\ \A x \in Requests : x # r => request'[x] = request[x]
  BY <1>2 DEF CatalogInv, CatalogTypes, Goto
<1>4. \A x \in Requests : FrameFits(x)'
  <2>1. FrameFits(r)'
    <3>1. server'.exists \/ server'.deleted
      BY DEF CatalogInv, FrameFits
    <3>2. frame.pc \in {"rest", "register"}
      BY <1>1 DEF AtRest
    <3> QED
      BY <1>3, <3>1, <3>2 DEF FrameFits
  <2> QED
    BY <2>1, <1>3, LocalsStillFit DEF CatalogInv
<1>5. ASSUME ~ overlapped, frame = AtRest PROVE RegistryIsTold'
  <2>1. left = <<>>
    BY <1>1, <1>5 DEF AtRest
  <2>2. Names(left) = {}
    BY <2>1 DEF Names
  <2> QED
    BY <1>5, <2>2 DEF LagsBy, RegistryIsTold, Told
<1>6. ASSUME ~ overlapped, frame # AtRest PROVE InStep(r)'
  <2>1. frame = [pc |-> "register", left |-> left] /\ left # <<>>
    BY <1>1, <1>6
  <2> QED
    BY <1>3, <1>6, <2>1 DEF InStep
<1>7. server' \in Server
  BY DEF CatalogInv, CatalogTypes
<1> QED
  BY <1>2, <1>4, <1>5, <1>6, <1>7, HandlerGoesOn

-----------------------------------------------------------------------------
(* Registering the rows of a list.                                          *)

LEMMA NamesOfTheRest ==
  ASSUME NEW S, NEW left \in Seq(S), left # <<>>
  PROVE  /\ Head(left) \in S /\ Tail(left) \in Seq(S)
         /\ Names(left) = {Head(left)[1]} \cup Names(Tail(left))
<1>1. Head(left) \in S /\ Tail(left) \in Seq(S)
  OBVIOUS
<1>2. /\ Len(left) \in Nat \ {0} /\ DOMAIN left = 1 .. Len(left) /\ Head(left) = left[1]
      /\ DOMAIN Tail(left) = 1 .. Len(left) - 1
      /\ \A i \in 1 .. Len(left) - 1 : Tail(left)[i] = left[i + 1]
  OBVIOUS
<1>3. ASSUME NEW i \in DOMAIN left
      PROVE  left[i][1] \in {Head(left)[1]} \cup Names(Tail(left))
  <2>1. CASE i = 1
    BY <1>2, <2>1
  <2>2. CASE i # 1
    <3>1. i - 1 \in DOMAIN Tail(left) /\ i - 1 + 1 = i
      BY <1>2, <2>2
    <3>2. Tail(left)[i - 1] = left[i]
      BY <1>2, <3>1
    <3> QED
      BY <3>1, <3>2 DEF Names
  <2> QED
    BY <2>1, <2>2
<1>4. ASSUME NEW i \in DOMAIN Tail(left) PROVE Tail(left)[i][1] \in Names(left)
  <2>1. i + 1 \in DOMAIN left /\ Tail(left)[i] = left[i + 1]
    BY <1>2
  <2> QED
    BY <2>1 DEF Names
<1>5. Head(left)[1] \in Names(left)
  BY <1>2 DEF Names
<1> QED
  BY <1>1, <1>3, <1>4, <1>5 DEF Names

LEMMA SameRows ==
  ASSUME UNCHANGED <<server, rows>>
  PROVE  /\ Usable' <=> Usable
         /\ RowsHaveAServer' <=> RowsHaveAServer
         /\ \A t \in Offered : OnRestart(t)' = OnRestart(t)
         /\ \A left : IsOfTheRows(left)' <=> IsOfTheRows(left)
BY DEF Usable, RowsHaveAServer, OnRestart, ApprovedTools, IsOfTheRows

\* What is said of one tool depends on the server, its row and its contract.
LEMMA SameTool ==
  ASSUME NEW t \in Offered, UNCHANGED <<server, mishaps>>,
         rows'[t] = rows[t], registry'[t] = registry[t]
  PROVE  /\ CallableAsStored(t)' <=> CallableAsStored(t)
         /\ Told(t)' <=> Told(t)
<1>1. OnRestart(t)' = OnRestart(t)
  BY DEF OnRestart, ApprovedTools, Usable
<1> QED
  BY <1>1 DEF Told, CallableAsStored

LEMMA SameTools ==
  ASSUME UNCHANGED <<server, rows, registry>>
  PROVE  \A t \in Offered : CallableAsStored(t)' <=> CallableAsStored(t)
BY SameRows DEF CallableAsStored

LEMMA SameClaim ==
  ASSUME UNCHANGED <<server, rows, registry, mishaps>>
  PROVE  /\ \A t \in Offered : Told(t)' <=> Told(t)
         /\ RegistryIsTold' <=> RegistryIsTold
         /\ \A left : LagsBy(left)' <=> LagsBy(left)
<1>1. \A t \in Offered : Told(t)' <=> Told(t)
  BY SameRows, SameTools DEF Told
<1> QED
  BY <1>1, SameTools DEF RegistryIsTold, LagsBy

LEMMA CheckServerKeeps ==
  ASSUME CatalogInv, NEW r \in Requests, CheckServer(r)
  PROVE  CatalogInv'
<1>1. PICK left : left = request[r].left
  OBVIOUS
<1>2. request[r].pc = "register" /\ request[r] # AtRest
  BY DEF CheckServer, AtRest
<1>3. /\ UNCHANGED <<server, rows, registry, overlapped, mishaps>>
      /\ server' \in Server /\ rows' \in [Offered -> ToolRow \cup {Absent}]
      /\ registry' = [t \in Offered |-> registry'[t]]
      /\ mishaps' \subseteq {"failed", "twice", "token"}
  BY DEF CheckServer, CatalogInv, CatalogTypes
<1>4. RowsHaveAServer'
  BY <1>3, SameRows DEF CatalogInv
<1>5. ~ overlapped => left # <<>> /\ ("twice" \notin mishaps => IsOfTheRows(left) /\ LagsBy(left))
  BY <1>1, <1>2 DEF CatalogInv, Alone, InStep
<1>6. CASE IsApproved(Head(left)[2]) /\ Usable
  <2>1. PICK frame : frame = [pc |-> IF server.oauth THEN "put" ELSE "connect",
                              left |-> left, connection |-> 0]
    OBVIOUS
  <2>2. Goto(r, frame)
    BY <1>1, <1>6, <2>1 DEF CheckServer
  <2>3. request'[r] = frame /\ \A x \in Requests : x # r => request'[x] = request[x]
    BY <2>2 DEF CatalogInv, CatalogTypes, Goto
  <2>4. frame # AtRest /\ frame.pc \in {"put", "connect"} /\ frame.left = left
        /\ frame.connection = 0 /\ (frame.pc = "connect" <=> ~ server.oauth)
    BY <2>1 DEF AtRest
  <2>5. \A x \in Requests : FrameFits(x)'
    <3>1. FrameFits(r)'
      BY <2>1, <2>3, <2>4, <1>2, <1>3 DEF CatalogInv, FrameFits
    <3> QED
      BY <3>1, <2>3, <1>3, LocalsStillFit DEF CatalogInv
  <2>6. ASSUME ~ overlapped PROVE InStep(r)'
    <3>1. "twice" \notin mishaps' => IsOfTheRows(left)' /\ LagsBy(left)'
      BY <1>3, <1>5, <2>6, SameRows, SameClaim
    <3>2. left # <<>> /\ Usable' /\ IsApproved(Head(left)[2])
      BY <1>3, <1>5, <1>6, <2>6, SameRows
    <3> QED
      BY <3>1, <3>2, <2>3, <2>4, <1>3 DEF InStep
  <2> QED
    BY <1>2, <1>3, <1>4, <2>2, <2>4, <2>5, <2>6, HandlerGoesOn
<1>7. CASE ~ (IsApproved(Head(left)[2]) /\ Usable)
  <2>1. PICK rest : rest = Tail(left)
    OBVIOUS
  <2>2. RegisterRest(r, rest)
    BY <1>1, <1>7, <2>1 DEF CheckServer
  <2>3. ASSUME ~ overlapped, "twice" \notin mishaps' PROVE IsOfTheRows(rest)' /\ LagsBy(rest)'
    <3>1. /\ Head(left) \in {<<t, rows[t]>> : t \in Offered}
          /\ rest \in Seq({<<t, rows[t]>> : t \in Offered})
          /\ Names(left) = {Head(left)[1]} \cup Names(rest)
      BY <1>3, <1>5, <2>1, <2>3, NamesOfTheRest DEF IsOfTheRows
    <3>2. PICK t \in Offered : Head(left) = <<t, rows[t]>>
      BY <3>1
    <3>3. OnRestart(t) = Unregistered
      BY <1>7, <3>2, RegisteredOnRestart
    <3>4. Names(left) = {t} \cup Names(rest)
      BY <3>1, <3>2
    <3>5. LagsBy(left)
      BY <1>3, <1>5, <2>3
    <3>6. CallableAsStored(t)
      BY <3>4, <3>5 DEF LagsBy
    <3>7. registry[t] = OnRestart(t)
      BY <3>3, <3>6 DEF CallableAsStored
    <3>8. LagsBy(rest)
      BY <3>4, <3>5, <3>7, CurrentIsTold DEF LagsBy
    <3>9. LagsBy(rest)'
      BY <3>8, <1>3, SameClaim
    <3> QED
      BY <3>1, <3>9, <1>3 DEF IsOfTheRows
  <2> QED
    BY <1>2, <1>3, <1>4, <2>2, <2>3, NextToRegister
<1> QED
  BY <1>6, <1>7

LEMMA ReadConnectionKeeps ==
  ASSUME CatalogInv, NEW r \in Requests, ReadConnection(r)
  PROVE  CatalogInv'
<1>1. PICK left : left = request[r].left
  OBVIOUS
<1>2. /\ request[r].pc = "connect" /\ request[r] # AtRest
      /\ request[r] = [pc |-> "connect", left |-> left, connection |-> 0]
  BY <1>1 DEF ReadConnection, AtRest, CatalogInv, FrameFits
<1>3. /\ UNCHANGED <<server, rows, registry, overlapped, mishaps>>
      /\ server' \in Server /\ rows' \in [Offered -> ToolRow \cup {Absent}]
      /\ registry' = [t \in Offered |-> registry'[t]]
      /\ mishaps' \subseteq {"failed", "twice", "token"}
  BY DEF ReadConnection, CatalogInv, CatalogTypes
<1>4. RowsHaveAServer'
  BY <1>3, SameRows DEF CatalogInv
<1>5. ~ overlapped => /\ left # <<>> /\ Usable /\ IsApproved(Head(left)[2]) /\ ~ server.oauth
                      /\ "twice" \notin mishaps => IsOfTheRows(left) /\ LagsBy(left)
  BY <1>1, <1>2 DEF CatalogInv, Alone, InStep
<1>6. CASE server.exists
  <2>1. PICK frame : frame = [request[r] EXCEPT !.pc = "put", !.connection = server.connection]
    OBVIOUS
  <2>2. frame.pc = "put" /\ frame.left = left /\ frame.connection = server.connection
    <3>1. request[r] \in [pc : {"connect"}, left : {left}, connection : {0}]
      BY <1>2
    <3> QED
      BY <2>1, <3>1
  <2>3. Goto(r, frame)
    BY <1>6, <2>1 DEF ReadConnection
  <2>4. request'[r] = frame /\ \A x \in Requests : x # r => request'[x] = request[x]
    BY <2>3 DEF CatalogInv, CatalogTypes, Goto
  <2>5. \A x \in Requests : FrameFits(x)'
    <3>1. FrameFits(r)'
      BY <2>2, <2>4, <1>6, <1>3 DEF FrameFits
    <3> QED
      BY <3>1, <2>4, <1>3, LocalsStillFit DEF CatalogInv
  <2>6. ASSUME ~ overlapped' PROVE InStep(r)'
    <3>1. "twice" \notin mishaps' => IsOfTheRows(left)' /\ LagsBy(left)'
      BY <1>3, <1>5, <2>6, SameRows, SameClaim
    <3>2. left # <<>> /\ Usable' /\ IsApproved(Head(left)[2]) /\ ~ server.oauth
      BY <1>3, <1>5, <2>6, SameRows
    <3> QED
      BY <3>1, <3>2, <2>2, <2>4, <1>3 DEF InStep
  <2>7. frame # AtRest
    BY <2>2 DEF AtRest
  <2> QED
    BY <1>2, <1>3, <1>4, <2>3, <2>5, <2>6, <2>7, HandlerGoesOn
<1>7. CASE ~ server.exists
  <2>1. PICK rest : rest = Tail(left)
    OBVIOUS
  <2>2. RegisterRest(r, rest)
    BY <1>1, <1>7, <2>1 DEF ReadConnection
  <2>3. overlapped
    BY <1>5, <1>7 DEF Usable
  <2> QED
    BY <1>2, <1>3, <1>4, <2>2, <2>3, NextToRegister
<1> QED
  BY <1>6, <1>7

LEMMA RegisterToolKeeps ==
  ASSUME CatalogInv, NEW r \in Requests, RegisterTool(r)
  PROVE  CatalogInv'
<1>1. PICK left : left = request[r].left
  OBVIOUS
<1>2. request[r].pc = "put" /\ request[r] # AtRest
  BY DEF RegisterTool, AtRest
<1>3. /\ UNCHANGED <<server, rows, overlapped, mishaps>>
      /\ server' \in Server /\ rows' \in [Offered -> ToolRow \cup {Absent}]
      /\ mishaps' \subseteq {"failed", "twice", "token"}
  BY DEF RegisterTool, CatalogInv, CatalogTypes
<1>4. RowsHaveAServer'
  BY <1>3, SameRows DEF CatalogInv
<1>5. ~ overlapped => /\ left # <<>> /\ Usable /\ IsApproved(Head(left)[2])
                      /\ request[r].connection = IF server.oauth THEN 0 ELSE server.connection
                      /\ "twice" \notin mishaps => IsOfTheRows(left) /\ LagsBy(left)
  BY <1>1, <1>2 DEF CatalogInv, Alone, InStep
<1>6. PICK tool, spec, rest :
        /\ tool = Head(left)[1] /\ rest = Tail(left)
        /\ spec = [version |-> Head(left)[2].version, risk |-> Head(left)[2].risk,
                   connection |-> request[r].connection]
  OBVIOUS
<1>7. registry' = [registry EXCEPT ![tool] = spec] /\ RegisterRest(r, rest)
  BY <1>1, <1>6 DEF RegisterTool
<1>8. registry' = [t \in Offered |-> IF t = tool THEN spec ELSE registry[t]]
  BY <1>7 DEF CatalogInv, CatalogTypes
<1>9. ASSUME ~ overlapped, "twice" \notin mishaps' PROVE IsOfTheRows(rest)' /\ LagsBy(rest)'
  <2>0. IsOfTheRows(left) /\ LagsBy(left) /\ left # <<>>
    BY <1>3, <1>5, <1>9
  <2>1. /\ Head(left) \in {<<t, rows[t]>> : t \in Offered}
        /\ rest \in Seq({<<t, rows[t]>> : t \in Offered})
        /\ Names(left) = {tool} \cup Names(rest)
    BY <2>0, <1>6, NamesOfTheRest DEF IsOfTheRows
  <2>2. tool \in Offered /\ Head(left) = <<tool, rows[tool]>>
    BY <2>1, <1>6
  <2>3. spec = OnRestart(tool) /\ OnRestart(tool) # Unregistered
    BY <2>2, <1>5, <1>6, <1>9, RegisteredOnRestart DEF OnRestart, ApprovedTools
  <2>4. registry'[tool] = OnRestart(tool)'
    BY <1>3, <1>8, <2>2, <2>3, SameRows
  <2>5. \A t \in Offered \ {tool} : /\ CallableAsStored(t)' <=> CallableAsStored(t)
                                    /\ Told(t)' <=> Told(t)
    BY <1>3, <1>8, SameTool
  <2>6. \A t \in Offered : t # tool => (t \in Names(left) <=> t \in Names(rest))
    BY <2>1
  <2>7. LagsBy(rest)'
    BY <2>0, <2>4, <2>5, <2>6, CurrentIsTold DEF LagsBy
  <2> QED
    BY <2>1, <2>7, <1>3 DEF IsOfTheRows
<1> QED
  BY <1>2, <1>3, <1>4, <1>7, <1>8, <1>9, NextToRegister

-----------------------------------------------------------------------------
(* The owner's decision on a tool.                                          *)

LEMMA SameRow ==
  ASSUME NEW t \in Offered, UNCHANGED server, rows'[t] = rows[t]
  PROVE  OnRestart(t)' = OnRestart(t)
BY DEF OnRestart, ApprovedTools, Usable

LEMMA ReadToolKeeps ==
  ASSUME CatalogInv, NEW r \in Requests, NEW t \in Offered, NEW patch \in Patches,
         ReadTool(r, t, patch)
  PROVE  CatalogInv'
<1>1. PICK approved : approved = IF patch.approved = "same" THEN rows[t].approved
                                 ELSE patch.approved = "yes"
  OBVIOUS
<1>2. PICK frame : frame = [pc |-> "patch", tool |-> t, risk |-> patch.risk, approved |-> approved]
  OBVIOUS
<1>3. Begin(r, frame) /\ rows[t] # Absent /\ UNCHANGED <<server, rows, registry, mishaps>>
  BY <1>1, <1>2 DEF ReadTool
<1>4. /\ server' \in Server /\ rows' \in [Offered -> ToolRow \cup {Absent}]
      /\ registry' = [u \in Offered |-> registry'[u]]
  BY <1>3 DEF CatalogInv, CatalogTypes
<1>5. RowsHaveAServer'
  BY <1>3, SameRows DEF CatalogInv
<1>6. request'[r] = frame /\ \A x \in Requests : x # r => request'[x] = request[x]
  BY <1>3 DEF CatalogInv, CatalogTypes, Goto, Begin
<1>7. frame # AtRest /\ frame.pc = "patch" /\ frame.tool = t
      /\ frame.approved \in BOOLEAN /\ frame.risk \in Risks \cup {"none"}
  <2>1. rows[t] \in ToolRow
    BY <1>3 DEF CatalogInv, CatalogTypes
  <2>2. approved \in BOOLEAN
    BY <1>1, <2>1 DEF ToolRow
  <2>3. patch.risk \in Risks \cup {"none"}
    BY DEF Patches
  <2> QED
    BY <1>2, <2>2, <2>3 DEF AtRest
<1>8. \A x \in Requests : FrameFits(x)'
  <2>1. server'.exists
    BY <1>3 DEF CatalogInv, RowsHaveAServer
  <2>2. FrameFits(r)'
    BY <1>6, <1>7, <2>1 DEF FrameFits
  <2> QED
    BY <2>2, <1>3, <1>6, LocalsStillFit DEF CatalogInv
<1>9. ASSUME RegistryIsTold PROVE InStep(r)'
  <2>1. RegistryIsTold'
    BY <1>3, <1>9, SameClaim
  <2> QED
    BY <1>6, <1>7, <2>1 DEF InStep
<1> QED
  BY <1>3, <1>4, <1>5, <1>7, <1>8, <1>9, HandlerBegins

LEMMA ApprovalIsARow ==
  ASSUME NEW row \in ToolRow, NEW risk \in Risks \cup {"none"}, NEW approved \in BOOLEAN
  PROVE  Approval(row, risk, approved) \in ToolRow
BY DEF Approval, ToolRow

LEMMA SetApprovalKeeps ==
  ASSUME CatalogInv, NEW r \in Requests, SetApproval(r)
  PROVE  CatalogInv'
<1>1. PICK tool, row : tool = request[r].tool
                       /\ row = Approval(rows[tool], request[r].risk, request[r].approved)
  OBVIOUS
<1>2. /\ request[r].pc = "patch" /\ request[r] # AtRest
      /\ tool \in Offered /\ request[r].approved \in BOOLEAN
      /\ request[r].risk \in Risks \cup {"none"}
  <2>1. request[r].pc = "patch"
    BY Zenon DEF SetApproval
  <2>2. FrameFits(r)
    BY DEF CatalogInv
  <2> QED
    BY <1>1, <2>1, <2>2 DEF AtRest, FrameFits
<1>3. /\ UNCHANGED <<server, registry, overlapped, mishaps>>
      /\ server' \in Server /\ registry' = [u \in Offered |-> registry'[u]]
      /\ mishaps' \subseteq {"failed", "twice", "token"}
  BY DEF SetApproval, CatalogInv, CatalogTypes
<1>4. ~ overlapped => RegistryIsTold
  BY <1>2 DEF CatalogInv, Alone, InStep
<1>5. CASE rows[tool] = Absent
  <2>1. Goto(r, AtRest) /\ UNCHANGED rows
    BY <1>1, <1>5 DEF SetApproval
  <2>2. request'[r] = AtRest /\ \A x \in Requests : x # r => request'[x] = request[x]
    BY <2>1 DEF CatalogInv, CatalogTypes, Goto
  <2>3. \A x \in Requests : FrameFits(x)'
    <3>1. FrameFits(r)'
      BY <2>2 DEF FrameFits, AtRest
    <3> QED
      BY <3>1, <2>2, <1>3, LocalsStillFit DEF CatalogInv
  <2>4. ASSUME ~ overlapped' PROVE RegistryIsTold'
    BY <1>3, <1>4, <2>1, <2>4, SameClaim
  <2>5. RowsHaveAServer' /\ rows' \in [Offered -> ToolRow \cup {Absent}]
    BY <1>3, <2>1, SameRows DEF CatalogInv, CatalogTypes
  <2> QED
    BY <1>2, <1>3, <2>1, <2>3, <2>4, <2>5, HandlerGoesOn
<1>6. CASE rows[tool] # Absent
  <2>1. rows[tool] \in ToolRow /\ server.exists
    BY <1>2, <1>6 DEF CatalogInv, CatalogTypes, RowsHaveAServer
  <2>2. row \in ToolRow /\ row.version = rows[tool].version
    BY <1>1, <1>2, <2>1, ApprovalIsARow DEF Approval, ToolRow
  <2>3. rows' = [rows EXCEPT ![tool] = row]
    BY <1>1, <1>6 DEF SetApproval
  <2>4. /\ rows' \in [Offered -> ToolRow \cup {Absent}] /\ rows'[tool] = row
        /\ \A t \in Offered : t # tool => rows'[t] = rows[t]
    BY <1>2, <2>2, <2>3 DEF CatalogInv, CatalogTypes
  <2>5. RowsHaveAServer'
    BY <1>3, <2>1 DEF RowsHaveAServer
  <2>6. \A t \in Offered : t # tool => (Told(t)' <=> Told(t))
    BY <1>3, <2>4, SameTool
  <2>7. CASE IsApproved(row)
    <3>1. PICK left : left = <<<<tool, row>>>>
      OBVIOUS
    <3>2. RegisterRest(r, left)
      BY <1>1, <1>6, <2>7, <3>1 DEF SetApproval
    <3>3. ASSUME ~ overlapped, "twice" \notin mishaps' PROVE IsOfTheRows(left)' /\ LagsBy(left)'
      <4>1. IsOfTheRows(left)'
        <5>1. <<tool, row>> \in {<<t, rows'[t]>> : t \in Offered}
          BY <1>2, <2>4
        <5> QED
          BY <3>1, <5>1 DEF IsOfTheRows
      <4>2. Names(left) = {tool}
        BY <3>1 DEF Names
      <4>3. CallableAsStored(tool)
        BY <1>2, <1>3, <1>4, <3>3 DEF RegistryIsTold, Told
      <4>4. CallableAsStored(tool)'
        <5>1. CASE registry[tool] = Unregistered
          BY <1>3, <5>1, UnregisteredIsStored
        <5>2. CASE registry[tool] # Unregistered
          <6>1. PICK v, c : v = rows[tool].version
                            /\ c = IF server.oauth THEN 0 ELSE server.connection
            OBVIOUS
          <6>2. IsApproved(rows[tool]) /\ Usable
            BY <1>2, <4>3, <5>2, RegisteredOnRestart DEF CallableAsStored
          <6>3. OnRestart(tool) = [version |-> v, risk |-> rows[tool].risk, connection |-> c]
            BY <1>2, <6>1, <6>2 DEF OnRestart, ApprovedTools
          <6>4. registry[tool].version = v /\ registry[tool].connection = c
            BY <4>3, <5>2, <6>3 DEF CallableAsStored
          <6>5. OnRestart(tool)' = [version |-> v, risk |-> row.risk, connection |-> c]
            BY <1>2, <1>3, <2>2, <2>4, <2>7, <6>1, <6>2 DEF OnRestart, ApprovedTools, Usable
          <6> QED
            BY <1>3, <6>4, <6>5, ContractsAreNot DEF CallableAsStored
        <5> QED
          BY <5>1, <5>2
      <4>5. LagsBy(left)'
        BY <1>3, <1>4, <2>6, <3>3, <4>2, <4>4 DEF LagsBy, RegistryIsTold
      <4> QED
        BY <4>1, <4>5
    <3> QED
      BY <1>2, <1>3, <2>4, <2>5, <3>2, <3>3, NextToRegister
  <2>8. CASE ~ IsApproved(row)
    <3>1. PICK frame : frame = [pc |-> "drop", tool |-> tool]
      OBVIOUS
    <3>2. Goto(r, frame) /\ frame # AtRest /\ frame.pc = "drop" /\ frame.tool = tool
      BY <1>1, <1>6, <2>8, <3>1 DEF SetApproval, AtRest
    <3>3. request'[r] = frame /\ \A x \in Requests : x # r => request'[x] = request[x]
      BY <3>2 DEF CatalogInv, CatalogTypes, Goto
    <3>4. \A x \in Requests : FrameFits(x)'
      <4>1. FrameFits(r)'
        BY <1>3, <2>1, <3>2, <3>3 DEF FrameFits
      <4> QED
        BY <4>1, <3>3, <1>3, LocalsStillFit DEF CatalogInv
    <3>5. ASSUME ~ overlapped' PROVE InStep(r)'
      <4>1. tool \notin ApprovedTools'
        BY <2>4, <2>8 DEF ApprovedTools
      <4>2. \A t \in Offered : t # tool => Told(t)'
        BY <1>3, <1>4, <2>6, <3>5 DEF RegistryIsTold
      <4> QED
        BY <1>2, <3>2, <3>3, <4>1, <4>2 DEF InStep
    <3> QED
      BY <1>2, <1>3, <2>4, <2>5, <3>2, <3>4, <3>5, HandlerGoesOn
  <2> QED
    BY <2>7, <2>8
<1> QED
  BY <1>5, <1>6

LEMMA UnregisterToolKeeps ==
  ASSUME CatalogInv, NEW r \in Requests, UnregisterTool(r)
  PROVE  CatalogInv'
<1>1. PICK tool : tool = request[r].tool
  OBVIOUS
<1>2. /\ request[r].pc = "drop" /\ request[r] # AtRest
      /\ UNCHANGED <<server, rows, overlapped, mishaps>> /\ Goto(r, AtRest)
      /\ server' \in Server /\ rows' \in [Offered -> ToolRow \cup {Absent}]
      /\ mishaps' \subseteq {"failed", "twice", "token"}
  BY DEF UnregisterTool, AtRest, CatalogInv, CatalogTypes
<1>3. registry' = [t \in Offered |-> IF t = tool THEN Unregistered ELSE registry[t]]
  BY <1>1 DEF UnregisterTool, CatalogInv, CatalogTypes
<1>4. request'[r] = AtRest /\ \A x \in Requests : x # r => request'[x] = request[x]
  BY <1>2 DEF CatalogInv, CatalogTypes, Goto
<1>5. \A x \in Requests : FrameFits(x)'
  <2>1. FrameFits(r)'
    BY <1>4 DEF FrameFits, AtRest
  <2> QED
    BY <2>1, <1>2, <1>4, LocalsStillFit DEF CatalogInv
<1>6. ASSUME ~ overlapped' PROVE RegistryIsTold'
  <2>1. /\ tool \in Offered /\ tool \notin ApprovedTools
        /\ \A t \in Offered : t # tool => Told(t)
    BY <1>1, <1>2, <1>6 DEF CatalogInv, Alone, InStep
  <2>2. OnRestart(tool) = Unregistered
    BY <2>1 DEF OnRestart
  <2>3. registry'[tool] = OnRestart(tool)'
    BY <1>2, <1>3, <2>1, <2>2, SameRows
  <2>4. \A t \in Offered : t # tool => Told(t)'
    BY <1>2, <1>3, <2>1, SameTool
  <2> QED
    BY <2>3, <2>4, CurrentIsTold DEF RegistryIsTold
<1>7. RowsHaveAServer'
  BY <1>2, SameRows DEF CatalogInv
<1> QED
  BY <1>2, <1>3, <1>5, <1>6, <1>7, HandlerGoesOn

-----------------------------------------------------------------------------
(* Discovery.                                                               *)

LEMMA DiscoverKeeps ==
  ASSUME CatalogInv, NEW r \in Requests, Discover(r)
  PROVE  CatalogInv'
<1>1. PICK frame : frame = [pc |-> "list", found |-> <<>>, page |-> 1, new |-> FALSE]
  OBVIOUS
<1>2. Begin(r, frame) /\ UNCHANGED <<server, rows, registry, mishaps>> /\ server.exists
  BY <1>1 DEF Discover
<1>3. /\ server' \in Server /\ rows' \in [Offered -> ToolRow \cup {Absent}]
      /\ registry' = [t \in Offered |-> registry'[t]]
  BY <1>2 DEF CatalogInv, CatalogTypes
<1>4. RowsHaveAServer'
  BY <1>2, SameRows DEF CatalogInv
<1>5. request'[r] = frame /\ \A x \in Requests : x # r => request'[x] = request[x]
  BY <1>2 DEF CatalogInv, CatalogTypes, Goto, Begin
<1>6. frame # AtRest /\ frame \in ListFrame /\ frame.pc = "list" /\ frame.new = FALSE
  BY <1>1, CatalogAssumption DEF ListFrame, AtRest
<1>7. \A x \in Requests : FrameFits(x)'
  <2>1. FrameFits(r)'
    BY <1>2, <1>5, <1>6 DEF FrameFits, ListFrame
  <2> QED
    BY <2>1, <1>2, <1>5, LocalsStillFit DEF CatalogInv
<1>8. ASSUME RegistryIsTold PROVE InStep(r)'
  <2>1. RegistryIsTold'
    BY <1>2, <1>8, SameClaim
  <2> QED
    BY <1>5, <1>6, <2>1 DEF InStep
<1> QED
  BY <1>2, <1>3, <1>4, <1>6, <1>7, <1>8, HandlerBegins

LEMMA CreateServerKeeps ==
  ASSUME CatalogInv, NEW r \in Requests, NEW oauth \in BOOLEAN, CreateServer(r, oauth)
  PROVE  CatalogInv'
<1>1. PICK frame : frame = IF oauth THEN AtRest
                           ELSE [pc |-> "list", found |-> <<>>, page |-> 1, new |-> TRUE]
  OBVIOUS
<1>2. /\ Begin(r, frame) /\ UNCHANGED <<rows, registry, mishaps>>
      /\ ~ server.exists /\ ~ server.deleted
      /\ server' = [server EXCEPT !.exists = TRUE, !.oauth = oauth]
  BY <1>1 DEF CreateServer
<1>3. /\ server' \in Server /\ server'.exists /\ server'.oauth = oauth
      /\ rows' \in [Offered -> ToolRow \cup {Absent}]
      /\ registry' = [t \in Offered |-> registry'[t]]
  BY <1>2 DEF CatalogInv, CatalogTypes, Server
<1>4. \A t \in Offered : rows[t] = Absent /\ rows'[t] = Absent
  BY <1>2 DEF CatalogInv, RowsHaveAServer
<1>5. request'[r] = frame /\ \A x \in Requests : x # r => request'[x] = request[x]
  BY <1>2 DEF CatalogInv, CatalogTypes, Goto, Begin
<1>6. /\ frame = AtRest <=> oauth
      /\ ~ oauth => frame \in ListFrame /\ frame.pc = "list"
  BY <1>1, CatalogAssumption DEF ListFrame, AtRest
<1>7. \A x \in Requests : FrameFits(x)'
  <2>1. \A x \in Requests : request[x] = AtRest
    BY <1>2 DEF CatalogInv, FrameFits
  <2>2. FrameFits(r)'
    BY <1>3, <1>5, <1>6 DEF FrameFits, ListFrame, AtRest
  <2>3. ASSUME NEW x \in Requests, x # r PROVE FrameFits(x)'
    BY <1>5, <2>1, <2>3 DEF FrameFits, AtRest
  <2> QED
    BY <2>2, <2>3
<1>8. ASSUME RegistryIsTold PROVE RegistryIsTold'
  <2>1. \A t \in Offered : OnRestart(t) = Unregistered /\ OnRestart(t)' = Unregistered
    BY <1>4 DEF OnRestart, ApprovedTools, IsApproved
  <2>2. \A t \in Offered : CallableAsStored(t)' <=> CallableAsStored(t)
    BY <1>2, <2>1 DEF CallableAsStored
  <2> QED
    BY <1>2, <1>8, <2>1, <2>2 DEF RegistryIsTold, Told
<1>9. ASSUME RegistryIsTold PROVE IF frame = AtRest THEN RegistryIsTold' ELSE InStep(r)'
  BY <1>4, <1>5, <1>6, <1>8, <1>9 DEF InStep
<1>10. RowsHaveAServer'
  BY <1>4 DEF RowsHaveAServer
<1> QED
  BY <1>2, <1>3, <1>7, <1>9, <1>10, HandlerBegins

LEMMA PageIsOfTheCatalogue ==
  ASSUME NEW found \in Seq(Offered \X Versions),
         NEW page \in BoundedSeq(Offered \X Versions, MaxListed)
  PROVE  found \o page \in Seq(Offered \X Versions)
<1>1. page \in Seq(Offered \X Versions)
  BY CatalogAssumption DEF BoundedSeq, SeqOf
<1> QED
  BY <1>1

LEMMA FetchPageKeeps ==
  ASSUME CatalogInv, NEW r \in Requests, FetchPage(r)
  PROVE  CatalogInv'
<1>1. /\ request[r].pc = "list" /\ request[r] # AtRest
      /\ UNCHANGED <<server, rows, registry, overlapped, mishaps>>
      /\ server' \in Server /\ rows' \in [Offered -> ToolRow \cup {Absent}]
      /\ registry' = [t \in Offered |-> registry'[t]]
      /\ mishaps' \subseteq {"failed", "twice", "token"}
  <2>1. request[r].pc = "list" /\ UNCHANGED <<server, rows, registry, overlapped, mishaps>>
    BY Zenon DEF FetchPage
  <2> QED
    BY <2>1 DEF AtRest, CatalogInv, CatalogTypes
<1>2. RowsHaveAServer'
  BY <1>1, SameRows DEF CatalogInv
<1>3. PICK f \in ListFrame : f = request[r]
  BY <1>1 DEF CatalogInv, FrameFits
<1>4. f.pc = "list" /\ f.found \in Seq(Offered \X Versions) /\ f.page \in 1 .. MaxPages /\ f.new \in BOOLEAN
  BY DEF ListFrame
<1>5. server.exists \/ server.deleted
  BY <1>1 DEF CatalogInv, FrameFits
<1>6. ~ overlapped => RegistryIsTold' /\ (f.new => \A t \in Offered : rows[t] = Absent)
  BY <1>1, <1>3, SameClaim DEF CatalogInv, Alone, InStep
<1>7. PICK frame : /\ Goto(r, frame)
                   /\ \/ frame = AtRest
                      \/ /\ frame.pc = "store" /\ frame.found \in Seq(Offered \X Versions)
                         /\ frame.new = f.new
                      \/ /\ frame.pc = "list" /\ frame \in ListFrame /\ frame.new = f.new
  <2>1. CASE Goto(r, AtRest)
    BY <2>1
  <2>2. CASE ~ Goto(r, AtRest)
    <3>1. PICK page \in BoundedSeq(Offered \X Versions, MaxListed), last \in BOOLEAN : \E found :
            /\ found = f.found \o page
            /\ Goto(r, IF last THEN [pc |-> "store", found |-> found, new |-> f.new]
                       ELSE IF f.page = MaxPages THEN AtRest
                       ELSE [f EXCEPT !.found = found, !.page = @ + 1])
      BY <1>3, <2>2 DEF FetchPage
    <3>2. PICK found :
            /\ found \in Seq(Offered \X Versions)
            /\ Goto(r, IF last THEN [pc |-> "store", found |-> found, new |-> f.new]
                       ELSE IF f.page = MaxPages THEN AtRest
                       ELSE [f EXCEPT !.found = found, !.page = @ + 1])
      BY <1>4, <3>1, PageIsOfTheCatalogue
    <3>3. CASE last
      <4>1. PICK g : g = [pc |-> "store", found |-> found, new |-> f.new]
        OBVIOUS
      <4>2. g.pc = "store" /\ g.found \in Seq(Offered \X Versions) /\ g.new = f.new
        BY <3>2, <4>1
      <4>3. Goto(r, g)
        BY <3>2, <3>3, <4>1
      <4> QED
        BY <4>2, <4>3
    <3>4. CASE ~ last
      <4>1. f.page # MaxPages
        BY <2>2, <3>2, <3>4
      <4>2. PICK g : g = [f EXCEPT !.found = found, !.page = @ + 1]
        OBVIOUS
      <4>3. f.page + 1 \in 1 .. MaxPages
        BY <1>4, <4>1, CatalogAssumption
      <4>4. g \in ListFrame /\ g.pc = "list" /\ g.new = f.new
        BY <1>4, <3>2, <4>2, <4>3 DEF ListFrame
      <4>5. Goto(r, g)
        BY <3>2, <3>4, <4>1, <4>2
      <4> QED
        BY <4>4, <4>5
    <3> QED
      BY <3>3, <3>4
  <2> QED
    BY <2>1, <2>2
<1>8. request'[r] = frame /\ \A x \in Requests : x # r => request'[x] = request[x]
  BY <1>7 DEF CatalogInv, CatalogTypes, Goto
<1>9. \A x \in Requests : FrameFits(x)'
  <2>1. FrameFits(r)'
    BY <1>1, <1>5, <1>7, <1>8 DEF FrameFits, AtRest
  <2> QED
    BY <2>1, <1>1, <1>8, LocalsStillFit DEF CatalogInv
<1>10. ASSUME ~ overlapped' PROVE IF frame = AtRest THEN RegistryIsTold' ELSE InStep(r)'
  BY <1>1, <1>6, <1>7, <1>8, <1>10 DEF InStep
<1> QED
  BY <1>1, <1>2, <1>7, <1>9, <1>10, HandlerGoesOn

LEMMA UpsertedIsARow ==
  ASSUME NEW row \in ToolRow \cup {Absent}, NEW v \in Versions
  PROVE  /\ Upserted(row, v) \in ToolRow
         /\ row = Absent => ~ IsApproved(Upserted(row, v))
BY DEF Upserted, ToolRow, IsApproved

\* Every upsert returns a row.
LEMMA EveryRowIsARow ==
  ASSUME CatalogInv, NEW found \in Seq(Offered \X Versions), NEW i \in DOMAIN found
  PROVE  /\ found[i][1] \in Offered /\ RowAfter(found, i) \in ToolRow
         /\ \E v \in Versions : RowAfter(found, i) = Upserted(rows[found[i][1]], v)
                                \/ RowAfter(found, i) = Upserted(Absent, v)
<1>1. PICK t, v : t = found[i][1] /\ v = found[i][2]
  OBVIOUS
<1>2. t \in Offered /\ v \in Versions
  BY <1>1
<1>3. RowAfter(found, i) = Upserted(rows[t], v) \/ RowAfter(found, i) = Upserted(Absent, v)
  <2>1. PICK replaced \in BOOLEAN : RowAfter(found, i) = Upserted(IF replaced THEN Absent ELSE rows[t], v)
    BY <1>1, Zenon DEF RowAfter
  <2> QED
    BY <2>1
<1>4. Upserted(rows[t], v) \in ToolRow /\ Upserted(Absent, v) \in ToolRow
  <2>1. rows[t] \in ToolRow \cup {Absent}
    BY <1>2 DEF CatalogInv, CatalogTypes
  <2> QED
    BY <1>2, <2>1, UpsertedIsARow
<1>5. RowAfter(found, i) \in ToolRow
  BY <1>3, <1>4, Zenon
<1> QED
  BY <1>1, <1>2, <1>3, <1>5, Zenon

StoredAndListed(stored, left) ==
  /\ stored \in [Offered -> ToolRow \cup {Absent}]
  /\ \A t \in Offered : stored[t] = Absent \/ \E v \in Versions :
       stored[t] = Upserted(rows[t], v) \/ stored[t] = Upserted(Absent, v)
  /\ left \in Seq(Offered \X ToolRow)
  /\ \A t \in Offered \ Names(left) : stored[t] = Absent
  /\ ~ ShowsTwice(left) => left \in Seq({<<t, stored[t]>> : t \in Offered})

\* The last entry of a name is stored, the list shows every entry's row: where no
\* name has two rows, the list shows the rows that are stored.
LEMMA CatalogueIsStored ==
  ASSUME CatalogInv, NEW found \in Seq(Offered \X Versions),
         NEW last \in [Names(found) -> DOMAIN found],
         \A t \in Names(found) : found[last[t]][1] = t,
         NEW stored,
         stored = [t \in Offered |-> IF t \in Names(found) THEN RowAfter(found, last[t]) ELSE Absent],
         NEW left, left = [i \in DOMAIN found |-> <<found[i][1], RowAfter(found, i)>>]
  PROVE  StoredAndListed(stored, left)
<1>1. DOMAIN found = 1 .. Len(found) /\ Len(found) \in Nat
      /\ \A i \in 1 .. Len(found) : found[i] \in Offered \X Versions
  OBVIOUS
<1>2. \A i \in DOMAIN found :
        /\ found[i][1] \in Offered /\ RowAfter(found, i) \in ToolRow
        /\ \E v \in Versions : RowAfter(found, i) = Upserted(rows[found[i][1]], v)
                               \/ RowAfter(found, i) = Upserted(Absent, v)
  BY EveryRowIsARow
<1>3. \A t \in Names(found) : last[t] \in DOMAIN found
  OBVIOUS
<1>4. ASSUME NEW t \in Offered
      PROVE  /\ stored[t] \in ToolRow \cup {Absent}
             /\ stored[t] = Absent \/ \E v \in Versions :
                  stored[t] = Upserted(rows[t], v) \/ stored[t] = Upserted(Absent, v)
  <2>1. stored[t] = IF t \in Names(found) THEN RowAfter(found, last[t]) ELSE Absent
    OBVIOUS
  <2> QED
    BY <1>2, <1>3, <2>1
<1>5. left \in Seq(Offered \X ToolRow)
  <2>1. \A i \in 1 .. Len(found) : <<found[i][1], RowAfter(found, i)>> \in Offered \X ToolRow
    BY <1>1, <1>2
  <2> QED
    BY <1>1, <2>1
<1>6. /\ DOMAIN left = DOMAIN found
      /\ \A i \in DOMAIN found : left[i] = <<found[i][1], RowAfter(found, i)>>
      /\ Names(left) = Names(found)
  BY DEF Names
<1>7. ASSUME ~ ShowsTwice(left) PROVE left \in Seq({<<t, stored[t]>> : t \in Offered})
  <2>1. ASSUME NEW i \in DOMAIN found PROVE left[i] \in {<<t, stored[t]>> : t \in Offered}
    <3>1. PICK t, k : t = found[i][1] /\ k = last[t]
      OBVIOUS
    <3>2. t \in Offered /\ t \in Names(found)
      BY <1>2, <3>1 DEF Names
    <3>3. k \in DOMAIN found /\ found[k][1] = t /\ stored[t] = RowAfter(found, k)
      BY <3>1, <3>2
    <3>4. left[i][1] = t /\ left[k][1] = t /\ left[k][2] = stored[t]
      BY <1>6, <3>1, <3>3
    <3>5. left[i][2] = stored[t]
      BY <1>6, <1>7, <3>3, <3>4 DEF ShowsTwice
    <3>6. left[i] = <<t, stored[t]>>
      BY <1>6, <3>4, <3>5
    <3> QED
      BY <3>2, <3>6
  <2>2. left \in [1 .. Len(found) -> {<<t, stored[t]>> : t \in Offered}]
    BY <1>1, <1>6, <2>1
  <2> QED
    BY <1>1, <2>2
<1>8. stored \in [Offered -> ToolRow \cup {Absent}]
  BY <1>4
<1>9. \A t \in Offered \ Names(left) : stored[t] = Absent
  BY <1>6
<1> QED
  BY <1>4, <1>5, <1>7, <1>8, <1>9 DEF StoredAndListed

LEMMA StoreCatalogKeeps ==
  ASSUME CatalogInv, NEW r \in Requests, StoreCatalog(r)
  PROVE  CatalogInv'
<1>1. /\ request[r].pc = "store" /\ request[r] # AtRest
      /\ UNCHANGED <<server, registry, overlapped, mishaps>>
      /\ server' \in Server /\ registry' = [t \in Offered |-> registry'[t]]
      /\ mishaps' \subseteq {"failed", "twice", "token"}
  <2>1. request[r].pc = "store" /\ UNCHANGED <<server, registry, overlapped, mishaps>>
    BY Zenon DEF StoreCatalog
  <2> QED
    BY <2>1 DEF AtRest, CatalogInv, CatalogTypes
<1>2. PICK found : found = request[r].found
  OBVIOUS
<1>3. found \in Seq(Offered \X Versions) /\ (server.exists \/ server.deleted)
  BY <1>1, <1>2 DEF CatalogInv, FrameFits
<1>4. ~ overlapped => /\ RegistryIsTold
                      /\ request[r].new => \A t \in Offered : rows[t] = Absent
  BY <1>1 DEF CatalogInv, Alone, InStep
<1>5. CASE found = <<>> \/ ~ server.exists
  <2>1. Goto(r, AtRest) /\ UNCHANGED rows
    BY <1>2, <1>5, Zenon DEF StoreCatalog
  <2>2. request'[r] = AtRest /\ \A x \in Requests : x # r => request'[x] = request[x]
    BY <2>1 DEF CatalogInv, CatalogTypes, Goto
  <2>3. \A x \in Requests : FrameFits(x)'
    <3>1. FrameFits(r)'
      BY <2>2 DEF FrameFits, AtRest
    <3> QED
      BY <3>1, <2>2, <1>1, LocalsStillFit DEF CatalogInv
  <2>4. ASSUME ~ overlapped' PROVE RegistryIsTold'
    BY <1>1, <1>4, <2>1, <2>4, SameClaim
  <2>5. RowsHaveAServer' /\ rows' \in [Offered -> ToolRow \cup {Absent}]
    BY <1>1, <2>1, SameRows DEF CatalogInv, CatalogTypes
  <2> QED
    BY <1>1, <2>1, <2>3, <2>4, <2>5, HandlerGoesOn
<1>6. CASE ~ (found = <<>> \/ ~ server.exists)
  <2>1. PICK last \in [Names(found) -> DOMAIN found] :
          /\ \A t \in Names(found) : found[last[t]][1] = t
          /\ rows' = [t \in Offered |-> IF t \in Names(found) THEN RowAfter(found, last[t]) ELSE Absent]
          /\ Goto(r, IF request[r].new THEN AtRest
                     ELSE [pc |-> "replace",
                           left |-> [i \in DOMAIN found |-> <<found[i][1], RowAfter(found, i)>>]])
    BY <1>2, <1>6, Zenon DEF StoreCatalog
  <2>2. PICK left : left = [i \in DOMAIN found |-> <<found[i][1], RowAfter(found, i)>>]
    OBVIOUS
  <2>3. Goto(r, IF request[r].new THEN AtRest ELSE [pc |-> "replace", left |-> left])
    BY <2>1, <2>2
  <2>4. PICK stored : stored = rows'
    OBVIOUS
  <2>5. stored = [t \in Offered |-> IF t \in Names(found) THEN RowAfter(found, last[t]) ELSE Absent]
    BY <2>1, <2>4
  <2>6. /\ stored \in [Offered -> ToolRow \cup {Absent}]
        /\ \A t \in Offered : stored[t] = Absent \/ \E v \in Versions :
             stored[t] = Upserted(rows[t], v) \/ stored[t] = Upserted(Absent, v)
        /\ \A t \in Offered \ Names(left) : stored[t] = Absent
        /\ ~ ShowsTwice(left) => left \in Seq({<<t, stored[t]>> : t \in Offered})
    <3>1. StoredAndListed(stored, left)
      BY <1>3, <2>1, <2>2, <2>5, CatalogueIsStored, Zenon
    <3> QED
      BY <3>1 DEF StoredAndListed
  <2>7. RowsHaveAServer'
    BY <1>1, <1>3, <1>6 DEF RowsHaveAServer
  <2>8. rows' \in [Offered -> ToolRow \cup {Absent}]
    BY <2>4, <2>6
  <2>9. CASE request[r].new
    <3>1. Goto(r, AtRest)
      BY <2>3, <2>9
    <3>2. request'[r] = AtRest /\ \A x \in Requests : x # r => request'[x] = request[x]
      BY <3>1 DEF CatalogInv, CatalogTypes, Goto
    <3>3. \A x \in Requests : FrameFits(x)'
      <4>1. FrameFits(r)'
        BY <3>2 DEF FrameFits, AtRest
      <4> QED
        BY <4>1, <3>2, <1>1, LocalsStillFit DEF CatalogInv
    <3>4. ASSUME ~ overlapped' PROVE RegistryIsTold'
      <4>1. ASSUME NEW t \in Offered PROVE OnRestart(t)' = OnRestart(t)
        <5>1. rows[t] = Absent
          BY <1>1, <1>4, <2>9, <3>4
        <5>2. ~ IsApproved(rows[t]) /\ ~ IsApproved(stored[t])
          BY <5>1, <2>6, UpsertedIsARow DEF IsApproved
        <5> QED
          BY <5>2, <2>4 DEF OnRestart, ApprovedTools
      <4> QED
        BY <1>1, <1>4, <3>4, <4>1 DEF RegistryIsTold, Told, CallableAsStored
    <3> QED
      BY <1>1, <2>7, <2>8, <3>1, <3>3, <3>4, HandlerGoesOn
  <2>10. CASE ~ request[r].new
    <3>1. PICK frame : frame = [pc |-> "replace", left |-> left]
      OBVIOUS
    <3>2. Goto(r, frame) /\ frame # AtRest /\ frame.pc = "replace" /\ frame.left = left
      BY <2>3, <2>10, <3>1 DEF AtRest
    <3>3. request'[r] = frame /\ \A x \in Requests : x # r => request'[x] = request[x]
      BY <3>2 DEF CatalogInv, CatalogTypes, Goto
    <3>4. \A x \in Requests : FrameFits(x)'
      <4>1. FrameFits(r)'
        BY <1>1, <1>3, <3>2, <3>3 DEF FrameFits
      <4> QED
        BY <4>1, <3>3, <1>1, LocalsStillFit DEF CatalogInv
    <3>5. InStep(r)'
      <4>1. ~ ShowsTwice(left) => IsOfTheRows(left)'
        BY <2>4, <2>6 DEF IsOfTheRows
      <4>2. \A t \in Offered \ Names(left) : rows'[t] = Absent
        BY <2>4, <2>6
      <4> QED
        BY <3>2, <3>3, <4>1, <4>2 DEF InStep
    <3> QED
      BY <1>1, <2>7, <2>8, <3>2, <3>4, <3>5, HandlerGoesOn
  <2> QED
    BY <2>9, <2>10
<1> QED
  BY <1>5, <1>6

LEMMA ReplaceNamespaceKeeps ==
  ASSUME CatalogInv, NEW r \in Requests, ReplaceNamespace(r)
  PROVE  CatalogInv'
<1>1. PICK left : left = request[r].left
  OBVIOUS
<1>2. /\ request[r].pc = "replace" /\ request[r] # AtRest
      /\ UNCHANGED <<server, rows, overlapped>> /\ RegisterRest(r, left)
      /\ server' \in Server /\ rows' \in [Offered -> ToolRow \cup {Absent}]
      /\ registry' = [t \in Offered |-> Unregistered]
      /\ mishaps' = IF ShowsTwice(left) THEN {"twice"} ELSE {}
  BY <1>1 DEF ReplaceNamespace, ClearNamespace, AtRest, CatalogInv, CatalogTypes
<1>3. RowsHaveAServer'
  BY <1>2, SameRows DEF CatalogInv
<1>4. ASSUME ~ overlapped, "twice" \notin mishaps' PROVE IsOfTheRows(left)' /\ LagsBy(left)'
  <2>1. IsOfTheRows(left) /\ \A t \in Offered \ Names(left) : rows[t] = Absent
    BY <1>1, <1>2, <1>4 DEF CatalogInv, Alone, InStep
  <2>2. \A t \in Offered \ Names(left) : OnRestart(t)' = Unregistered
    BY <1>2, <2>1 DEF OnRestart, ApprovedTools, IsApproved
  <2>3. LagsBy(left)'
    BY <1>2, <2>2, CurrentIsTold, UnregisteredIsStored DEF LagsBy
  <2> QED
    BY <1>2, <2>1, <2>3, SameRows
<1>5. mishaps' \subseteq {"failed", "twice", "token"}
  BY <1>2
<1> QED
  BY <1>2, <1>3, <1>4, <1>5, NextToRegister

LEMMA ReloadServerKeeps ==
  ASSUME CatalogInv, NEW r \in Requests, ReloadServer(r)
  PROVE  CatalogInv'
<1>1. PICK frame : frame = IF request[r].enabled THEN [pc |-> "rows"] ELSE AtRest
  OBVIOUS
<1>2. /\ request[r].pc = "reload" /\ request[r] # AtRest
      /\ UNCHANGED <<server, rows, overlapped>> /\ Goto(r, frame)
      /\ server' \in Server /\ rows' \in [Offered -> ToolRow \cup {Absent}]
      /\ registry' = [t \in Offered |-> Unregistered]
      /\ mishaps' = {}
  BY <1>1 DEF ReloadServer, ClearNamespace, AtRest, CatalogInv, CatalogTypes
<1>3. RowsHaveAServer'
  BY <1>2, SameRows DEF CatalogInv
<1>4. request'[r] = frame /\ \A x \in Requests : x # r => request'[x] = request[x]
  BY <1>2 DEF CatalogInv, CatalogTypes, Goto
<1>5. frame.pc \in {"rest", "rows"}
  BY <1>1 DEF AtRest
<1>6. \A x \in Requests : FrameFits(x)'
  <2>1. FrameFits(r)'
    BY <1>2, <1>4, <1>5 DEF CatalogInv, FrameFits
  <2> QED
    BY <2>1, <1>2, <1>4, LocalsStillFit DEF CatalogInv
<1>7. ASSUME ~ overlapped' PROVE IF frame = AtRest THEN RegistryIsTold' ELSE InStep(r)'
  <2>1. CASE frame = AtRest
    <3>1. ~ request[r].enabled
      BY <1>1, <2>1 DEF AtRest
    <3>2. ~ Usable'
      BY <1>2, <1>7, <3>1, SameRows DEF CatalogInv, Alone, InStep
    <3>3. \A t \in Offered : registry'[t] = OnRestart(t)'
      BY <1>2, <3>2 DEF OnRestart
    <3>4. RegistryIsTold'
      BY <3>3, CurrentIsTold DEF RegistryIsTold
    <3> QED
      BY <2>1, <3>4
  <2>2. CASE frame # AtRest
    <3>1. frame.pc = "rows"
      BY <1>1, <2>2
    <3>2. InStep(r)'
      BY <1>2, <1>4, <3>1 DEF InStep
    <3> QED
      BY <2>2, <3>2
  <2> QED
    BY <2>1, <2>2
<1>8. mishaps' \subseteq {"failed", "twice", "token"}
  BY <1>2
<1> QED
  BY <1>2, <1>3, <1>6, <1>7, <1>8, HandlerGoesOn

LEMMA ListRowsKeeps ==
  ASSUME CatalogInv, NEW r \in Requests, ListRows(r)
  PROVE  CatalogInv'
<1>1. PICK S : S = {t \in Offered : rows[t] # Absent}
  OBVIOUS
<1>2. PICK tools : tools = SetToSeq(S)
  OBVIOUS
<1>3. PICK left : left = [i \in DOMAIN tools |-> <<tools[i], rows[tools[i]]>>]
  OBVIOUS
<1>4. /\ request[r].pc = "rows" /\ request[r] # AtRest
      /\ UNCHANGED <<server, rows, registry, overlapped, mishaps>> /\ RegisterRest(r, left)
      /\ server' \in Server /\ rows' \in [Offered -> ToolRow \cup {Absent}]
      /\ registry' = [t \in Offered |-> registry'[t]]
      /\ mishaps' \subseteq {"failed", "twice", "token"}
  BY <1>1, <1>2, <1>3 DEF ListRows, AtRest, CatalogInv, CatalogTypes
<1>5. RowsHaveAServer'
  BY <1>4, SameRows DEF CatalogInv
<1>6. /\ Cardinality(S) \in Nat /\ tools \in [1 .. Cardinality(S) -> S]
      /\ \A t \in S : \E i \in 1 .. Cardinality(S) : tools[i] = t
  BY <1>1, <1>2, OfferedSubsetsAreFinite, SetToSeqIsOnto
<1>7. left = [i \in 1 .. Cardinality(S) |-> <<tools[i], rows[tools[i]]>>]
  BY <1>3, <1>6
<1>8. left \in Seq({<<t, rows[t]>> : t \in Offered})
  <2>1. \A i \in 1 .. Cardinality(S) : tools[i] \in Offered
    BY <1>1, <1>6
  <2> QED
    BY <1>6, <1>7, <2>1
<1>9. Names(left) = S
  <2>1. DOMAIN left = 1 .. Cardinality(S) /\ \A i \in 1 .. Cardinality(S) : left[i][1] = tools[i]
    BY <1>7
  <2> QED
    BY <1>6, <2>1 DEF Names
<1>10. ASSUME ~ overlapped PROVE IsOfTheRows(left)' /\ LagsBy(left)'
  <2>1. \A t \in Offered : registry[t] = Unregistered
    BY <1>4, <1>10 DEF CatalogInv, Alone, InStep
  <2>2. \A t \in Offered \ S : OnRestart(t) = Unregistered
    BY <1>1 DEF OnRestart, ApprovedTools, IsApproved
  <2>3. LagsBy(left)
    BY <1>9, <2>1, <2>2, CurrentIsTold, UnregisteredIsStored DEF LagsBy
  <2>4. LagsBy(left)'
    BY <1>4, <2>3, SameClaim
  <2> QED
    BY <1>4, <1>8, <2>4 DEF IsOfTheRows
<1> QED
  BY <1>4, <1>5, <1>10, NextToRegister

-----------------------------------------------------------------------------
(* The OAuth handshake.                                                     *)

\* No handler and no row depends on the state of a handshake.
LEMMA HandshakeIsApart ==
  ASSUME CatalogInv, UNCHANGED <<rows, registry, request, overlapped, mishaps>>,
         server' \in Server, server'.exists = server.exists, server'.deleted = server.deleted,
         server'.enabled = server.enabled, server'.oauth = server.oauth,
         server'.refreshToken = server.refreshToken, server'.connection = server.connection
  PROVE  CatalogInv'
<1>1. CatalogTypes' /\ RowsHaveAServer'
  BY DEF CatalogInv, CatalogTypes, RowsHaveAServer
<1>2. \A x \in Requests : FrameFits(x)'
  BY LocalsStillFit DEF CatalogInv
<1>3. /\ Usable' <=> Usable
      /\ \A t \in Offered : OnRestart(t)' = OnRestart(t)
      /\ \A left : IsOfTheRows(left)' <=> IsOfTheRows(left)
      /\ ApprovedTools' = ApprovedTools
  BY DEF Usable, OnRestart, ApprovedTools, IsOfTheRows
<1>4. \A t \in Offered : /\ CallableAsStored(t)' <=> CallableAsStored(t)
                         /\ Told(t)' <=> Told(t)
  BY <1>3 DEF CallableAsStored, Told
<1>5. /\ RegistryIsTold' <=> RegistryIsTold
      /\ \A left : LagsBy(left)' <=> LagsBy(left)
  BY <1>4 DEF RegistryIsTold, LagsBy
<1>6. ASSUME NEW r \in Requests, InStep(r) PROVE InStep(r)'
  BY <1>3, <1>4, <1>5, <1>6 DEF InStep
<1>7. Alone'
  BY <1>5, <1>6 DEF CatalogInv, Alone, Quiet
<1> QED
  BY <1>1, <1>2, <1>7 DEF CatalogInv

LEMMA StartOAuthKeeps ==
  ASSUME CatalogInv, StartOAuth
  PROVE  CatalogInv'
<1>1. PICK on : on = ~ server.pending
  OBVIOUS
<1>2. /\ UNCHANGED <<rows, registry, request, overlapped, mishaps>>
      /\ server' = [server EXCEPT !.pending = on]
  BY <1>1 DEF StartOAuth
<1>3. on \in BOOLEAN
  BY <1>1
<1>4. /\ server' \in Server
      /\ server'.exists = server.exists /\ server'.deleted = server.deleted
      /\ server'.enabled = server.enabled /\ server'.oauth = server.oauth
      /\ server'.refreshToken = server.refreshToken /\ server'.connection = server.connection
  BY <1>2, <1>3 DEF CatalogInv, CatalogTypes, Server
<1> QED
  BY <1>2, <1>4, HandshakeIsApart

LEMMA ConsumeOAuthStateKeeps ==
  ASSUME CatalogInv, NEW r \in Requests, ConsumeOAuthState(r)
  PROVE  CatalogInv'
<1>1. PICK frame : frame = [pc |-> "exchange"]
  OBVIOUS
<1>2. /\ server.exists /\ server' = [server EXCEPT !.pending = FALSE]
      /\ Begin(r, frame) /\ UNCHANGED <<rows, registry, mishaps>>
  BY <1>1 DEF ConsumeOAuthState
<1>3. /\ server' \in Server
      /\ server'.exists = server.exists /\ server'.deleted = server.deleted
      /\ server'.enabled = server.enabled /\ server'.oauth = server.oauth
      /\ server'.refreshToken = server.refreshToken /\ server'.connection = server.connection
      /\ rows' \in [Offered -> ToolRow \cup {Absent}]
      /\ registry' = [t \in Offered |-> registry'[t]]
  BY <1>2 DEF CatalogInv, CatalogTypes, Server
<1>4. RowsHaveAServer'
  BY <1>2, <1>3 DEF CatalogInv, RowsHaveAServer
<1>5. /\ request'[r] = frame /\ frame # AtRest /\ frame.pc = "exchange"
      /\ \A x \in Requests : x # r => request'[x] = request[x]
  BY <1>1, <1>2 DEF CatalogInv, CatalogTypes, Goto, Begin, AtRest
<1>6. \A x \in Requests : FrameFits(x)'
  <2>1. FrameFits(r)'
    BY <1>2, <1>3, <1>5 DEF FrameFits
  <2> QED
    BY <2>1, <1>3, <1>5, LocalsStillFit DEF CatalogInv
<1>7. ASSUME RegistryIsTold PROVE InStep(r)'
  <2>1. \A t \in Offered : OnRestart(t)' = OnRestart(t)
    BY <1>2, <1>3 DEF OnRestart, ApprovedTools, Usable
  <2>2. RegistryIsTold'
    BY <1>2, <1>7, <2>1 DEF RegistryIsTold, Told, CallableAsStored
  <2> QED
    BY <1>5, <2>2 DEF InStep
<1> QED
  BY <1>2, <1>3, <1>4, <1>5, <1>6, <1>7, HandlerBegins

LEMMA StoreOAuthTokensKeeps ==
  ASSUME CatalogInv, NEW r \in Requests, StoreOAuthTokens(r)
  PROVE  CatalogInv'
<1>1. /\ request[r].pc = "exchange" /\ request[r] # AtRest
      /\ UNCHANGED <<rows, registry, overlapped>>
      /\ rows' \in [Offered -> ToolRow \cup {Absent}]
      /\ registry' = [t \in Offered |-> registry'[t]]
  BY DEF StoreOAuthTokens, AtRest, CatalogInv, CatalogTypes
<1>2. PICK frame, token :
        /\ Goto(r, frame)
        /\ \/ frame = AtRest /\ token = server.refreshToken /\ UNCHANGED <<server, mishaps>>
           \/ /\ frame = [pc |-> "list", found |-> <<>>, page |-> 1, new |-> FALSE]
              /\ server' = [server EXCEPT !.refreshToken = token]
              /\ \E sent \in BOOLEAN :
                   /\ token = (server.refreshToken \/ (sent /\ server.exists))
                   /\ mishaps' = IF ApprovedTools # {} /\ ~ server.refreshToken /\ sent
                                   THEN mishaps \cup {"token"} ELSE mishaps
  BY DEF StoreOAuthTokens
<1>3. /\ server' \in Server
      /\ server'.exists = server.exists /\ server'.deleted = server.deleted
      /\ server'.enabled = server.enabled /\ server'.oauth = server.oauth
      /\ server'.connection = server.connection
      /\ server.refreshToken => server'.refreshToken
      /\ server'.refreshToken = server.refreshToken \/ ApprovedTools = {} \/ "token" \in mishaps'
  <2>1. server \in Server
    BY DEF CatalogInv, CatalogTypes
  <2>2. CASE UNCHANGED <<server, mishaps>>
    BY <2>1, <2>2
  <2>3. CASE ~ UNCHANGED <<server, mishaps>>
    <3>1. PICK sent \in BOOLEAN :
            /\ token = (server.refreshToken \/ (sent /\ server.exists))
            /\ mishaps' = IF ApprovedTools # {} /\ ~ server.refreshToken /\ sent
                            THEN mishaps \cup {"token"} ELSE mishaps
      BY <1>2, <2>3
    <3>2. server' = [server EXCEPT !.refreshToken = token]
      BY <1>2, <2>3
    <3>3. token \in BOOLEAN
      BY <3>1
    <3>4. /\ server' \in Server /\ server'.refreshToken = token
          /\ server'.exists = server.exists /\ server'.deleted = server.deleted
          /\ server'.enabled = server.enabled /\ server'.oauth = server.oauth
          /\ server'.connection = server.connection
      BY <2>1, <3>2, <3>3 DEF Server
    <3>5. server.refreshToken \in BOOLEAN
      BY <2>1 DEF Server
    <3> QED
      BY <3>1, <3>4, <3>5
  <2> QED
    BY <2>2, <2>3
<1>4. RowsHaveAServer' /\ mishaps' \subseteq {"failed", "twice", "token"} /\ mishaps \subseteq mishaps'
      /\ ("twice" \in mishaps' <=> "twice" \in mishaps)
  <2>1. RowsHaveAServer'
    BY <1>1, <1>3 DEF CatalogInv, RowsHaveAServer
  <2>2. mishaps' = mishaps \/ mishaps' = mishaps \cup {"token"}
    BY <1>2
  <2> QED
    BY <2>1, <2>2 DEF CatalogInv, CatalogTypes
<1>5. request'[r] = frame /\ \A x \in Requests : x # r => request'[x] = request[x]
  BY <1>2 DEF CatalogInv, CatalogTypes, Goto
<1>6. frame = AtRest \/ (frame \in ListFrame /\ frame.pc = "list" /\ frame.new = FALSE)
  <2>1. frame = AtRest \/ frame = [pc |-> "list", found |-> <<>>, page |-> 1, new |-> FALSE]
    BY <1>2, Zenon
  <2>2. 1 \in 1 .. MaxPages
    BY CatalogAssumption
  <2>3. CASE frame = AtRest
    BY <2>3
  <2>4. CASE frame = [pc |-> "list", found |-> <<>>, page |-> 1, new |-> FALSE]
    BY <2>2, <2>4 DEF ListFrame
  <2> QED
    BY <2>1, <2>3, <2>4
<1>7. \A x \in Requests : FrameFits(x)'
  <2>1. server'.exists \/ server'.deleted
    BY <1>1, <1>3 DEF CatalogInv, FrameFits
  <2>2. FrameFits(r)'
    BY <1>5, <1>6, <2>1 DEF FrameFits, ListFrame, AtRest
  <2> QED
    BY <2>2, <1>3, <1>5, LocalsStillFit DEF CatalogInv
<1>8. ASSUME NEW t \in Offered, Told(t) PROVE Told(t)'
  <2>1. OnRestart(t) # Unregistered => OnRestart(t)' = OnRestart(t)
    BY <1>1, <1>3 DEF OnRestart, ApprovedTools, Usable
  <2>2. CallableAsStored(t) => CallableAsStored(t)'
    BY <1>1, <2>1 DEF CallableAsStored
  <2>3. ASSUME mishaps' = {} PROVE OnRestart(t)' = OnRestart(t)
    <3>1. server'.refreshToken = server.refreshToken \/ ApprovedTools = {}
      BY <1>3, <2>3
    <3> QED
      BY <3>1, <1>1, <1>3 DEF OnRestart, ApprovedTools, Usable
  <2>4. mishaps' = {} => registry'[t] = OnRestart(t)'
    BY <1>1, <1>4, <1>8, <2>3 DEF Told
  <2>5. "twice" \notin mishaps' => CallableAsStored(t)'
    BY <1>4, <1>8, <2>2 DEF Told
  <2> QED
    BY <2>4, <2>5 DEF Told
<1>9. ASSUME ~ overlapped' PROVE IF frame = AtRest THEN RegistryIsTold' ELSE InStep(r)'
  <2>1. RegistryIsTold
    BY <1>1, <1>9 DEF CatalogInv, Alone, InStep
  <2>2. RegistryIsTold'
    BY <1>8, <2>1 DEF RegistryIsTold
  <2> QED
    BY <1>5, <1>6, <2>2 DEF InStep
<1> QED
  BY <1>1, <1>2, <1>3, <1>4, <1>7, <1>9, HandlerGoesOn

-----------------------------------------------------------------------------
(* The server is changed or deleted, the process restarts.                  *)

\* The reload of a server that was changed or deleted starts from nothing.
LEMMA ReloadBegins ==
  ASSUME CatalogInv, NEW r \in Requests, NEW enabled,
         Begin(r, [pc |-> "reload", enabled |-> enabled]), UNCHANGED <<registry, mishaps>>,
         server' \in Server, rows' \in [Offered -> ToolRow \cup {Absent}],
         RowsHaveAServer', server'.exists \/ server'.deleted,
         ~ enabled => ~ Usable'
  PROVE  CatalogInv'
<1>1. PICK frame : frame = [pc |-> "reload", enabled |-> enabled]
  OBVIOUS
<1>2. Begin(r, frame) /\ frame # AtRest /\ frame.pc = "reload" /\ frame.enabled = enabled
  BY <1>1 DEF AtRest
<1>3. request'[r] = frame /\ \A x \in Requests : x # r => request'[x] = request[x]
  BY <1>2 DEF CatalogInv, CatalogTypes, Goto, Begin
<1>4. registry' = [t \in Offered |-> registry'[t]]
  BY DEF CatalogInv, CatalogTypes
<1>5. \A x \in Requests : FrameFits(x)'
  <2>1. FrameFits(r)'
    BY <1>2, <1>3 DEF FrameFits
  <2> QED
    BY <2>1, <1>3, LocalsStillFit DEF CatalogInv
<1>6. InStep(r)'
  BY <1>2, <1>3 DEF InStep
<1> QED
  BY <1>2, <1>4, <1>5, <1>6, HandlerBegins

LEMMA UpdateServerKeeps ==
  ASSUME CatalogInv, NEW r \in Requests, NEW enabled \in BOOLEAN, NEW rotate \in BOOLEAN,
         UpdateServer(r, enabled, rotate)
  PROVE  CatalogInv'
<1>1. PICK connection : connection = IF rotate THEN server.connection + 1 ELSE server.connection
  OBVIOUS
<1>2. /\ server.exists /\ (rotate => server.connection < MaxRotations)
      /\ server' = [server EXCEPT !.enabled = enabled, !.connection = connection]
      /\ Begin(r, [pc |-> "reload", enabled |-> enabled]) /\ UNCHANGED <<rows, registry, mishaps>>
  BY <1>1 DEF UpdateServer
<1>3. connection \in 0 .. MaxRotations
  <2>1. server.connection \in 0 .. MaxRotations
    BY DEF CatalogInv, CatalogTypes, Server
  <2> QED
    BY <2>1, <1>1, <1>2, CatalogAssumption
<1>4. /\ server' \in Server
      /\ server'.exists = server.exists /\ server'.enabled = enabled
      /\ rows' \in [Offered -> ToolRow \cup {Absent}]
  BY <1>2, <1>3 DEF CatalogInv, CatalogTypes, Server
<1>5. RowsHaveAServer'
  BY <1>2, <1>4 DEF CatalogInv, RowsHaveAServer
<1>6. ~ enabled => ~ Usable'
  BY <1>4 DEF Usable
<1> QED
  BY <1>2, <1>4, <1>5, <1>6, ReloadBegins

LEMMA DeleteServerKeeps ==
  ASSUME CatalogInv, NEW r \in Requests, DeleteServer(r)
  PROVE  CatalogInv'
<1>1. /\ server' = [server EXCEPT !.exists = FALSE, !.deleted = TRUE, !.pending = FALSE, !.refreshToken = FALSE]
      /\ rows' = [t \in Offered |-> Absent]
      /\ Begin(r, [pc |-> "reload", enabled |-> FALSE]) /\ UNCHANGED <<registry, mishaps>>
  BY DEF DeleteServer
<1>2. server' \in Server /\ ~ server'.exists /\ server'.deleted
  BY <1>1 DEF CatalogInv, CatalogTypes, Server
<1>3. rows' \in [Offered -> ToolRow \cup {Absent}] /\ RowsHaveAServer' /\ ~ Usable'
  BY <1>1, <1>2 DEF RowsHaveAServer, Usable
<1> QED
  BY <1>1, <1>2, <1>3, ReloadBegins

\* A statement that fails leaves no tool that can be called otherwise than before.
LEMMA StatementFailsKeeps ==
  ASSUME CatalogInv, NEW r \in Requests, StatementFails(r)
  PROVE  CatalogInv'
<1>1. /\ request[r].pc \in {"patch", "store", "rows", "connect", "register"} /\ request[r] # AtRest
      /\ UNCHANGED <<server, rows, registry, overlapped>> /\ Goto(r, AtRest)
      /\ server' \in Server /\ rows' \in [Offered -> ToolRow \cup {Absent}]
      /\ registry' = [t \in Offered |-> registry'[t]]
      /\ mishaps' = mishaps \cup (IF request[r].pc \in {"patch", "store"} THEN {} ELSE {"failed"})
  BY DEF StatementFails, AtRest, CatalogInv, CatalogTypes
<1>2. RowsHaveAServer'
  BY <1>1, SameRows DEF CatalogInv
<1>3. mishaps' \subseteq {"failed", "twice", "token"} /\ ("twice" \in mishaps' <=> "twice" \in mishaps)
  BY <1>1 DEF CatalogInv, CatalogTypes
<1>4. request'[r] = AtRest /\ \A x \in Requests : x # r => request'[x] = request[x]
  BY <1>1 DEF CatalogInv, CatalogTypes, Goto
<1>5. \A x \in Requests : FrameFits(x)'
  <2>1. FrameFits(r)'
    BY <1>4 DEF FrameFits, AtRest
  <2> QED
    BY <2>1, <1>1, <1>4, LocalsStillFit DEF CatalogInv
<1>6. ASSUME ~ overlapped' PROVE RegistryIsTold'
  <2>1. InStep(r) /\ ~ overlapped
    BY <1>1, <1>6 DEF CatalogInv, Alone
  <2>2. CASE request[r].pc \in {"patch", "store"}
    <3>1. RegistryIsTold /\ UNCHANGED mishaps
      BY <1>1, <2>1, <2>2 DEF InStep
    <3> QED
      BY <1>1, <3>1, SameClaim
  <2>3. CASE request[r].pc \notin {"patch", "store"}
    <3>1. ASSUME NEW t \in Offered, "twice" \notin mishaps' PROVE CallableAsStored(t)'
      <4>1. CallableAsStored(t)
        <5>1. CASE request[r].pc = "rows"
          BY <2>1, <5>1, UnregisteredIsStored DEF InStep
        <5>2. CASE request[r].pc # "rows"
          <6>1. PICK left : left = request[r].left
            OBVIOUS
          <6>2. LagsBy(left) /\ "twice" \notin mishaps
            BY <1>1, <1>3, <2>1, <2>3, <3>1, <5>2, <6>1 DEF InStep
          <6> QED
            BY <6>2, LagsAreCallable
        <5> QED
          BY <5>1, <5>2
      <4> QED
        BY <1>1, <4>1, SameTools
    <3>2. mishaps' # {}
      BY <1>1, <2>3
    <3> QED
      BY <3>1, <3>2, AfterAMishap DEF RegistryIsTold
  <2> QED
    BY <2>2, <2>3
<1> QED
  BY <1>1, <1>2, <1>3, <1>5, <1>6, HandlerGoesOn

LEMMA RestartProcessKeeps ==
  ASSUME CatalogInv, RestartProcess
  PROVE  CatalogInv'
<1>1. /\ UNCHANGED <<server, rows>> /\ overlapped' = FALSE /\ mishaps' = {}
      /\ request' = [r \in Requests |-> AtRest]
      /\ registry' = [t \in Offered |-> OnRestart(t)]
  BY DEF RestartProcess, OnRestart
<1>2. CatalogTypes' /\ RowsHaveAServer'
  BY <1>1, SameRows DEF CatalogInv, CatalogTypes
<1>3. \A x \in Requests : FrameFits(x)'
  BY <1>1 DEF FrameFits, AtRest
<1>4. RegistryIsTold'
  <2>1. \A t \in Offered : registry'[t] = OnRestart(t)'
    BY <1>1, SameRows
  <2> QED
    BY <2>1, CurrentIsTold DEF RegistryIsTold
<1> QED
  BY <1>1, <1>2, <1>3, <1>4 DEF CatalogInv, Alone

-----------------------------------------------------------------------------
(* The theorems.                                                            *)

LEMMA CatalogInvariant == CatalogSpec => []CatalogInv
<1>1. CatalogInit => CatalogInv
  <2> SUFFICES ASSUME CatalogInit PROVE CatalogInv
    OBVIOUS
  <2>1. CatalogTypes /\ RowsHaveAServer
    <3>1. 0 \in 0 .. MaxRotations
      BY CatalogAssumption
    <3>2. server \in Server
      BY <3>1 DEF CatalogInit, Server
    <3> QED
      BY <3>2 DEF CatalogInit, CatalogTypes, RowsHaveAServer
  <2>2. \A r \in Requests : FrameFits(r)
    BY DEF CatalogInit, FrameFits, AtRest
  <2>3. RegistryIsTold
    <3>1. \A t \in Offered : registry[t] = OnRestart(t)
      BY DEF CatalogInit, OnRestart, Usable
    <3> QED
      BY <3>1, CurrentIsTold DEF RegistryIsTold
  <2> QED
    BY <2>1, <2>2, <2>3 DEF CatalogInit, CatalogInv, Alone
<1>2. CatalogInv /\ [CatalogNext]_catalogVars => CatalogInv'
  <2> SUFFICES ASSUME CatalogInv, [CatalogNext]_catalogVars PROVE CatalogInv'
    OBVIOUS
  <2>1. CASE UNCHANGED catalogVars
    BY <2>1, HandshakeIsApart DEF catalogVars, CatalogInv, CatalogTypes
  <2>2. ASSUME NEW r \in Requests, CheckServer(r) \/ ReadConnection(r) \/ RegisterTool(r)
        PROVE  CatalogInv'
    BY <2>2, CheckServerKeeps, ReadConnectionKeeps, RegisterToolKeeps
  <2>3. ASSUME NEW r \in Requests, NEW t \in Offered, NEW patch \in Patches, ReadTool(r, t, patch)
        PROVE  CatalogInv'
    BY <2>3, ReadToolKeeps
  <2>4. ASSUME NEW r \in Requests,
               SetApproval(r) \/ UnregisterTool(r) \/ Discover(r) \/ FetchPage(r) \/ StoreCatalog(r)
        PROVE  CatalogInv'
    BY <2>4, SetApprovalKeeps, UnregisterToolKeeps, DiscoverKeeps, FetchPageKeeps, StoreCatalogKeeps
  <2>5. ASSUME NEW r \in Requests, NEW oauth \in BOOLEAN, CreateServer(r, oauth)
        PROVE  CatalogInv'
    BY <2>5, CreateServerKeeps
  <2>6. ASSUME NEW r \in Requests,
               ReplaceNamespace(r) \/ ConsumeOAuthState(r) \/ StoreOAuthTokens(r)
                 \/ ReloadServer(r) \/ ListRows(r) \/ DeleteServer(r) \/ StatementFails(r)
        PROVE  CatalogInv'
    BY <2>6, ReplaceNamespaceKeeps, ConsumeOAuthStateKeeps, StoreOAuthTokensKeeps,
       ReloadServerKeeps, ListRowsKeeps, DeleteServerKeeps, StatementFailsKeeps
  <2>7. ASSUME NEW r \in Requests, NEW enabled \in BOOLEAN, NEW rotate \in BOOLEAN,
               UpdateServer(r, enabled, rotate)
        PROVE  CatalogInv'
    BY <2>7, UpdateServerKeeps
  <2>8. CASE StartOAuth \/ RestartProcess
    BY <2>8, StartOAuthKeeps, RestartProcessKeeps
  <2> QED
    BY <2>1, <2>2, <2>3, <2>4, <2>5, <2>6, <2>7, <2>8 DEF CatalogNext
<1> QED
  BY <1>1, <1>2, PTL DEF CatalogSpec

\* After handlers that come one after the other, the registry is what a restart
\* would load, unless a statement failed, a catalogue showed a tool with two
\* contracts or a refresh token came late; and but for that catalogue, whatever
\* failed, no tool can be called that was revoked, has another contract or
\* another connection than its row (mcp-routes.ts, mcp-registration.ts).
THEOREM SerialHandlersLoadTheRows == CatalogSpec => []SerialHandlersKeepRegistry
<1>1. CatalogInv => SerialHandlersKeepRegistry
  BY DEF CatalogInv, Alone, SerialHandlersKeepRegistry, RegistryIsTold, Told
<1> QED
  BY <1>1, CatalogInvariant, PTL

\* A stored catalogue approves nothing, and keeps no approval of another version.
LEMMA UpsertedApprovesNothing ==
  ASSUME NEW row, NEW v, IsApproved(Upserted(row, v))
  PROVE  IsApproved(row) /\ Upserted(row, v).version = row.version
BY DEF Upserted, IsApproved

\* An approval that is new, or of a new version, comes from the handler that
\* sets the owner's decision on that tool (setMcpServerToolApproval); neither
\* a discovery nor a change of the server gives one (upsertDiscoveredTools).
THEOREM OnlyTheOwnerApproves == CatalogSpec => ApprovalIsOfThisContract
<1> DEFINE Granted(t) == IsApproved(rows'[t])
                           /\ ~ (IsApproved(rows[t]) /\ rows'[t].version = rows[t].version)
           ByTheOwner(t) == \E r \in Requests : request[r].pc = "patch" /\ request[r].tool = t
<1>1. ASSUME CatalogInv, [CatalogNext]_catalogVars,
             NEW t \in Offered, Granted(t)
      PROVE  ByTheOwner(t)
  <2>1. rows'[t] # rows[t]
    BY <1>1
  <2>2. PICK r \in Requests : SetApproval(r) \/ StoreCatalog(r) \/ DeleteServer(r)
    BY <1>1, <2>1 DEF CatalogNext, catalogVars, CheckServer, ReadConnection, RegisterTool, ReadTool,
       UnregisterTool, CreateServer, Discover, FetchPage, ReplaceNamespace, ConsumeOAuthState,
       StoreOAuthTokens, UpdateServer, ReloadServer, ListRows, StatementFails, StartOAuth,
       RestartProcess
  <2>3. CASE SetApproval(r)
    <3>1. PICK tool, row : tool = request[r].tool
                           /\ row = Approval(rows[tool], request[r].risk, request[r].approved)
      OBVIOUS
    <3>2. request[r].pc = "patch" /\ (rows' = rows \/ rows' = [rows EXCEPT ![tool] = row])
      BY <2>3, <3>1, Zenon DEF SetApproval
    <3>3. rows'[t] = rows[t] \/ t = tool
      BY <1>1, <3>2 DEF CatalogInv, CatalogTypes
    <3> QED
      BY <2>1, <3>1, <3>2, <3>3
  <2>4. CASE StoreCatalog(r)
    <3>1. PICK found : found = request[r].found
      OBVIOUS
    <3>2. rows' = rows \/ \E last :
            /\ \A u \in Names(found) : found[last[u]][1] = u
            /\ rows' = [u \in Offered |->
                 IF u \in Names(found) THEN RowAfter(found, last[u]) ELSE Absent]
      BY <2>4, <3>1, Zenon DEF StoreCatalog
    <3>3. PICK i : rows'[t] = Absent \/ (found[i][1] = t /\ rows'[t] = RowAfter(found, i))
      BY <2>1, <3>2
    <3>4. RowAfter(found, i) = Upserted(rows[found[i][1]], found[i][2])
          \/ RowAfter(found, i) = Upserted(Absent, found[i][2])
      <4>1. PICK replaced \in BOOLEAN : RowAfter(found, i) =
              Upserted(IF replaced THEN Absent ELSE rows[found[i][1]], found[i][2])
        BY Zenon DEF RowAfter
      <4> QED
        BY <4>1
    <3>5. \E v : rows'[t] = Upserted(rows[t], v) \/ rows'[t] = Upserted(Absent, v)
      BY <1>1, <3>3, <3>4 DEF IsApproved
    <3> QED
      BY <1>1, <3>5, UpsertedApprovesNothing DEF IsApproved
  <2>5. CASE DeleteServer(r)
    <3>1. rows'[t] = Absent
      BY <2>5 DEF DeleteServer
    <3> QED
      BY <1>1, <3>1 DEF IsApproved
  <2> QED
    BY <2>2, <2>3, <2>4, <2>5
<1>2. CatalogInv /\ [CatalogNext]_catalogVars => [\A t \in Offered : Granted(t) => ByTheOwner(t)]_catalogVars
  BY <1>1
<1> QED
  BY <1>2, CatalogInvariant, PTL DEF CatalogSpec, ApprovalIsOfThisContract

-----------------------------------------------------------------------------
(* The page on which the owner approves those tools, for any number of      *)
(* servers and tools: while each call is waited for, whatever fails, the    *)
(* page shows the rows but for what was ticked and is not yet answered.     *)

\* Kinds of calls, and what each carries.
ServerKinds == {"discover", "delete", "toggle", "add"}
UpdateKinds == {"update", "bulk"}

CallFits(p) ==
  \/ p = Free
  \/ /\ p.kind \in {"servers", "tools"} \cup ServerKinds \cup UpdateKinds
     /\ p.call.kind = p.kind /\ p.phase \in {"sent", "answered"}
     /\ p.kind = "servers" => p.call.select \in Hosts \cup {NoHost}
     /\ p.kind # "servers" => p.call.host \in Hosts
     /\ p.kind \in UpdateKinds => p.call.approved \in BOOLEAN

PageShape ==
  /\ mcpPage = [state |-> mcpPage.state, servers |-> mcpPage.servers, selected |-> mcpPage.selected,
                tools |-> mcpPage.tools, marked |-> mcpPage.marked, error |-> mcpPage.error,
                bulkBusy |-> mcpPage.bulkBusy]
  /\ mcpPage.state = "ready" => DOMAIN mcpPage.servers \subseteq Hosts

McpTypes ==
  /\ McpTypeOK /\ PageShape
  /\ pending = [x \in Pending |-> pending[x]]
  /\ \A x \in Pending : CallFits(pending[x])
  /\ \A x \in Pending : pending[x].kind = "servers" /\ pending[x].phase = "answered" =>
       DOMAIN pending[x].answer \subseteq Hosts

Answered(p, kinds) == p.kind \in kinds /\ p.phase = "answered"

\* Two calls are under way only after tools were discovered.
OnlyCall ==
  \A x, y \in Pending : x # y /\ pending[x] # Free /\ pending[y] # Free =>
    /\ {pending[x].kind, pending[y].kind} = {"servers", "tools"}
    /\ pending[x].kind = "servers" => pending[x].call.select = NoHost

\* The count of the server whose tools were updated is as it was before.
CountsBefore(call) ==
  [h \in hosts |-> IF h = call.host THEN Cardinality({t \in ToolsOf(h) : call.before[t]})
                   ELSE HostRows[h]]

ServersAreCurrent ==
  mcpPage.state = "ready" =>
    \/ mcpPage.servers = HostRows
    \/ \E x \in Pending : Answered(pending[x], ServerKinds \cup UpdateKinds)

ToolsAreCurrent ==
  mcpPage.selected # NoHost =>
    \/ mcpPage.selected \in hosts /\ mcpPage.tools = ToolRows(mcpPage.selected)
    \/ \E x \in Pending :
         \/ pending[x].kind = "tools" /\ mcpPage.selected \in hosts
         \/ Answered(pending[x], UpdateKinds \cup {"discover"}) /\ mcpPage.selected \in hosts
         \/ Answered(pending[x], {"delete"}) /\ pending[x].call.selected

UpdateFits(p) ==
  LET call == p.call IN
  /\ mcpPage.selected \in {NoHost, call.host}
  /\ mcpPage.tools = call.before
  /\ DOMAIN call.before = ToolsOf(call.host) /\ \A t \in ToolsOf(call.host) : call.before[t] \in BOOLEAN
  /\ call.approved \in BOOLEAN
  /\ call.tools \subseteq ToolsOf(call.host)
  /\ p.kind = "bulk" => call.approved
  /\ call.host \in hosts
  /\ p.phase = "sent" => call.before = ToolRows(call.host)
  /\ p.phase = "answered" =>
       /\ p.answer = call.tools
       /\ \A t \in ToolsOf(call.host) : approvals[t] = IF t \in p.answer THEN call.approved ELSE call.before[t]
       /\ mcpPage.state = "ready" => mcpPage.servers = CountsBefore(call)

PendingFits(p) ==
  /\ Answered(p, {"servers"}) => p.answer = HostRows
  /\ p.kind = "servers" => p.call.select = NoHost \/ p.call.select \in hosts
  /\ p.kind = "tools" => mcpPage.selected \in {NoHost, p.call.host}
  /\ Answered(p, {"tools"}) => p.call.host \in hosts /\ p.answer = ToolRows(p.call.host)
  /\ p.kind \in UpdateKinds => UpdateFits(p)
  /\ p.kind = "delete" =>
       mcpPage.selected = NoHost \/ (p.call.selected <=> p.call.host = mcpPage.selected)
  /\ Answered(p, {"add"}) => p.call.host \in hosts

\* What a page that nothing has disturbed keeps, at rest and between two answers.
McpUndisturbed ==
  /\ OnlyCall /\ ServersAreCurrent /\ ToolsAreCurrent
  /\ \A x \in Pending : \A p \in {pending[x]} : PendingFits(p)

McpInv == McpTypes /\ (~disturbed => McpUndisturbed)

LEMMA ServedCounts ==
  ASSUME NEW S \in SUBSET (DOMAIN HostOf)
  PROVE  IsFiniteSet(S) /\ Cardinality(S) \in Nat
BY FS_Subset, FS_CardinalityType, McpPageAssumption

LEMMA NoCallIsNoKind ==
  /\ Free.kind = "free"
  /\ \A kinds : "free" \notin kinds => ~Answered(Free, kinds)
  /\ PendingFits(Free)
BY DEF Free, Answered, PendingFits, UpdateKinds

(* A page that nothing is under way for tells what is stored.               *)
LEMMA QuietPage ==
  ASSUME McpInv, ~disturbed, Quiescent
  PROVE  /\ mcpPage.state = "ready" => mcpPage.servers = HostRows
         /\ mcpPage.selected # NoHost =>
              mcpPage.selected \in hosts /\ mcpPage.tools = ToolRows(mcpPage.selected)
BY NoCallIsNoKind DEF McpInv, McpUndisturbed, Quiescent, ServersAreCurrent, ToolsAreCurrent, ServerKinds, UpdateKinds

LEMMA Starting ==
  ASSUME McpInv, NEW call, Start(call)
  PROVE  \E s \in Pending :
           /\ pending[s] = Free
           /\ pending' = [x \in Pending |-> IF x = s THEN Sent(call) ELSE pending[x]]
           /\ ~disturbed' => ~disturbed /\ Quiescent
           /\ hosts' = hosts /\ approvals' = approvals
<1> DEFINE s == CHOOSE x \in FreeSlots : TRUE
<1>1. s \in FreeSlots
  BY DEF Start
<1>2. s \in Pending /\ pending[s] = Free
  BY <1>1 DEF FreeSlots
<1>3. pending = [x \in Pending |-> pending[x]]
  BY DEF McpInv, McpTypes
<1>4. pending' = [pending EXCEPT ![s] = Sent(call)]
  BY DEF Start
<1>5. pending' = [x \in Pending |-> IF x = s THEN Sent(call) ELSE pending[x]]
  <2> HIDE DEF s
  <2> QED BY <1>2, <1>3, <1>4
<1>6. QED BY <1>2, <1>5 DEF Start

(* The page is typed whatever has come between.                             *)
LEMMA SentFits ==
  ASSUME NEW call, call.kind \in {"servers", "tools"} \cup ServerKinds \cup UpdateKinds,
         call.kind = "servers" => call.select \in Hosts \cup {NoHost},
         call.kind # "servers" => call.host \in Hosts,
         call.kind \in UpdateKinds => call.approved \in BOOLEAN
  PROVE  CallFits(Sent(call)) /\ Sent(call).phase = "sent" /\ Sent(call).kind = call.kind
         /\ Sent(call).call = call /\ Sent(call) # Free
BY DEF CallFits, Sent, Free, ServerKinds, UpdateKinds

LEMMA StartTypes ==
  ASSUME McpInv, NEW call, Start(call), CallFits(Sent(call))
  PROVE  /\ pending' = [x \in Pending |-> pending'[x]]
         /\ \A x \in Pending : CallFits(pending'[x])
         /\ \A x \in Pending : pending'[x].kind = "servers" /\ pending'[x].phase = "answered" =>
              DOMAIN pending'[x].answer \subseteq Hosts
         /\ hosts' = hosts /\ approvals' = approvals /\ disturbed' \in BOOLEAN
<1>1. PICK s \in Pending :
           /\ pending[s] = Free
           /\ pending' = [x \in Pending |-> IF x = s THEN Sent(call) ELSE pending[x]]
           /\ hosts' = hosts /\ approvals' = approvals
  BY Starting
<1>2. Sent(call).phase = "sent"
  BY DEF Sent
<1>3. disturbed' \in BOOLEAN
  BY DEF Start, McpInv, McpTypes, McpTypeOK
<1>4. \A x \in Pending : CallFits(pending'[x])
  BY <1>1 DEF McpInv, McpTypes
<1> QED BY <1>1, <1>2, <1>3, <1>4 DEF McpInv, McpTypes

LEMMA McpTypesStart == McpInit => McpTypes
<1> SUFFICES ASSUME McpInit PROVE McpTypes
  OBVIOUS
<1>1. LoadServers(NoHost).kind = "servers" /\ LoadServers(NoHost).select = NoHost
  BY DEF LoadServers
<1>2. CallFits(Sent(LoadServers(NoHost))) /\ Sent(LoadServers(NoHost)).phase = "sent"
  BY <1>1, SentFits DEF UpdateKinds
<1>3. Free.kind = "free" /\ CallFits(Free)
  BY DEF Free, CallFits
<1>4. McpTypeOK /\ PageShape
  BY McpPageAssumption DEF McpInit, McpTypeOK, PageShape, FreshPage
<1>5. pending = [x \in Pending |-> pending[x]] /\ \A x \in Pending : pending[x] \in {Sent(LoadServers(NoHost)), Free}
  BY DEF McpInit
<1> QED BY <1>2, <1>3, <1>4, <1>5 DEF McpTypes

\* A page of which one field changed.
LEMMA PageKeepsShape ==
  ASSUME McpInv, mcpPage' = mcpPage
  PROVE  PageShape' /\ mcpPage'.state \in {"loading", "ready", "error"}
         /\ mcpPage'.selected \in Hosts \cup {NoHost}
BY DEF McpInv, McpTypes, McpTypeOK, PageShape

\* What the types need of a step.
LEMMA TypesAgain ==
  ASSUME hosts' \subseteq Hosts, approvals' \in [DOMAIN HostOf -> BOOLEAN], disturbed' \in BOOLEAN,
         PageShape', mcpPage'.state \in {"loading", "ready", "error"},
         mcpPage'.selected \in Hosts \cup {NoHost},
         pending' = [x \in Pending |-> pending'[x]],
         \A x \in Pending : CallFits(pending'[x]),
         \A x \in Pending : pending'[x].kind = "servers" /\ pending'[x].phase = "answered" =>
              DOMAIN pending'[x].answer \subseteq Hosts
  PROVE  McpTypes'
BY DEF McpTypes, McpTypeOK

LEMMA SelectHostTypes ==
  ASSUME McpInv, NEW h \in Hosts, SelectHost(h) PROVE McpTypes'
<1>1. CASE mcpPage.selected = h
  BY <1>1, TypesAgain DEF SelectHost, McpInv, McpTypes, McpTypeOK, PageShape
<1>2. CASE mcpPage.selected # h
  <2>1. mcpPage' = [mcpPage EXCEPT !.selected = h, !.marked = {}, !.error = FALSE] /\ Start(LoadTools(h))
    BY <1>2 DEF SelectHost
  <2>2. CallFits(Sent(LoadTools(h)))
    BY SentFits DEF LoadTools, UpdateKinds
  <2>3. PageShape' /\ mcpPage'.state \in {"loading", "ready", "error"} /\ mcpPage'.selected \in Hosts \cup {NoHost}
    BY <2>1 DEF McpInv, McpTypes, McpTypeOK, PageShape
  <2> QED BY <2>1, <2>2, <2>3, StartTypes, TypesAgain DEF McpInv, McpTypes, McpTypeOK
<1> QED BY <1>1, <1>2

LEMMA PageOnlyTypes ==
  ASSUME McpInv, NEW t, ToggleToolSelection(t) PROVE McpTypes'
<1>1. PageShape' /\ mcpPage'.state \in {"loading", "ready", "error"} /\ mcpPage'.selected \in Hosts \cup {NoHost}
  BY DEF ToggleToolSelection, McpInv, McpTypes, McpTypeOK, PageShape
<1> QED BY <1>1, TypesAgain DEF ToggleToolSelection, McpInv, McpTypes, McpTypeOK

LEMMA HandleUpdateTypes ==
  ASSUME McpInv, NEW t, HandleUpdate(t) PROVE McpTypes'
<1> DEFINE call == [kind |-> "update", host |-> mcpPage.selected, tools |-> {t},
            approved |-> ~mcpPage.tools[t], before |-> mcpPage.tools]
<1>1. Start(call) /\ mcpPage' = mcpPage /\ mcpPage.selected \in Hosts
  BY DEF HandleUpdate, ToolsAreShown, McpInv, McpTypes, McpTypeOK
<1>2. CallFits(Sent(call))
  BY <1>1, SentFits DEF UpdateKinds
<1> HIDE DEF call
<1> QED BY <1>1, <1>2, StartTypes, PageKeepsShape, TypesAgain DEF McpInv, McpTypes, McpTypeOK

LEMMA HandleBulkTypes ==
  ASSUME McpInv, HandleBulkApprove PROVE McpTypes'
<1> DEFINE call == [kind |-> "bulk", host |-> mcpPage.selected,
             tools |-> {t \in DOMAIN mcpPage.tools : ~mcpPage.tools[t] /\ t \in mcpPage.marked},
             approved |-> TRUE, before |-> mcpPage.tools]
<1>1. /\ Start(call) /\ mcpPage' = [mcpPage EXCEPT !.bulkBusy = TRUE, !.error = FALSE]
      /\ mcpPage.selected \in Hosts
  BY DEF HandleBulkApprove, ToolsAreShown, McpInv, McpTypes, McpTypeOK
<1>2. CallFits(Sent(call))
  BY <1>1, SentFits DEF UpdateKinds
<1> HIDE DEF call
<1>3. PageShape' /\ mcpPage'.state \in {"loading", "ready", "error"} /\ mcpPage'.selected \in Hosts \cup {NoHost}
  BY <1>1 DEF McpInv, McpTypes, McpTypeOK, PageShape
<1> QED BY <1>1, <1>2, <1>3, StartTypes, TypesAgain DEF McpInv, McpTypes, McpTypeOK

LEMMA HandleServerTypes ==
  ASSUME McpInv, NEW h \in Hosts, NEW kind \in {"discover", "delete", "toggle"}, HandleServer(kind, h)
  PROVE  McpTypes'
<1> DEFINE call == [kind |-> kind, host |-> h, selected |-> kind = "delete" /\ h = mcpPage.selected]
<1>1. Start(call) /\ mcpPage' = mcpPage
  BY DEF HandleServer
<1>2. CallFits(Sent(call))
  BY SentFits DEF ServerKinds, UpdateKinds
<1> HIDE DEF call
<1> QED BY <1>1, <1>2, StartTypes, PageKeepsShape, TypesAgain DEF McpInv, McpTypes, McpTypeOK

LEMMA HandleAddTypes ==
  ASSUME McpInv, NEW h \in Hosts, HandleAddServer(h) PROVE McpTypes'
<1> DEFINE call == [kind |-> "add", host |-> h]
<1>1. Start(call) /\ mcpPage' = mcpPage
  BY DEF HandleAddServer
<1>2. CallFits(Sent(call))
  BY SentFits DEF ServerKinds, UpdateKinds
<1> HIDE DEF call
<1> QED BY <1>1, <1>2, StartTypes, PageKeepsShape, TypesAgain DEF McpInv, McpTypes, McpTypeOK

LEMMA RetryTypes == ASSUME McpInv, RetryServers PROVE McpTypes'
<1>1. Start(LoadServers(NoHost)) /\ mcpPage' = [mcpPage EXCEPT !.state = "loading"]
  BY DEF RetryServers
<1>2. CallFits(Sent(LoadServers(NoHost)))
  BY SentFits DEF LoadServers, UpdateKinds
<1>3. PageShape' /\ mcpPage'.state \in {"loading", "ready", "error"} /\ mcpPage'.selected \in Hosts \cup {NoHost}
  BY <1>1 DEF McpInv, McpTypes, McpTypeOK, PageShape
<1> QED BY <1>1, <1>2, <1>3, StartTypes, TypesAgain DEF McpInv, McpTypes, McpTypeOK

LEMMA ServeTypes ==
  ASSUME McpInv, NEW x \in Pending, Serve(x)
  PROVE  /\ McpTypes'
         /\ mcpPage' = mcpPage /\ disturbed' = disturbed
         /\ pending[x] # Free /\ pending[x].phase = "sent"
         /\ \E answer : pending' = [y \in Pending |-> IF y = x
              THEN [kind |-> pending[x].kind, call |-> pending[x].call, phase |-> "answered",
                    answer |-> answer] ELSE pending[y]]
<1> DEFINE call == pending[x].call
<1>1. /\ pending[x] # Free /\ pending[x].phase = "sent" /\ mcpPage' = mcpPage /\ disturbed' = disturbed
      /\ CallFits(pending[x]) /\ call.kind = pending[x].kind
      /\ call.kind # "servers" => call.host \in Hosts
  BY DEF Serve, McpInv, McpTypes, CallFits
<1>2. \E answer : /\ Answer(x, answer)
                  /\ call.kind = "servers" => DOMAIN answer = hosts
  BY DEF Serve, HostRows
<1>3. PICK answer : /\ Answer(x, answer)
                    /\ call.kind = "servers" => DOMAIN answer = hosts
  BY <1>2
<1>4. pending' = [y \in Pending |-> IF y = x
              THEN [kind |-> pending[x].kind, call |-> pending[x].call, phase |-> "answered",
                    answer |-> answer] ELSE pending[y]]
  BY <1>3 DEF Answer, McpInv, McpTypes
<1>5. hosts' \subseteq Hosts /\ approvals' \in [DOMAIN HostOf -> BOOLEAN]
  <2>1. hosts \subseteq Hosts /\ approvals \in [DOMAIN HostOf -> BOOLEAN]
    BY DEF McpInv, McpTypes, McpTypeOK
  <2>2. CASE approvals' = approvals
    <3>1. \/ hosts' = hosts \/ hosts' = hosts \ {call.host}
          \/ hosts' = hosts \cup {call.host} /\ call.kind = "add"
      BY <2>2 DEF Serve
    <3>2. call.kind = "add" => call.host \in Hosts
      BY <1>1
    <3> HIDE DEF call
    <3> QED BY <3>1, <3>2, <2>1, <2>2
  <2>3. CASE approvals' # approvals
    <3>1. hosts' = hosts \/ hosts' = hosts \ {call.host}
      BY <2>3 DEF Serve
    <3>2. \/ \E found : approvals' = [t \in DOMAIN HostOf |-> IF t \in found THEN call.approved ELSE approvals[t]]
             /\ call.kind \in UpdateKinds
          \/ \E changed : approvals' = [t \in DOMAIN HostOf |-> approvals[t] /\ t \notin changed]
          \/ approvals' = [t \in DOMAIN HostOf |-> approvals[t] /\ HostOf[t] # call.host]
      BY <2>3 DEF Serve, UpdateKinds
    <3>3. call.kind \in UpdateKinds => call.approved \in BOOLEAN
      BY <1>1 DEF CallFits
    <3> HIDE DEF call
    <3> QED BY <3>1, <3>2, <3>3, <2>1
  <2> QED BY <2>2, <2>3
<1>6. \A y \in Pending : CallFits(pending'[y])
  <2>1. CallFits(pending'[x])
    BY <1>1, <1>4 DEF CallFits
  <2> QED BY <2>1, <1>4 DEF McpInv, McpTypes
<1>7. \A y \in Pending : pending'[y].kind = "servers" /\ pending'[y].phase = "answered" =>
              DOMAIN pending'[y].answer \subseteq Hosts
  BY <1>1, <1>3, <1>4 DEF McpInv, McpTypes, McpTypeOK
<1>8. pending' = [y \in Pending |-> pending'[y]]
  BY <1>4
<1> HIDE DEF call
<1> QED BY <1>1, <1>4, <1>5, <1>6, <1>7, <1>8, PageKeepsShape, TypesAgain DEF McpInv, McpTypes, McpTypeOK

LEMMA FinishTypes ==
  ASSUME McpInv, NEW x \in Pending, Finish(x)
  PROVE  /\ pending' = [y \in Pending |-> IF y = x THEN Free ELSE pending[y]]
         /\ \A y \in Pending : CallFits(pending'[y])
         /\ \A y \in Pending : pending'[y].kind = "servers" /\ pending'[y].phase = "answered" =>
              DOMAIN pending'[y].answer \subseteq Hosts
<1>1. pending' = [y \in Pending |-> IF y = x THEN Free ELSE pending[y]]
  BY DEF Finish, McpInv, McpTypes
<1>2. CallFits(Free) /\ Free.kind = "free"
  BY DEF CallFits, Free
<1> QED BY <1>1, <1>2 DEF McpInv, McpTypes

LEMMA GoOnTypes ==
  ASSUME McpInv, NEW x \in Pending, NEW call, GoOn(x, call), CallFits(Sent(call))
  PROVE  /\ pending' = [y \in Pending |-> IF y = x THEN Sent(call) ELSE pending[y]]
         /\ \A y \in Pending : CallFits(pending'[y])
         /\ \A y \in Pending : pending'[y].kind = "servers" /\ pending'[y].phase = "answered" =>
              DOMAIN pending'[y].answer \subseteq Hosts
<1>1. pending' = [y \in Pending |-> IF y = x THEN Sent(call) ELSE pending[y]]
  BY DEF GoOn, McpInv, McpTypes
<1>2. Sent(call).phase = "sent"
  BY DEF Sent
<1> QED BY <1>1, <1>2 DEF McpInv, McpTypes

LEMMA GoOnTwiceTypes ==
  ASSUME McpInv, NEW x \in Pending, pending[x] # Free, NEW one, NEW two, GoOnTwice(x, one, two),
         CallFits(Sent(one)), CallFits(Sent(two))
  PROVE  \E z \in Pending \ {x} :
         /\ pending[z] = Free
         /\ pending' = [y \in Pending |-> IF y = x THEN Sent(one) ELSE IF y = z THEN Sent(two) ELSE pending[y]]
         /\ \A y \in Pending : CallFits(pending'[y])
         /\ \A y \in Pending : pending'[y].kind = "servers" /\ pending'[y].phase = "answered" =>
              DOMAIN pending'[y].answer \subseteq Hosts
<1> DEFINE z == CHOOSE y \in FreeSlots : TRUE
<1>0. z \in FreeSlots
  BY DEF GoOnTwice
<1>1. z \in Pending \ {x} /\ pending[z] = Free
  BY <1>0 DEF FreeSlots
<1>2. pending = [y \in Pending |-> pending[y]]
  BY DEF McpInv, McpTypes
<1>3. pending' = [pending EXCEPT ![x] = Sent(one), ![z] = Sent(two)]
  BY DEF GoOnTwice
<1> HIDE DEF z
<1>4. pending' = [y \in Pending |-> IF y = x THEN Sent(one) ELSE IF y = z THEN Sent(two) ELSE pending[y]]
  BY <1>1, <1>2, <1>3
<1>5. Sent(one).phase = "sent" /\ Sent(two).phase = "sent"
  BY DEF Sent
<1> QED BY <1>1, <1>4, <1>5 DEF McpInv, McpTypes

\* The steps that show an answer, or that there is none.
Answers(x) ==
  \/ ShowServers(x) \/ ShowTools(x) \/ ShowUpdate(x) \/ ShowBulk(x) \/ CallFails(x)
  \/ AfterDiscover(x) \/ AfterDelete(x) \/ AfterToggle(x) \/ AfterAdd(x)

LEMMA LoadsFit ==
  /\ CallFits(Sent(LoadServers(NoHost)))
  /\ \A h \in Hosts : CallFits(Sent(LoadServers(h))) /\ CallFits(Sent(LoadTools(h)))
<1>1. LoadServers(NoHost).kind = "servers" /\ LoadServers(NoHost).select = NoHost
  BY DEF LoadServers
<1>2. ASSUME NEW h \in Hosts
      PROVE  /\ LoadServers(h).kind = "servers" /\ LoadServers(h).select = h
             /\ LoadTools(h).kind = "tools" /\ LoadTools(h).host = h
  BY DEF LoadServers, LoadTools
<1> QED BY <1>1, <1>2, SentFits DEF UpdateKinds

\* What mergeMcpToolUpdates() makes of each part of the page.
MergedTools(updated, approved) ==
  [t \in DOMAIN mcpPage.tools |-> IF t \in updated THEN approved ELSE mcpPage.tools[t]]
MergedServers(updated, approved, before) ==
  [h \in DOMAIN mcpPage.servers |->
     LET n == Cardinality({t \in CountedUpdates(before, updated, approved) : HostOf[t] = h})
     IN  IF approved THEN mcpPage.servers[h] + n
         ELSE IF mcpPage.servers[h] < n THEN 0 ELSE mcpPage.servers[h] - n]
MergedMarks(updated, approved) == IF approved THEN mcpPage.marked \ updated ELSE mcpPage.marked

LEMMA MergedPage ==
  ASSUME NEW updated, NEW approved, NEW before
  PROVE  /\ MergeUpdates(mcpPage, updated, approved, before) =
              [mcpPage EXCEPT !.tools = MergedTools(updated, approved),
                              !.servers = MergedServers(updated, approved, before),
                              !.marked = MergedMarks(updated, approved)]
         /\ DOMAIN MergedServers(updated, approved, before) = DOMAIN mcpPage.servers
BY DEF MergeUpdates, MergedTools, MergedServers, MergedMarks

LEMMA AnswersTypes ==
  ASSUME McpInv, NEW x \in Pending, Answers(x) PROVE McpTypes'
<1>0. /\ hosts' = hosts /\ approvals' = approvals
      /\ hosts' \subseteq Hosts /\ approvals' \in [DOMAIN HostOf -> BOOLEAN]
  BY DEF Answers, ShowServers, ShowTools, ShowUpdate, ShowBulk, CallFails, AfterDiscover, AfterDelete,
         AfterToggle, AfterAdd, McpInv, McpTypes, McpTypeOK
<1>1. pending[x] # Free /\ CallFits(pending[x])
  BY DEF Answers, ShowServers, ShowTools, ShowUpdate, ShowBulk, CallFails, AfterDiscover, AfterDelete,
         AfterToggle, AfterAdd, Arrived, Free, McpInv, McpTypes
<1>2. /\ pending[x].kind = "servers" => pending[x].call.select \in Hosts \cup {NoHost}
      /\ pending[x].kind # "servers" => pending[x].call.host \in Hosts
  BY <1>1 DEF CallFits
<1>3. mcpPage.state \in {"loading", "ready", "error"} /\ mcpPage.selected \in Hosts \cup {NoHost}
  BY DEF McpInv, McpTypes, McpTypeOK
<1>4. disturbed' \in BOOLEAN
  BY DEF Answers, ShowServers, ShowTools, ShowUpdate, ShowBulk, CallFails, AfterDiscover, AfterDelete,
         AfterToggle, AfterAdd, McpInv, McpTypes, McpTypeOK
<1>5. PageShape
  BY DEF McpInv, McpTypes
<1> DEFINE PageIs(p) == /\ mcpPage' = p /\ PageShape'
                        /\ mcpPage'.state \in {"loading", "ready", "error"}
                        /\ mcpPage'.selected \in Hosts \cup {NoHost}
<1>a. CASE ShowServers(x)
  <2>1. DOMAIN pending[x].answer \subseteq Hosts
    BY <1>a DEF ShowServers, Arrived, McpInv, McpTypes
  <2>2. pending[x].call.select \in Hosts \cup {NoHost}
    BY <1>2, <1>a DEF ShowServers, Arrived
  <2>3. CASE pending[x].call.select \in {NoHost, mcpPage.selected}
    <3>1. mcpPage' = [mcpPage EXCEPT !.state = "ready", !.servers = pending[x].answer] /\ Finish(x)
      BY <1>a, <2>3 DEF ShowServers
    <3>2. PageShape' /\ mcpPage'.state = "ready" /\ mcpPage'.selected = mcpPage.selected
      BY <3>1, <2>1, <1>5 DEF PageShape
    <3> QED BY <1>0, <1>3, <1>4, <3>1, <3>2, FinishTypes, TypesAgain
  <2>4. CASE pending[x].call.select \notin {NoHost, mcpPage.selected}
    <3>1. /\ mcpPage' = [[mcpPage EXCEPT !.state = "ready", !.servers = pending[x].answer]
               EXCEPT !.selected = pending[x].call.select, !.marked = {}, !.error = FALSE]
          /\ GoOn(x, LoadTools(pending[x].call.select))
      BY <1>a, <2>4 DEF ShowServers
    <3>2. PageShape' /\ mcpPage'.state = "ready" /\ mcpPage'.selected = pending[x].call.select
      BY <3>1, <2>1, <1>5 DEF PageShape
    <3> QED BY <1>0, <1>3, <1>4, <2>2, <2>4, <3>1, <3>2, LoadsFit, GoOnTypes, TypesAgain
  <2> QED BY <2>3, <2>4
<1>b. CASE ShowTools(x)
  <2>1. mcpPage' = [mcpPage EXCEPT !.tools = pending[x].answer] /\ Finish(x)
    BY <1>b DEF ShowTools
  <2>2. PageShape' /\ mcpPage'.state = mcpPage.state /\ mcpPage'.selected = mcpPage.selected
    BY <2>1, <1>5 DEF PageShape
  <2> QED BY <1>0, <1>3, <1>4, <2>1, <2>2, FinishTypes, TypesAgain
<1>d. CASE ShowUpdate(x)
  <2> DEFINE T == MergedTools(pending[x].answer, pending[x].call.approved)
             S == MergedServers(pending[x].answer, pending[x].call.approved, pending[x].call.before)
             M == MergedMarks(pending[x].answer, pending[x].call.approved)
             merged == MergeUpdates(mcpPage, pending[x].answer, pending[x].call.approved, pending[x].call.before)
  <2>1. mcpPage' = merged /\ Finish(x)
    BY <1>d DEF ShowUpdate
  <2>2. merged = [mcpPage EXCEPT !.tools = T, !.servers = S, !.marked = M] /\ DOMAIN S = DOMAIN mcpPage.servers
    BY MergedPage
  <2> HIDE DEF T, S, M, merged
  <2>3. PageShape' /\ mcpPage'.state = mcpPage.state /\ mcpPage'.selected = mcpPage.selected
    BY <2>1, <2>2, <1>5 DEF PageShape
  <2> QED BY <1>0, <1>3, <1>4, <2>1, <2>3, FinishTypes, TypesAgain
<1>e. CASE ShowBulk(x)
  <2> DEFINE T == MergedTools(pending[x].answer, TRUE)
             S == MergedServers(pending[x].answer, TRUE, pending[x].call.before)
             M == MergedMarks(pending[x].answer, TRUE)
             merged == MergeUpdates(mcpPage, pending[x].answer, TRUE, pending[x].call.before)
  <2>1. mcpPage' = [merged EXCEPT !.bulkBusy = FALSE,
                                          !.error = @ \/ pending[x].answer # pending[x].call.tools] /\ Finish(x)
    BY <1>e DEF ShowBulk
  <2>2. merged = [mcpPage EXCEPT !.tools = T, !.servers = S, !.marked = M] /\ DOMAIN S = DOMAIN mcpPage.servers
    BY MergedPage
  <2> HIDE DEF T, S, M, merged
  <2>3. PageShape' /\ mcpPage'.state = mcpPage.state /\ mcpPage'.selected = mcpPage.selected
    BY <2>1, <2>2, <1>5 DEF PageShape
  <2> QED BY <1>0, <1>3, <1>4, <2>1, <2>3, FinishTypes, TypesAgain
<1>f. CASE CallFails(x)
  <2>1. /\ mcpPage' = [mcpPage EXCEPT
           !.state = IF pending[x].kind = "servers" THEN "error" ELSE @,
           !.error = @ \/ pending[x].kind \in {"tools", "discover", "bulk"},
           !.bulkBusy = @ /\ pending[x].kind # "bulk"]
        /\ Finish(x)
    BY <1>f DEF CallFails
  <2>2. PageShape' /\ mcpPage'.state \in {mcpPage.state, "error"} /\ mcpPage'.selected = mcpPage.selected
    BY <2>1, <1>5 DEF PageShape
  <2> QED BY <1>0, <1>3, <1>4, <2>1, <2>2, FinishTypes, TypesAgain
<1>g. CASE AfterDiscover(x)
  <2>1. /\ mcpPage' = [[mcpPage EXCEPT !.state = "loading"] EXCEPT !.error = FALSE]
        /\ GoOnTwice(x, LoadServers(NoHost), LoadTools(pending[x].call.host))
        /\ pending[x].call.host \in Hosts
    BY <1>g, <1>2 DEF AfterDiscover, Reloading, Arrived
  <2>2. PageShape' /\ mcpPage'.state = "loading" /\ mcpPage'.selected = mcpPage.selected
    BY <2>1, <1>5 DEF PageShape
  <2>3. /\ \A y \in Pending : CallFits(pending'[y])
        /\ \A y \in Pending : pending'[y].kind = "servers" /\ pending'[y].phase = "answered" =>
              DOMAIN pending'[y].answer \subseteq Hosts
        /\ pending' = [y \in Pending |-> pending'[y]]
    BY <2>1, <1>1, LoadsFit, GoOnTwiceTypes
  <2> QED BY <1>0, <1>3, <1>4, <2>2, <2>3, TypesAgain
<1>h. CASE AfterDelete(x)
  <2>1. /\ \/ mcpPage' = [mcpPage EXCEPT !.state = "loading"]
           \/ mcpPage' = [[mcpPage EXCEPT !.state = "loading"] EXCEPT
                            !.selected = NoHost, !.marked = {}, !.tools = NoRowsAtAll]
        /\ GoOn(x, LoadServers(NoHost))
    BY <1>h DEF AfterDelete, Reloading
  <2>2. PageShape' /\ mcpPage'.state = "loading" /\ mcpPage'.selected \in {mcpPage.selected, NoHost}
    BY <2>1, <1>5 DEF PageShape
  <2> QED BY <1>0, <1>3, <1>4, <2>1, <2>2, LoadsFit, GoOnTypes, TypesAgain
<1>i. CASE AfterToggle(x) \/ AfterAdd(x)
  <2>1. /\ mcpPage' = [mcpPage EXCEPT !.state = "loading"]
        /\ \/ GoOn(x, LoadServers(NoHost))
           \/ pending[x].kind # "servers" /\ GoOn(x, LoadServers(pending[x].call.host))
    BY <1>i DEF AfterToggle, AfterAdd, Arrived, Reloading
  <2>2. PageShape' /\ mcpPage'.state = "loading" /\ mcpPage'.selected = mcpPage.selected
    BY <2>1, <1>5 DEF PageShape
  <2> QED BY <1>0, <1>2, <1>3, <1>4, <2>1, <2>2, LoadsFit, GoOnTypes, TypesAgain
<1> QED BY <1>a, <1>b, <1>d, <1>e, <1>f, <1>g, <1>h, <1>i DEF Answers

LEMMA OthersTypes ==
  ASSUME McpInv, (\E t : ApproveElsewhere(t)) \/ OpenMcpPage
  PROVE  McpTypes'
<1>1. CASE \E t : ApproveElsewhere(t)
  <2>1. PICK t : ApproveElsewhere(t)
    BY <1>1
  <2>2. approvals' \in [DOMAIN HostOf -> BOOLEAN]
    BY <2>1 DEF ApproveElsewhere, McpInv, McpTypes, McpTypeOK
  <2> QED BY <2>1, <2>2, PageKeepsShape, TypesAgain DEF ApproveElsewhere, McpInv, McpTypes, McpTypeOK
<1>2. CASE OpenMcpPage
  <2> DEFINE z == CHOOSE x \in Pending : TRUE
  <2>1. mcpPage' = FreshPage /\ pending' = [pending EXCEPT ![z] = Sent(LoadServers(NoHost))]
        /\ disturbed' = FALSE /\ hosts' = hosts /\ approvals' = approvals
    BY <1>2 DEF OpenMcpPage
  <2>2. pending = [x \in Pending |-> pending[x]] /\ Sent(LoadServers(NoHost)).phase = "sent"
    BY DEF McpInv, McpTypes, Sent
  <2>3. pending' = [x \in Pending |-> IF x = z THEN Sent(LoadServers(NoHost)) ELSE pending[x]]
    <3> HIDE DEF z
    <3> QED BY <2>1, <2>2
  <2>4. PageShape' /\ mcpPage'.state = "loading" /\ mcpPage'.selected = NoHost
    BY <2>1 DEF FreshPage, PageShape
  <2> HIDE DEF z
  <2>5. /\ \A y \in Pending : CallFits(pending'[y])
        /\ \A y \in Pending : pending'[y].kind = "servers" /\ pending'[y].phase = "answered" =>
              DOMAIN pending'[y].answer \subseteq Hosts
    BY <2>2, <2>3, LoadsFit DEF McpInv, McpTypes
  <2> QED BY <2>1, <2>3, <2>4, <2>5, TypesAgain DEF McpInv, McpTypes, McpTypeOK
<1> QED BY <1>1, <1>2

\* A call other than a list is under way alone.
LEMMA OnlyThisCall ==
  ASSUME McpInv, ~disturbed, NEW x \in Pending, pending[x].kind \in ServerKinds \cup UpdateKinds
  PROVE  \A y \in Pending : y # x => pending[y] = Free
<1>1. OnlyCall
  BY DEF McpInv, McpUndisturbed
<1>2. pending[x].kind # "free" /\ pending[x] # Free /\ pending[x].kind \notin {"servers", "tools"}
  BY DEF Free, ServerKinds, UpdateKinds
<1> QED BY <1>1, <1>2 DEF OnlyCall

LEMMA RowsStay ==
  ASSUME hosts' = hosts, approvals' = approvals
  PROVE  HostRows' = HostRows /\ \A h : ToolRows(h)' = ToolRows(h)
BY DEF HostRows, ToolRows, ToolsOf

\* The fields the invariant reads stay, but that a server may be let go.
LEMMA OnlyMarks ==
  ASSUME McpInv, McpUndisturbed, hosts' = hosts, approvals' = approvals, pending' = pending,
         mcpPage'.state = mcpPage.state, mcpPage'.servers = mcpPage.servers,
         mcpPage'.tools = mcpPage.tools, mcpPage'.selected \in {mcpPage.selected, NoHost}
  PROVE  McpUndisturbed'
<1>1. HostRows' = HostRows /\ \A h : ToolRows(h)' = ToolRows(h)
  BY RowsStay
<1>2. OnlyCall'
  BY DEF McpUndisturbed, OnlyCall
<1>3. ServersAreCurrent'
  BY <1>1 DEF McpUndisturbed, ServersAreCurrent, Answered
<1>4. ToolsAreCurrent'
  BY <1>1 DEF McpUndisturbed, ToolsAreCurrent, Answered
<1>5. ASSUME NEW x \in Pending, NEW p \in {pending'[x]} PROVE PendingFits(p)'
  <2>1. PendingFits(p)
    BY DEF McpUndisturbed
  <2>2. UpdateFits(p) => UpdateFits(p)'
    BY <1>1 DEF UpdateFits, CountsBefore, ToolsOf
  <2> QED BY <1>1, <2>1, <2>2 DEF PendingFits, Answered
<1> QED BY <1>2, <1>3, <1>4, <1>5 DEF McpUndisturbed

\* Nothing was under way, and one call begins.
LEMMA OneCallBegins ==
  ASSUME NEW s \in Pending, NEW call,
         pending' = [x \in Pending |-> IF x = s THEN Sent(call) ELSE Free],
         \A p \in {Sent(call)} : PendingFits(p)'
  PROVE  OnlyCall' /\ \A x \in Pending : \A p \in {pending'[x]} : PendingFits(p)'
<1>1. \A x, y \in Pending : x # y => pending'[x] = Free \/ pending'[y] = Free
  OBVIOUS
<1>2. OnlyCall'
  BY <1>1 DEF OnlyCall
<1>3. ASSUME NEW x \in Pending, NEW p \in {pending'[x]} PROVE PendingFits(p)'
  <2>1. CASE x = s
    BY <2>1
  <2>2. CASE x # s
    <3>1. p.kind = "free"
      BY <2>2 DEF Free
    <3> QED BY <3>1 DEF PendingFits, Answered, UpdateKinds
  <2> QED BY <2>1, <2>2
<1> QED BY <1>2, <1>3

\* A quiet page on which a call begins.
LEMMA QuietStart ==
  ASSUME McpInv, NEW call, Start(call), ~disturbed'
  PROVE  /\ ~disturbed /\ hosts' = hosts /\ approvals' = approvals
         /\ mcpPage.state = "ready" => mcpPage.servers = HostRows
         /\ mcpPage.selected # NoHost =>
              mcpPage.selected \in hosts /\ mcpPage.tools = ToolRows(mcpPage.selected)
         /\ \E s \in Pending : pending' = [x \in Pending |-> IF x = s THEN Sent(call) ELSE Free]
<1>1. PICK s \in Pending :
           /\ pending[s] = Free
           /\ pending' = [x \in Pending |-> IF x = s THEN Sent(call) ELSE pending[x]]
           /\ ~disturbed' => ~disturbed /\ Quiescent
           /\ hosts' = hosts /\ approvals' = approvals
  BY Starting
<1>2. pending' = [x \in Pending |-> IF x = s THEN Sent(call) ELSE Free]
  BY <1>1 DEF Quiescent
<1> QED BY <1>1, <1>2, QuietPage

LEMMA SelectHostKeeps ==
  ASSUME McpInv, NEW h \in Hosts, SelectHost(h), ~disturbed' PROVE McpUndisturbed'
<1>0. PageShape
  BY DEF McpInv, McpTypes
<1>1. CASE mcpPage.selected = h
  <2>1. /\ mcpPage' = [mcpPage EXCEPT !.selected = NoHost, !.marked = {}]
        /\ hosts' = hosts /\ approvals' = approvals /\ pending' = pending /\ disturbed' = disturbed
    BY <1>1 DEF SelectHost
  <2>2. /\ mcpPage'.state = mcpPage.state /\ mcpPage'.servers = mcpPage.servers
        /\ mcpPage'.tools = mcpPage.tools /\ mcpPage'.selected = NoHost
    BY <2>1, <1>0 DEF PageShape
  <2> QED BY <2>1, <2>2, OnlyMarks DEF McpInv
<1>2. CASE mcpPage.selected # h
  <2>1. /\ mcpPage' = [mcpPage EXCEPT !.selected = h, !.marked = {}, !.error = FALSE]
        /\ mcpPage.state = "ready" /\ h \in DOMAIN mcpPage.servers /\ Start(LoadTools(h))
    BY <1>2 DEF SelectHost
  <2>2. /\ mcpPage'.state = mcpPage.state /\ mcpPage'.servers = mcpPage.servers
        /\ mcpPage'.tools = mcpPage.tools /\ mcpPage'.selected = h
    BY <2>1, <1>0 DEF PageShape
  <2>3. /\ hosts' = hosts /\ approvals' = approvals /\ mcpPage.servers = HostRows
        /\ \E s \in Pending : pending' = [x \in Pending |-> IF x = s THEN Sent(LoadTools(h)) ELSE Free]
    BY <2>1, QuietStart
  <2>4. PICK s \in Pending : pending' = [x \in Pending |-> IF x = s THEN Sent(LoadTools(h)) ELSE Free]
    BY <2>3
  <2>5. h \in hosts
    BY <2>1, <2>3 DEF HostRows
  <2>6. \A p \in {Sent(LoadTools(h))} : PendingFits(p)'
    BY <2>2 DEF PendingFits, Sent, LoadTools, Answered, UpdateKinds
  <2>7. ServersAreCurrent'
    BY <2>2, <2>3, RowsStay DEF ServersAreCurrent
  <2>8. pending'[s].kind = "tools"
    BY <2>4 DEF Sent, LoadTools
  <2>9. ToolsAreCurrent'
    BY <2>2, <2>3, <2>5, <2>8 DEF ToolsAreCurrent
  <2> QED BY <2>4, <2>6, <2>7, <2>9, OneCallBegins DEF McpUndisturbed
<1> QED BY <1>1, <1>2

\* A call that begins and leaves what is shown alone, but that the list may be hidden.
LEMMA QuietStartKeeps ==
  ASSUME McpInv, NEW call, Start(call), ~disturbed', \A p \in {Sent(call)} : PendingFits(p)',
         mcpPage'.state \in {mcpPage.state, "loading"}, mcpPage'.servers = mcpPage.servers,
         mcpPage'.tools = mcpPage.tools, mcpPage'.selected = mcpPage.selected
  PROVE  McpUndisturbed'
<1>1. PICK s \in Pending : pending' = [x \in Pending |-> IF x = s THEN Sent(call) ELSE Free]
  BY QuietStart
<1>2. ServersAreCurrent'
  BY QuietStart, RowsStay DEF ServersAreCurrent
<1>3. ToolsAreCurrent'
  BY QuietStart, RowsStay DEF ToolsAreCurrent
<1> QED BY <1>1, <1>2, <1>3, OneCallBegins DEF McpUndisturbed

LEMMA UpdateBegins ==
  ASSUME McpInv, NEW kind \in UpdateKinds, NEW tools, NEW approved \in BOOLEAN,
         tools \subseteq DOMAIN mcpPage.tools, ToolsAreShown, kind = "bulk" => approved,
         Start([kind |-> kind, host |-> mcpPage.selected, tools |-> tools,
                approved |-> approved, before |-> mcpPage.tools]),
         ~disturbed', mcpPage'.state = mcpPage.state, mcpPage'.servers = mcpPage.servers,
         mcpPage'.tools = mcpPage.tools, mcpPage'.selected = mcpPage.selected
  PROVE  McpUndisturbed'
<1>a. PICK h, call :
        /\ h = mcpPage.selected
        /\ call = [kind |-> kind, host |-> mcpPage.selected, tools |-> tools,
                    approved |-> approved, before |-> mcpPage.tools]
  OBVIOUS
<1>1. /\ Start(call) /\ h = mcpPage.selected
      /\ call.kind = kind /\ call.host = h /\ call.tools = tools
      /\ call.approved = approved /\ call.before = mcpPage.tools
  BY <1>a
<1>2. /\ h \in hosts /\ mcpPage.tools = ToolRows(h)
      /\ hosts' = hosts /\ approvals' = approvals
  BY <1>1, QuietStart DEF ToolsAreShown
<1>3. DOMAIN mcpPage.tools = ToolsOf(h) /\ \A t \in ToolsOf(h) : mcpPage.tools[t] \in BOOLEAN
  BY <1>2 DEF ToolRows, ToolsOf, McpInv, McpTypes, McpTypeOK
<1>4. Sent(call).kind = kind /\ Sent(call).call = call /\ Sent(call).phase = "sent"
  BY <1>1 DEF Sent
<1>5. \A p \in {Sent(call)} : UpdateFits(p)'
  BY <1>1, <1>2, <1>3, <1>4, RowsStay DEF UpdateFits, ToolsOf
<1>6. \A p \in {Sent(call)} : PendingFits(p)'
  BY <1>4, <1>5 DEF PendingFits, Answered, UpdateKinds
<1> QED BY <1>1, <1>6, QuietStartKeeps

LEMMA HandleUpdateKeeps ==
  ASSUME McpInv, NEW t, HandleUpdate(t), ~disturbed' PROVE McpUndisturbed'
<1>1. PICK approved \in BOOLEAN :
        Start([kind |-> "update", host |-> mcpPage.selected, tools |-> {t},
               approved |-> approved, before |-> mcpPage.tools])
  BY DEF HandleUpdate
<1>2. t \in DOMAIN mcpPage.tools /\ ToolsAreShown /\ mcpPage' = mcpPage
  BY DEF HandleUpdate
<1> QED BY <1>1, <1>2, UpdateBegins DEF UpdateKinds

LEMMA HandleBulkKeeps ==
  ASSUME McpInv, HandleBulkApprove, ~disturbed' PROVE McpUndisturbed'
<1>1. PICK tools \in SUBSET DOMAIN mcpPage.tools :
        Start([kind |-> "bulk", host |-> mcpPage.selected, tools |-> tools,
               approved |-> TRUE, before |-> mcpPage.tools])
  BY DEF HandleBulkApprove
<1>2. ToolsAreShown /\ mcpPage' = [mcpPage EXCEPT !.bulkBusy = TRUE, !.error = FALSE]
  BY DEF HandleBulkApprove
<1>3. /\ mcpPage'.state = mcpPage.state /\ mcpPage'.servers = mcpPage.servers
      /\ mcpPage'.tools = mcpPage.tools /\ mcpPage'.selected = mcpPage.selected
  BY <1>2 DEF McpInv, McpTypes, PageShape
<1> QED BY <1>1, <1>2, <1>3, UpdateBegins DEF UpdateKinds

LEMMA HandleServerKeeps ==
  ASSUME McpInv, NEW h \in Hosts, NEW kind \in {"discover", "delete", "toggle"}, HandleServer(kind, h),
         ~disturbed'
  PROVE  McpUndisturbed'
<1>1. PICK call : /\ call = [kind |-> kind, host |-> h, selected |-> kind = "delete" /\ h = mcpPage.selected]
                  /\ Start(call) /\ mcpPage' = mcpPage
  BY DEF HandleServer
<1>2. call.kind = kind /\ call.host = h /\ (kind = "delete" => (call.selected <=> h = mcpPage'.selected))
  <2>1. CASE kind = "delete"
    BY <1>1, <2>1
  <2>2. CASE kind # "delete"
    BY <1>1, <2>2
  <2> QED BY <2>1, <2>2
<1>3. Sent(call).kind = kind /\ Sent(call).call = call /\ Sent(call).phase = "sent"
  BY <1>2 DEF Sent
<1>4. \A p \in {Sent(call)} : PendingFits(p)'
  BY <1>2, <1>3 DEF PendingFits, Answered, UpdateKinds
<1> QED BY <1>1, <1>4, QuietStartKeeps

LEMMA HandleAddKeeps ==
  ASSUME McpInv, NEW h \in Hosts, HandleAddServer(h), ~disturbed' PROVE McpUndisturbed'
<1>1. PICK call : call = [kind |-> "add", host |-> h] /\ Start(call) /\ mcpPage' = mcpPage
  BY DEF HandleAddServer
<1>2. \A p \in {Sent(call)} : PendingFits(p)'
  BY <1>1 DEF Sent, PendingFits, Answered, UpdateKinds
<1> QED BY <1>1, <1>2, QuietStartKeeps

LEMMA RetryKeeps == ASSUME McpInv, RetryServers, ~disturbed' PROVE McpUndisturbed'
<1>1. Start(LoadServers(NoHost)) /\ mcpPage' = [mcpPage EXCEPT !.state = "loading"]
  BY DEF RetryServers
<1>2. \A p \in {Sent(LoadServers(NoHost))} : PendingFits(p)'
  BY DEF Sent, LoadServers, PendingFits, Answered, UpdateKinds
<1>3. /\ mcpPage'.state = "loading" /\ mcpPage'.servers = mcpPage.servers
      /\ mcpPage'.tools = mcpPage.tools /\ mcpPage'.selected = mcpPage.selected
  BY <1>1 DEF McpInv, McpTypes, PageShape
<1> QED BY <1>1, <1>2, <1>3, QuietStartKeeps

LEMMA ToggleKeeps ==
  ASSUME McpInv, NEW t, ToggleToolSelection(t), ~disturbed' PROVE McpUndisturbed'
<1>1. /\ mcpPage'.state = mcpPage.state /\ mcpPage'.servers = mcpPage.servers
      /\ mcpPage'.tools = mcpPage.tools /\ mcpPage'.selected = mcpPage.selected
  BY DEF McpInv, McpTypes, PageShape, ToggleToolSelection
<1> QED BY <1>1, OnlyMarks DEF ToggleToolSelection, McpInv

\* The page is opened anew.
LEMMA OpenMcpKeeps == ASSUME McpInv, OpenMcpPage PROVE McpUndisturbed'
<1> DEFINE z == CHOOSE x \in Pending : TRUE
<1>1. mcpPage' = FreshPage /\ pending' = [pending EXCEPT ![z] = Sent(LoadServers(NoHost))]
      /\ Quiescent /\ pending = [x \in Pending |-> pending[x]]
  BY DEF OpenMcpPage, McpInv, McpTypes
<1> HIDE DEF z
<1>2. pending' = [x \in Pending |-> IF x = z THEN Sent(LoadServers(NoHost)) ELSE Free]
  BY <1>1 DEF Quiescent
<1>3. \A p \in {Sent(LoadServers(NoHost))} : PendingFits(p)'
  BY DEF Sent, LoadServers, PendingFits, Answered, UpdateKinds
<1>4. mcpPage'.state = "loading" /\ mcpPage'.selected = NoHost
  BY <1>1 DEF FreshPage
<1>5. ServersAreCurrent' /\ ToolsAreCurrent'
  BY <1>4 DEF ServersAreCurrent, ToolsAreCurrent
<1>6. CASE z \in Pending
  BY <1>2, <1>3, <1>5, <1>6, OneCallBegins DEF McpUndisturbed
<1>7. CASE z \notin Pending
  <2>1. \A x \in Pending : pending'[x] = Free
    BY <1>2, <1>7
  <2>2. Free.kind = "free"
    BY DEF Free
  <2>3. OnlyCall'
    BY <2>1 DEF OnlyCall
  <2>4. \A x \in Pending : \A p \in {pending'[x]} : PendingFits(p)'
    BY <2>1, <2>2 DEF PendingFits, Answered, UpdateKinds
  <2> QED BY <1>5, <2>3, <2>4 DEF McpUndisturbed
<1> QED BY <1>6, <1>7

LEMMA McpStartsUndisturbed == McpInit => McpUndisturbed
<1> SUFFICES ASSUME McpInit PROVE McpUndisturbed
  OBVIOUS
<1> DEFINE z == CHOOSE x \in Pending : TRUE
<1>1. mcpPage = FreshPage /\ pending = [x \in Pending |-> IF x = z THEN Sent(LoadServers(NoHost)) ELSE Free]
  BY DEF McpInit
<1> HIDE DEF z
<1>2. mcpPage.state = "loading" /\ mcpPage.selected = NoHost
  BY <1>1 DEF FreshPage
<1>3. ServersAreCurrent /\ ToolsAreCurrent
  BY <1>2 DEF ServersAreCurrent, ToolsAreCurrent
<1>4. OnlyCall
  BY <1>1 DEF OnlyCall
<1>5. ASSUME NEW x \in Pending, NEW p \in {pending[x]} PROVE PendingFits(p)
  <2>1. p.kind = "free" \/ p = Sent(LoadServers(NoHost))
    BY <1>1 DEF Free
  <2> QED BY <2>1 DEF Sent, LoadServers, PendingFits, Answered, UpdateKinds
<1> QED BY <1>3, <1>4, <1>5 DEF McpUndisturbed

-----------------------------------------------------------------------------

\* An answer is on its way: the calls are the same.
LEMMA ServeCalls ==
  ASSUME McpInv, ~disturbed, NEW x \in Pending, Serve(x)
  PROVE  /\ OnlyCall' /\ mcpPage' = mcpPage
         /\ \A y \in Pending : y # x => pending'[y] = pending[y]
         /\ pending'[x].kind = pending[x].kind /\ pending'[x].call = pending[x].call
         /\ pending'[x].phase = "answered"
         /\ pending[x].kind = pending[x].call.kind
<1>1. PICK answer : pending' = [y \in Pending |-> IF y = x
              THEN [kind |-> pending[x].kind, call |-> pending[x].call, phase |-> "answered",
                    answer |-> answer] ELSE pending[y]]
  BY ServeTypes
<1>2. pending[x] # Free /\ mcpPage' = mcpPage
  BY ServeTypes
<1>3. OnlyCall /\ CallFits(pending[x])
  BY DEF McpInv, McpUndisturbed, McpTypes
<1>4. OnlyCall'
  BY <1>1, <1>2, <1>3 DEF OnlyCall
<1> QED BY <1>1, <1>2, <1>3, <1>4 DEF CallFits

LEMMA ServeListKeeps ==
  ASSUME McpInv, ~disturbed, NEW x \in Pending, Serve(x),
         pending[x].kind \in {"servers", "tools"}
  PROVE  McpUndisturbed'
<1>1. /\ OnlyCall' /\ mcpPage' = mcpPage
      /\ \A y \in Pending : y # x => pending'[y] = pending[y]
      /\ pending'[x].kind = pending[x].kind /\ pending'[x].call = pending[x].call
      /\ pending'[x].phase = "answered"
      /\ pending[x].kind = pending[x].call.kind
  BY ServeCalls
<1>2. hosts' = hosts /\ approvals' = approvals
  BY <1>1 DEF Serve
<1>3. HostRows' = HostRows /\ \A h : ToolRows(h)' = ToolRows(h)
  BY <1>2, RowsStay
<1>4. /\ pending[x].kind = "servers" => pending'[x].answer = HostRows
      /\ pending[x].kind = "tools" => /\ pending[x].call.host \in hosts
                                      /\ pending'[x].answer = ToolRows(pending[x].call.host)
  BY <1>1 DEF Serve, Answer, McpInv, McpTypes
<1>5. \A y \in Pending : Answered(pending[y], ServerKinds \cup UpdateKinds) => pending'[y] = pending[y]
  BY <1>1 DEF Answered, ServerKinds, UpdateKinds
<1>6. ServersAreCurrent'
  BY <1>1, <1>2, <1>3, <1>5 DEF McpInv, McpUndisturbed, ServersAreCurrent, Answered
<1>7. ToolsAreCurrent'
  <2>1. \A y \in Pending : pending[y].kind = "tools" => pending'[y].kind = "tools"
    BY <1>1
  <2> QED BY <1>1, <1>2, <1>3, <1>5, <2>1
          DEF McpInv, McpUndisturbed, ToolsAreCurrent, Answered, ServerKinds, UpdateKinds
<1>8. ASSUME NEW y \in Pending, NEW p \in {pending'[y]} PROVE PendingFits(p)'
  <2>1. CASE y = x
    <3>1. PICK q : q = pending[x] /\ PendingFits(q)
      BY DEF McpInv, McpUndisturbed
    <3>2. p.kind = q.kind /\ p.call = q.call
      BY <1>1, <2>1, <3>1
    <3> QED BY <1>1, <1>2, <1>3, <1>4, <2>1, <3>1, <3>2 DEF PendingFits, Answered, UpdateKinds
  <2>2. CASE y # x
    <3>1. p = pending[y] /\ PendingFits(p)
      BY <1>1, <2>2 DEF McpInv, McpUndisturbed
    <3>2. UpdateFits(p) => UpdateFits(p)'
      BY <1>1, <1>2, <1>3 DEF UpdateFits, CountsBefore, ToolsOf
    <3> QED BY <1>1, <1>2, <1>3, <3>1, <3>2 DEF PendingFits, Answered
  <2> QED BY <2>1, <2>2
<1> QED BY <1>1, <1>6, <1>7, <1>8 DEF McpUndisturbed

\* Of a call that is alone, the fit of every call is its own.
LEMMA AloneFits ==
  ASSUME NEW x \in Pending, NEW q, pending'[x] = q, PendingFits(q)',
         \A y \in Pending : y # x => pending'[y] = Free
  PROVE  \A y \in Pending : \A p \in {pending'[y]} : PendingFits(p)'
<1> SUFFICES ASSUME NEW y \in Pending, NEW p \in {pending'[y]} PROVE PendingFits(p)'
  OBVIOUS
<1>1. CASE y = x
  BY <1>1
<1>2. CASE y # x
  <2>1. p.kind = "free"
    BY <1>2 DEF Free
  <2> QED BY <2>1 DEF PendingFits, Answered, UpdateKinds
<1> QED BY <1>1, <1>2

LEMMA ServeUpdateKeeps ==
  ASSUME McpInv, ~disturbed, NEW x \in Pending, Serve(x),
         pending[x].kind \in UpdateKinds
  PROVE  McpUndisturbed'
<1>1. /\ OnlyCall' /\ mcpPage' = mcpPage
      /\ \A y \in Pending : y # x => pending'[y] = pending[y]
      /\ pending'[x].kind = pending[x].kind /\ pending'[x].call = pending[x].call
      /\ pending'[x].phase = "answered"
      /\ pending[x].kind = pending[x].call.kind
  BY ServeCalls
<1>2. \A y \in Pending : y # x => pending[y] = Free
  BY OnlyThisCall
<1>3. PICK p, q, call : /\ p = pending[x] /\ q = pending'[x] /\ call = p.call /\ call = q.call
                        /\ PendingFits(p)
  BY <1>1 DEF McpInv, McpUndisturbed
<1>4. UpdateFits(p) /\ pending[x].phase = "sent"
  BY <1>3 DEF PendingFits, Serve
<1>5. /\ call.host \in hosts /\ call.tools \subseteq ToolsOf(call.host) /\ call.before = ToolRows(call.host)
      /\ DOMAIN call.before = ToolsOf(call.host) /\ \A t \in ToolsOf(call.host) : call.before[t] \in BOOLEAN
  BY <1>3, <1>4 DEF UpdateFits
<1>6. {t \in call.tools : FoundTool(call.host, t)} = call.tools
  BY <1>5 DEF FoundTool, ToolsOf
<1>7. /\ hosts' = hosts
      /\ approvals' = [t \in DOMAIN HostOf |-> IF t \in call.tools THEN call.approved ELSE approvals[t]]
      /\ q.answer = call.tools
  <2>1. PICK found : /\ found = {t \in call.tools : FoundTool(call.host, t)} /\ hosts' = hosts
                     /\ approvals' = [t \in DOMAIN HostOf |->
                                        IF t \in found THEN call.approved ELSE approvals[t]]
                     /\ Answer(x, found)
    <3>1. call.kind \in {"update", "bulk"} /\ call = pending[x].call
      BY <1>1, <1>3 DEF UpdateKinds
    <3> QED BY <3>1 DEF Serve
  <2>2. pending = [y \in Pending |-> pending[y]]
    BY DEF McpInv, McpTypes
  <2>3. pending'[x].answer = found
    BY <2>1, <2>2 DEF Answer
  <2> QED BY <1>3, <1>6, <2>1, <2>3
<1>8. \A t \in ToolsOf(call.host) : approvals[t] = call.before[t]
  BY <1>5 DEF ToolRows
<1>9. mcpPage.state = "ready" => mcpPage.servers = HostRows
  <2>1. ~ \E y \in Pending : Answered(pending[y], ServerKinds \cup UpdateKinds)
    BY <1>2, <1>4, NoCallIsNoKind DEF Answered, ServerKinds, UpdateKinds
  <2> QED BY <2>1 DEF McpInv, McpUndisturbed, ServersAreCurrent
<1>10. ASSUME NEW h \in hosts
       PROVE  HostRows[h] = IF h = call.host THEN Cardinality({t \in ToolsOf(h) : call.before[t]})
                            ELSE HostRows'[h]
  <2>1. CASE h = call.host
    <3>1. {t \in ToolsOf(h) : approvals[t]} = {t \in ToolsOf(h) : call.before[t]}
      BY <1>8, <2>1
    <3> QED BY <2>1, <3>1 DEF HostRows
  <2>2. CASE h # call.host
    <3>1. {t \in ToolsOf(h) : approvals'[t]} = {t \in ToolsOf(h) : approvals[t]}
      BY <1>5, <1>7, <2>2 DEF ToolsOf
    <3>2. HostRows'[h] = Cardinality({t \in ToolsOf(h) : approvals'[t]})
      BY <1>7 DEF HostRows, ToolsOf
    <3> QED BY <2>2, <3>1, <3>2 DEF HostRows
  <2> QED BY <2>1, <2>2
<1>11. mcpPage.state = "ready" => mcpPage'.servers = CountsBefore(call)'
  <2>1. CountsBefore(call)' = [h \in hosts |->
            IF h = call.host THEN Cardinality({t \in ToolsOf(h) : call.before[t]}) ELSE HostRows'[h]]
    BY <1>7 DEF CountsBefore, ToolsOf
  <2>2. HostRows = [h \in hosts |-> HostRows[h]]
    BY DEF HostRows
  <2> QED BY <1>1, <1>9, <1>10, <2>1, <2>2
<1>12. UpdateFits(q)'
  <2>1. \A t \in ToolsOf(call.host) : approvals'[t] = IF t \in q.answer THEN call.approved ELSE call.before[t]
    BY <1>7, <1>8 DEF ToolsOf
  <2>2. p.kind = q.kind /\ q.phase = "answered"
    BY <1>1, <1>3
  <2> QED BY <1>1, <1>3, <1>4, <1>5, <1>7, <1>11, <2>1, <2>2 DEF UpdateFits, ToolsOf
<1>13. PendingFits(q)'
  BY <1>1, <1>3, <1>12 DEF PendingFits, Answered, UpdateKinds
<1>14. Answered(pending'[x], UpdateKinds)
  BY <1>1 DEF Answered
<1>15. ServersAreCurrent'
  BY <1>14 DEF ServersAreCurrent, Answered
<1>16. ToolsAreCurrent'
  BY <1>1, <1>3, <1>4, <1>5, <1>7, <1>14 DEF ToolsAreCurrent, Answered, UpdateFits
<1>17. \A y \in Pending : \A r \in {pending'[y]} : PendingFits(r)'
  BY <1>1, <1>2, <1>3, <1>13, AloneFits
<1> QED BY <1>1, <1>15, <1>16, <1>17 DEF McpUndisturbed

LEMMA ServeServerKeeps ==
  ASSUME McpInv, ~disturbed, NEW x \in Pending, Serve(x),
         pending[x].kind \in ServerKinds
  PROVE  McpUndisturbed'
<1>1. /\ OnlyCall' /\ mcpPage' = mcpPage
      /\ \A y \in Pending : y # x => pending'[y] = pending[y]
      /\ pending'[x].kind = pending[x].kind /\ pending'[x].call = pending[x].call
      /\ pending'[x].phase = "answered"
      /\ pending[x].kind = pending[x].call.kind
  BY ServeCalls
<1>2. \A y \in Pending : y # x => pending[y] = Free
  BY OnlyThisCall
<1>3. PICK p, q, call : /\ p = pending[x] /\ q = pending'[x] /\ call = p.call /\ call = q.call
                        /\ PendingFits(p)
  BY <1>1 DEF McpInv, McpUndisturbed
<1>4. pending[x].phase = "sent"
  BY DEF Serve
<1>5. Answered(pending'[x], ServerKinds)
  BY <1>1 DEF Answered
<1>6. ServersAreCurrent'
  BY <1>5 DEF ServersAreCurrent, Answered
<1>7. mcpPage.selected # NoHost =>
        mcpPage.selected \in hosts /\ mcpPage.tools = ToolRows(mcpPage.selected)
  <2>1. ASSUME NEW y \in Pending
        PROVE  pending[y].kind # "tools" /\ pending[y].kind \notin UpdateKinds
               /\ ~Answered(pending[y], ServerKinds)
    BY <1>2, <1>4, NoCallIsNoKind DEF Answered, ServerKinds, UpdateKinds
  <2> QED BY <2>1 DEF McpInv, McpUndisturbed, ToolsAreCurrent, Answered, ServerKinds
<1>8. ToolsAreCurrent' /\ (call.kind = "add" => call.host \in hosts')
  <2>1. CASE call.kind = "discover"
    <3>1. hosts' = hosts
      BY <1>3, <2>1 DEF Serve
    <3>2. Answered(pending'[x], {"discover"})
      BY <1>1, <1>3, <2>1 DEF Answered
    <3> QED BY <1>1, <1>7, <2>1, <3>1, <3>2 DEF ToolsAreCurrent, Answered
  <2>2. CASE call.kind = "delete"
    <3>1. /\ hosts' = hosts \ {call.host}
          /\ approvals' = [t \in DOMAIN HostOf |-> approvals[t] /\ HostOf[t] # call.host]
      BY <1>3, <2>2 DEF Serve
    <3>2. mcpPage.selected = NoHost \/ (call.selected <=> call.host = mcpPage.selected)
      BY <1>1, <1>3, <2>2 DEF PendingFits
    <3>3. Answered(pending'[x], {"delete"}) /\ pending'[x].call.selected = call.selected
      BY <1>1, <1>3, <2>2 DEF Answered
    <3>4. CASE mcpPage.selected = NoHost \/ call.selected
      BY <1>1, <2>2, <3>3, <3>4 DEF ToolsAreCurrent, Answered
    <3>5. CASE mcpPage.selected # NoHost /\ ~call.selected
      <4>1. PICK h : h = mcpPage.selected /\ h \in hosts' /\ h \in hosts /\ h # call.host
        BY <1>7, <3>1, <3>2, <3>5
      <4>2. ToolRows(h)' = ToolRows(h)
        BY <3>1, <4>1 DEF ToolRows, ToolsOf, McpInv, McpTypes, McpTypeOK
      <4>3. mcpPage'.selected \in hosts' /\ mcpPage'.tools = ToolRows(mcpPage.selected)'
        BY <1>1, <1>7, <4>1, <4>2, <3>5 DEF ToolRows, ToolsOf
      <4> QED BY <2>2, <4>3 DEF ToolsAreCurrent
    <3> QED BY <3>4, <3>5
  <2>3. CASE call.kind \in {"toggle", "add"}
    <3>1. /\ approvals' = approvals
          /\ hosts' = hosts \/ hosts' = hosts \cup {call.host}
          /\ call.kind = "add" => call.host \in hosts'
      BY <1>3, <2>3 DEF Serve
    <3>2. CASE mcpPage.selected # NoHost
      <4>1. PICK h : h = mcpPage.selected /\ h \in hosts /\ h \in hosts'
        BY <1>7, <3>1, <3>2
      <4>2. ToolRows(h)' = ToolRows(h)
        BY <3>1, <4>1 DEF ToolRows, ToolsOf
      <4>3. mcpPage'.selected \in hosts' /\ mcpPage'.tools = ToolRows(mcpPage.selected)'
        BY <1>1, <1>7, <4>1, <4>2, <3>2 DEF ToolRows, ToolsOf
      <4> QED BY <3>1, <4>3 DEF ToolsAreCurrent
    <3>3. CASE mcpPage.selected = NoHost
      BY <1>1, <3>1, <3>3 DEF ToolsAreCurrent
    <3> QED BY <3>2, <3>3
  <2> QED BY <1>1, <1>3, <2>1, <2>2, <2>3 DEF ServerKinds
<1>9. PendingFits(q)'
  BY <1>1, <1>3, <1>8 DEF PendingFits, Answered, UpdateKinds, ServerKinds
<1>10. \A y \in Pending : \A r \in {pending'[y]} : PendingFits(r)'
  BY <1>1, <1>2, <1>3, <1>9, AloneFits
<1> QED BY <1>1, <1>6, <1>8, <1>10 DEF McpUndisturbed

LEMMA ServeKeeps ==
  ASSUME McpInv, NEW x \in Pending, Serve(x), ~disturbed'
  PROVE  McpUndisturbed'
<1>1. ~disturbed /\ pending[x] # Free /\ CallFits(pending[x])
  BY DEF Serve, McpInv, McpTypes
<1>2. pending[x].kind \in {"servers", "tools"} \cup ServerKinds \cup UpdateKinds
  BY <1>1 DEF CallFits
<1> QED BY <1>1, <1>2, ServeListKeeps, ServeUpdateKeeps, ServeServerKeeps

-----------------------------------------------------------------------------

\* A call is over: what remains under way is a list at most.
LEMMA FinishKeepsCalls ==
  ASSUME McpInv, McpUndisturbed, NEW x \in Pending, pending[x] # Free, Finish(x),
         hosts' = hosts, approvals' = approvals, mcpPage'.selected = mcpPage.selected
  PROVE  /\ OnlyCall'
         /\ \A y \in Pending : \A p \in {pending'[y]} : PendingFits(p)'
         /\ \A y \in Pending : y # x => pending'[y] = pending[y]
         /\ \A y \in Pending : pending'[y] = Free \/ pending'[y].kind \in {"servers", "tools"}
<1>1. pending' = [y \in Pending |-> IF y = x THEN Free ELSE pending[y]]
  BY FinishTypes
<1>2. OnlyCall'
  BY <1>1 DEF McpUndisturbed, OnlyCall
<1>3. HostRows' = HostRows /\ \A h : ToolRows(h)' = ToolRows(h)
  BY RowsStay
<1>4. \A y \in Pending : pending'[y] = Free \/ pending'[y].kind \in {"servers", "tools"}
  BY <1>1 DEF McpUndisturbed, OnlyCall
<1>5. ASSUME NEW y \in Pending, NEW p \in {pending'[y]} PROVE PendingFits(p)'
  <2>1. CASE p = Free
    <3>1. p.kind = "free"
      BY <2>1 DEF Free
    <3> QED BY <3>1 DEF PendingFits, Answered, UpdateKinds
  <2>2. CASE p # Free
    <3>1. y # x /\ p = pending[y] /\ PendingFits(p)
      BY <1>1, <2>2 DEF McpUndisturbed
    <3>2. p.kind \in {"servers", "tools"}
      BY <1>4, <2>2
    <3> QED BY <1>3, <3>1, <3>2 DEF PendingFits, Answered, UpdateKinds
  <2> QED BY <2>1, <2>2
<1> QED BY <1>1, <1>2, <1>4, <1>5

LEMMA ShowServersKeeps ==
  ASSUME McpInv, NEW x \in Pending, ShowServers(x), ~disturbed' PROVE McpUndisturbed'
<1>0. /\ McpUndisturbed /\ PageShape /\ ~disturbed
      /\ hosts' = hosts /\ approvals' = approvals
      /\ pending[x].kind = "servers" /\ pending[x].phase = "answered" /\ pending[x] # Free
  BY DEF ShowServers, McpInv, McpTypes, Arrived, Free
<1>1. PICK p, then : p = pending[x] /\ then = p.call.select /\ PendingFits(p)
  BY <1>0 DEF McpUndisturbed
<1>2. p.answer = HostRows /\ (then = NoHost \/ then \in hosts)
  BY <1>0, <1>1 DEF PendingFits, Answered
<1>3. HostRows' = HostRows /\ \A h : ToolRows(h)' = ToolRows(h)
  BY <1>0, RowsStay
<1>4. CASE then \in {NoHost, mcpPage.selected}
  <2>1. mcpPage' = [mcpPage EXCEPT !.state = "ready", !.servers = p.answer] /\ Finish(x)
    BY <1>1, <1>4 DEF ShowServers
  <2>2. /\ mcpPage'.servers = p.answer /\ mcpPage'.selected = mcpPage.selected
        /\ mcpPage'.tools = mcpPage.tools
    BY <2>1, <1>0 DEF PageShape
  <2>3. /\ OnlyCall' /\ \A y \in Pending : \A q \in {pending'[y]} : PendingFits(q)'
        /\ \A y \in Pending : y # x => pending'[y] = pending[y]
    BY <1>0, <2>1, <2>2, FinishKeepsCalls
  <2>4. ServersAreCurrent'
    BY <1>2, <1>3, <2>2 DEF ServersAreCurrent
  <2>5. ToolsAreCurrent'
    <3>1. ASSUME NEW y \in Pending, pending[y].kind = "tools" \/ pending[y].kind \in UpdateKinds \cup {"discover", "delete"}
          PROVE  pending'[y] = pending[y]
      BY <1>0, <2>3, <3>1 DEF UpdateKinds
    <3> QED BY <1>0, <1>3, <2>2, <3>1 DEF McpUndisturbed, ToolsAreCurrent, Answered
  <2> QED BY <2>3, <2>4, <2>5 DEF McpUndisturbed
<1>5. CASE then \notin {NoHost, mcpPage.selected}
  <2>1. /\ mcpPage' = [[mcpPage EXCEPT !.state = "ready", !.servers = p.answer]
               EXCEPT !.selected = then, !.marked = {}, !.error = FALSE]
        /\ GoOn(x, LoadTools(then))
    BY <1>1, <1>5 DEF ShowServers
  <2>2. mcpPage'.servers = p.answer /\ mcpPage'.selected = then
    BY <2>1, <1>0 DEF PageShape
  <2>3. \A y \in Pending : y # x => pending[y] = Free
    BY <1>0, <1>1, <1>5 DEF McpUndisturbed, OnlyCall
  <2>4. pending' = [y \in Pending |-> IF y = x THEN Sent(LoadTools(then)) ELSE Free]
    BY <2>1, <2>3 DEF GoOn, McpInv, McpTypes
  <2>5. \A q \in {Sent(LoadTools(then))} : PendingFits(q)'
    BY <2>2 DEF PendingFits, Sent, LoadTools, Answered, UpdateKinds
  <2>6. pending'[x].kind = "tools"
    BY <2>4 DEF Sent, LoadTools
  <2>7. ServersAreCurrent' /\ ToolsAreCurrent'
    BY <1>0, <1>2, <1>3, <1>5, <2>2, <2>6 DEF ServersAreCurrent, ToolsAreCurrent
  <2> QED BY <2>4, <2>5, <2>7, OneCallBegins DEF McpUndisturbed
<1> QED BY <1>4, <1>5

LEMMA ShowToolsKeeps ==
  ASSUME McpInv, NEW x \in Pending, ShowTools(x), ~disturbed' PROVE McpUndisturbed'
<1>0. /\ McpUndisturbed /\ PageShape /\ ~disturbed
      /\ hosts' = hosts /\ approvals' = approvals
      /\ pending[x].kind = "tools" /\ pending[x].phase = "answered" /\ pending[x] # Free
      /\ mcpPage' = [mcpPage EXCEPT !.tools = pending[x].answer] /\ Finish(x)
  BY DEF ShowTools, McpInv, McpTypes, Arrived, Free
<1>1. PICK p, h : p = pending[x] /\ h = p.call.host /\ PendingFits(p)
  BY <1>0 DEF McpUndisturbed
<1>2. mcpPage.selected \in {NoHost, h} /\ h \in hosts /\ p.answer = ToolRows(h)
  BY <1>0, <1>1 DEF PendingFits, Answered
<1>3. HostRows' = HostRows /\ ToolRows(h)' = ToolRows(h)
  BY <1>0, RowsStay
<1>4. /\ mcpPage'.state = mcpPage.state /\ mcpPage'.servers = mcpPage.servers
      /\ mcpPage'.tools = p.answer /\ mcpPage'.selected = mcpPage.selected
  BY <1>0, <1>1 DEF PageShape
<1>5. /\ OnlyCall' /\ \A y \in Pending : \A q \in {pending'[y]} : PendingFits(q)'
      /\ \A y \in Pending : y # x => pending'[y] = pending[y]
  BY <1>0, <1>4, FinishKeepsCalls
<1>6. ServersAreCurrent'
  <2>1. ASSUME NEW y \in Pending, pending[y].kind \in ServerKinds \cup UpdateKinds
        PROVE  pending'[y] = pending[y]
    BY <1>0, <1>5, <2>1 DEF ServerKinds, UpdateKinds
  <2> QED BY <1>0, <1>3, <1>4, <2>1 DEF McpUndisturbed, ServersAreCurrent, Answered
<1>7. ToolsAreCurrent'
  <2>1. CASE mcpPage.selected = NoHost
    BY <1>4, <2>1 DEF ToolsAreCurrent
  <2>2. CASE mcpPage.selected = h
    <3>1. mcpPage'.selected = h /\ mcpPage'.tools = ToolRows(h)' /\ h \in hosts'
      BY <1>0, <1>2, <1>3, <1>4, <2>2
    <3>2. mcpPage'.tools = ToolRows(mcpPage.selected)'
      BY <3>1 DEF ToolRows, ToolsOf
    <3> QED BY <3>1, <3>2 DEF ToolsAreCurrent
  <2> QED BY <1>2, <2>1, <2>2
<1> QED BY <1>5, <1>6, <1>7 DEF McpUndisturbed

\* Counting what an update changed comes to what is stored.
LEMMA MergedCount ==
  ASSUME NEW A \in SUBSET (DOMAIN HostOf), NEW B \in SUBSET (DOMAIN HostOf),
         NEW D \in SUBSET (DOMAIN HostOf), NEW approved \in BOOLEAN,
         IF approved THEN A = B \cup D /\ B \cap D = {} ELSE A = B \ D /\ B \cap D = D
  PROVE  Cardinality(A) = IF approved THEN Cardinality(B) + Cardinality(D)
                          ELSE IF Cardinality(B) < Cardinality(D) THEN 0
                          ELSE Cardinality(B) - Cardinality(D)
<1>1. IsFiniteSet(B) /\ IsFiniteSet(D) /\ IsFiniteSet(A)
      /\ Cardinality(B) \in Nat /\ Cardinality(D) \in Nat /\ Cardinality(A) \in Nat
  BY ServedCounts
<1>2. CASE approved
  <2>1. Cardinality(B \cup D) = Cardinality(B) + Cardinality(D) - Cardinality(B \cap D)
    BY <1>1, FS_Union
  <2>2. Cardinality(B \cap D) = 0
    BY <1>2, FS_EmptySet
  <2>3. Cardinality(A) = Cardinality(B \cup D)
    BY <1>2
  <2> QED BY <1>1, <1>2, <2>1, <2>2, <2>3
<1>3. CASE ~approved
  <2>1. Cardinality(B \ D) = Cardinality(B) - Cardinality(B \cap D)
    BY <1>1, FS_Difference
  <2>2. Cardinality(A) = Cardinality(B) - Cardinality(D)
    BY <1>3, <2>1
  <2>3. ~(Cardinality(B) < Cardinality(D))
    BY <1>1, <2>2
  <2> QED BY <1>3, <2>2, <2>3
<1> QED BY <1>2, <1>3

LEMMA MergedPageIsCurrent ==
  ASSUME McpInv, McpUndisturbed, NEW p, UpdateFits(p), p.phase = "answered",
         p.call.approved \in BOOLEAN
  PROVE  /\ mcpPage.state = "ready" => MergedServers(p.answer, p.call.approved, p.call.before) = HostRows
         /\ MergedTools(p.answer, p.call.approved) = ToolRows(p.call.host)
<1>1. PICK call, h, good, approved, before :
        /\ call = p.call /\ h = call.host /\ good = p.answer /\ approved = call.approved /\ before = call.before
        /\ good \in SUBSET ToolsOf(h) /\ h \in hosts
        /\ approved \in BOOLEAN /\ DOMAIN before = ToolsOf(h) /\ mcpPage.tools = before
        /\ \A t \in ToolsOf(h) : /\ before[t] \in BOOLEAN
                                 /\ approvals[t] = IF t \in good THEN approved ELSE before[t]
        /\ mcpPage.state = "ready" => mcpPage.servers = CountsBefore(call)
  BY DEF UpdateFits
<1>2. MergedTools(good, approved) = ToolRows(h)
  BY <1>1 DEF MergedTools, ToolRows
<1>3. ASSUME mcpPage.state = "ready", NEW g \in hosts
      PROVE  MergedServers(good, approved, before)[g] = HostRows[g]
  <2> DEFINE D == {t \in CountedUpdates(before, good, approved) : HostOf[t] = g}
             n == mcpPage.servers[g]
  <2>1. mcpPage.servers = CountsBefore(call) /\ g \in DOMAIN mcpPage.servers
    BY <1>1, <1>3 DEF CountsBefore
  <2>2. MergedServers(good, approved, before)[g] =
          IF approved THEN n + Cardinality(D) ELSE IF n < Cardinality(D) THEN 0 ELSE n - Cardinality(D)
    BY <2>1 DEF MergedServers
  <2>3. n = IF g = h THEN Cardinality({t \in ToolsOf(g) : before[t]}) ELSE HostRows[g]
    BY <1>1, <2>1 DEF CountsBefore
  <2>4. HostRows[g] = Cardinality({t \in ToolsOf(g) : approvals[t]})
    BY DEF HostRows
  <2>5. ToolsOf(g) \in SUBSET (DOMAIN HostOf)
    BY DEF ToolsOf
  <2>6. CASE g = h
    <3>1. /\ D \in SUBSET (DOMAIN HostOf)
          /\ \A t \in DOMAIN HostOf : t \in D <=> t \in good /\ before[t] # approved
      BY <1>1, <2>6 DEF CountedUpdates, Differing, ToolsOf
    <3>2. {t \in ToolsOf(g) : approvals[t]} = {t \in ToolsOf(g) : IF t \in good THEN approved ELSE before[t]}
      BY <1>1, <2>6
    <3> HIDE DEF D, n
    <3>3. PICK A, B : /\ A = {t \in ToolsOf(g) : IF t \in good THEN approved ELSE before[t]}
                      /\ B = {t \in ToolsOf(g) : before[t]}
      OBVIOUS
    <3>4. A \in SUBSET (DOMAIN HostOf) /\ B \in SUBSET (DOMAIN HostOf)
      BY <2>5, <3>3
    <3>5. \A t \in ToolsOf(g) : before[t] \in BOOLEAN
      BY <1>1, <2>6
    <3>6. \A t \in D : t \in ToolsOf(g)
      BY <1>1, <2>6, <3>1
    <3>7. IF approved THEN A = B \cup D /\ B \cap D = {} ELSE A = B \ D /\ B \cap D = D
      <4>1. ASSUME approved PROVE A = B \cup D /\ B \cap D = {}
        BY <2>5, <3>1, <3>3, <3>5, <3>6, <4>1
      <4>2. ASSUME ~approved PROVE A = B \ D /\ B \cap D = D
        <5>1. \A t \in ToolsOf(g) : t \in A <=> (t \notin good /\ before[t])
          BY <3>3, <4>2
        <5>2. \A t \in ToolsOf(g) : t \in D <=> (t \in good /\ before[t])
          <6> SUFFICES ASSUME NEW t \in ToolsOf(g) PROVE t \in D <=> (t \in good /\ before[t])
            OBVIOUS
          <6>1. approved = FALSE /\ before[t] \in {TRUE, FALSE}
            BY <1>1, <3>5, <4>2
          <6>2. t \in D <=> t \in good /\ before[t] # FALSE
            BY <2>5, <3>1, <6>1
          <6> QED BY <6>1, <6>2
        <5>3. \A t \in ToolsOf(g) : t \in B <=> before[t]
          BY <3>3
        <5>4. A \subseteq ToolsOf(g) /\ B \subseteq ToolsOf(g) /\ D \subseteq ToolsOf(g)
          BY <3>3, <3>6
        <5> QED BY <5>1, <5>2, <5>3, <5>4
      <4> QED BY <4>1, <4>2
    <3>8. Cardinality(A) = IF approved THEN Cardinality(B) + Cardinality(D)
                           ELSE IF Cardinality(B) < Cardinality(D) THEN 0
                           ELSE Cardinality(B) - Cardinality(D)
      BY <1>1, <3>1, <3>4, <3>7, MergedCount
    <3>9. n = Cardinality(B) /\ HostRows[g] = Cardinality(A)
      BY <2>3, <2>4, <2>6, <3>2, <3>3
    <3> QED BY <2>2, <3>8, <3>9
  <2>7. CASE g # h
    <3>1. D = {}
      BY <1>1, <2>7 DEF CountedUpdates, Differing, ToolsOf
    <3>2. Cardinality(D) = 0
      BY <3>1, FS_EmptySet
    <3>3. n = HostRows[g] /\ n \in Nat
      <4>1. {t \in ToolsOf(g) : approvals[t]} \in SUBSET (DOMAIN HostOf)
        BY <2>5
      <4> QED BY <2>3, <2>4, <2>7, <4>1, ServedCounts
    <3> HIDE DEF D, n
    <3> QED BY <1>1, <2>2, <3>2, <3>3
  <2> QED BY <2>6, <2>7
<1>4. mcpPage.state = "ready" => MergedServers(good, approved, before) = HostRows
  <2> SUFFICES ASSUME mcpPage.state = "ready" PROVE MergedServers(good, approved, before) = HostRows
    OBVIOUS
  <2>1. /\ MergedServers(good, approved, before) = [g \in hosts |-> MergedServers(good, approved, before)[g]]
        /\ HostRows = [g \in hosts |-> HostRows[g]]
    BY <1>1 DEF MergedServers, CountsBefore, HostRows
  <2> QED BY <1>3, <2>1
<1> QED BY <1>1, <1>2, <1>4

LEMMA UpdateShown ==
  ASSUME McpInv, NEW x \in Pending, ShowUpdate(x) \/ ShowBulk(x), ~disturbed'
  PROVE  McpUndisturbed'
<1>0. /\ McpUndisturbed /\ PageShape /\ ~disturbed
      /\ hosts' = hosts /\ approvals' = approvals
      /\ pending[x].kind \in UpdateKinds /\ pending[x].phase = "answered" /\ pending[x] # Free
      /\ CallFits(pending[x]) /\ Finish(x)
  BY DEF ShowUpdate, ShowBulk, McpInv, McpTypes, Arrived, Free, UpdateKinds
<1>1. PICK p, T, S, M :
        /\ p = pending[x] /\ PendingFits(p)
        /\ T = MergedTools(p.answer, p.call.approved)
        /\ S = MergedServers(p.answer, p.call.approved, p.call.before)
        /\ M = MergedMarks(p.answer, p.call.approved)
  BY <1>0 DEF McpUndisturbed
<1>2. UpdateFits(p) /\ p.call.approved \in BOOLEAN /\ (p.kind = "bulk" => p.call.approved = TRUE)
  BY <1>0, <1>1 DEF PendingFits, CallFits, UpdateFits
<1>3. MergeUpdates(mcpPage, p.answer, p.call.approved, p.call.before)
         = [mcpPage EXCEPT !.tools = T, !.servers = S, !.marked = M]
  <2>1. MergeUpdates(mcpPage, p.answer, p.call.approved, p.call.before) =
          [mcpPage EXCEPT !.tools = MergedTools(p.answer, p.call.approved),
                          !.servers = MergedServers(p.answer, p.call.approved, p.call.before),
                          !.marked = MergedMarks(p.answer, p.call.approved)]
    BY MergedPage
  <2> QED BY <1>1, <2>1, Zenon
<1>4. /\ mcpPage'.state = mcpPage.state /\ mcpPage'.servers = S
      /\ mcpPage'.tools = T /\ mcpPage'.selected = mcpPage.selected
  <2>1. CASE ShowUpdate(x)
    <3>1. mcpPage' = MergeUpdates(mcpPage, p.answer, p.call.approved, p.call.before)
      BY <1>1, <2>1 DEF ShowUpdate
    <3>2. mcpPage' = [mcpPage EXCEPT !.tools = T, !.servers = S, !.marked = M]
      BY <1>3, <3>1
    <3> QED BY <3>2, <1>0 DEF PageShape
  <2>2. CASE ShowBulk(x)
    <3>1. p.call.approved = TRUE
      BY <1>1, <1>2, <2>2 DEF ShowBulk, Arrived
    <3>2. PICK error : mcpPage' =
            [MergeUpdates(mcpPage, p.answer, p.call.approved, p.call.before) EXCEPT !.bulkBusy = FALSE, !.error = error]
      BY <1>1, <2>2, <3>1 DEF ShowBulk
    <3>3. mcpPage' = [[mcpPage EXCEPT !.tools = T, !.servers = S, !.marked = M] EXCEPT !.bulkBusy = FALSE, !.error = error]
      BY <1>3, <3>2
    <3> QED BY <3>3, <1>0 DEF PageShape
  <2> QED BY <2>1, <2>2
<1>5. (mcpPage.state = "ready" => S = HostRows) /\ T = ToolRows(p.call.host)
  BY <1>0, <1>1, <1>2, MergedPageIsCurrent
<1>6. /\ OnlyCall' /\ \A y \in Pending : \A q \in {pending'[y]} : PendingFits(q)'
  BY <1>0, <1>4, FinishKeepsCalls
<1>7. HostRows' = HostRows /\ \A h : ToolRows(h)' = ToolRows(h)
  BY <1>0, RowsStay
<1>8. ServersAreCurrent'
  BY <1>4, <1>5, <1>7 DEF ServersAreCurrent
<1>9. ToolsAreCurrent'
  <2>1. mcpPage.selected \in {NoHost, p.call.host} /\ p.call.host \in hosts
    BY <1>2 DEF UpdateFits
  <2>2. PICK h : h = p.call.host
    OBVIOUS
  <2>3. CASE mcpPage.selected = h /\ h # NoHost
    <3>1. mcpPage'.selected = h /\ mcpPage'.tools = ToolRows(h)' /\ h \in hosts'
      BY <1>0, <1>4, <1>5, <1>7, <2>1, <2>2, <2>3
    <3>2. mcpPage'.tools = ToolRows(mcpPage.selected)'
      BY <3>1 DEF ToolRows, ToolsOf
    <3> QED BY <3>1, <3>2 DEF ToolsAreCurrent
  <2>4. CASE mcpPage.selected = NoHost
    BY <1>4, <2>4 DEF ToolsAreCurrent
  <2> QED BY <2>1, <2>2, <2>3, <2>4
<1> QED BY <1>6, <1>8, <1>9 DEF McpUndisturbed

LEMMA CallFailsKeeps ==
  ASSUME McpInv, NEW x \in Pending, CallFails(x), ~disturbed' PROVE McpUndisturbed'
<1>0. /\ PageShape /\ ~disturbed /\ hosts' = hosts /\ approvals' = approvals
      /\ pending[x] # Free /\ Finish(x) /\ CallFits(pending[x])
      /\ pending[x].kind = "servers" \/ (pending[x].kind # "tools" /\ pending[x].phase # "answered")
      /\ pending[x].kind # "tools"
  BY DEF CallFails, McpInv, McpTypes
<1>1. McpUndisturbed
  BY <1>0 DEF McpInv
<1>2. PICK state, error, busy :
        /\ mcpPage' = [mcpPage EXCEPT !.state = state, !.error = error, !.bulkBusy = busy]
        /\ state \in {mcpPage.state, "error"}
  BY DEF CallFails
<1>3. /\ mcpPage'.state \in {mcpPage.state, "error"} /\ mcpPage'.servers = mcpPage.servers
      /\ mcpPage'.tools = mcpPage.tools /\ mcpPage'.selected = mcpPage.selected
  BY <1>0, <1>2 DEF PageShape
<1>4. /\ OnlyCall' /\ \A y \in Pending : \A q \in {pending'[y]} : PendingFits(q)'
      /\ \A y \in Pending : y # x => pending'[y] = pending[y]
  BY <1>0, <1>1, <1>3, FinishKeepsCalls
<1>5. HostRows' = HostRows /\ \A h : ToolRows(h)' = ToolRows(h)
  BY <1>0, RowsStay
<1>6. ASSUME NEW y \in Pending, pending[y].kind = "tools" \/ Answered(pending[y], ServerKinds \cup UpdateKinds)
      PROVE  pending'[y] = pending[y]
  BY <1>0, <1>4, <1>6 DEF Answered, ServerKinds, UpdateKinds
<1>7. ServersAreCurrent'
  BY <1>0, <1>1, <1>3, <1>5, <1>6 DEF McpUndisturbed, ServersAreCurrent, Answered
<1>8. ToolsAreCurrent'
  BY <1>0, <1>1, <1>3, <1>5, <1>6 DEF McpUndisturbed, ToolsAreCurrent, Answered, ServerKinds
<1> QED BY <1>4, <1>7, <1>8 DEF McpUndisturbed

LEMMA AfterServerKeeps ==
  ASSUME McpInv, NEW x \in Pending, AfterDelete(x) \/ AfterToggle(x) \/ AfterAdd(x), ~disturbed'
  PROVE  McpUndisturbed'
<1>0. /\ PageShape /\ ~disturbed /\ hosts' = hosts /\ approvals' = approvals
      /\ pending[x].kind \in {"delete", "toggle", "add"} /\ pending[x].phase = "answered"
      /\ McpUndisturbed
  BY DEF AfterDelete, AfterToggle, AfterAdd, Arrived, McpInv, McpTypes
<1>1. \A y \in Pending : y # x => pending[y] = Free
  BY <1>0, OnlyThisCall DEF ServerKinds
<1>2. PICK p, select : /\ p = pending[x] /\ PendingFits(p)
                       /\ select = IF p.kind = "add" THEN p.call.host ELSE NoHost
                       /\ GoOn(x, LoadServers(select))
  BY <1>0 DEF AfterDelete, AfterToggle, AfterAdd, Arrived, McpUndisturbed
<1>3. pending' = [y \in Pending |-> IF y = x THEN Sent(LoadServers(select)) ELSE Free]
  BY <1>1, <1>2 DEF GoOn, McpInv, McpTypes
<1>4. select = NoHost \/ select \in hosts
  BY <1>0, <1>2 DEF PendingFits, Answered
<1>5. \A q \in {Sent(LoadServers(select))} : PendingFits(q)'
  BY <1>0, <1>4 DEF Sent, LoadServers, PendingFits, Answered, UpdateKinds
<1>6. HostRows' = HostRows /\ \A h : ToolRows(h)' = ToolRows(h)
  BY <1>0, RowsStay
<1>7. mcpPage'.state = "loading"
  BY <1>0 DEF AfterDelete, AfterToggle, AfterAdd, Reloading, PageShape
<1>8. ServersAreCurrent'
  BY <1>7 DEF ServersAreCurrent
<1>9. ToolsAreCurrent'
  <2>1. CASE p.kind = "delete" /\ p.call.selected
    <3>1. mcpPage'.selected = NoHost
      BY <1>0, <1>2, <2>1 DEF AfterDelete, AfterToggle, AfterAdd, Arrived, Reloading, PageShape
    <3> QED BY <3>1 DEF ToolsAreCurrent
  <2>2. CASE ~(p.kind = "delete" /\ p.call.selected)
    <3>1. mcpPage' = [mcpPage EXCEPT !.state = "loading"]
      BY <1>0, <1>2, <2>2 DEF AfterDelete, AfterToggle, AfterAdd, Arrived, Reloading
    <3>2. mcpPage'.selected = mcpPage.selected /\ mcpPage'.tools = mcpPage.tools
      BY <1>0, <3>1 DEF PageShape
    <3>3. mcpPage.selected # NoHost => mcpPage.selected \in hosts /\ mcpPage.tools = ToolRows(mcpPage.selected)
      <4>1. ASSUME NEW y \in Pending
            PROVE  /\ pending[y].kind # "tools" /\ ~Answered(pending[y], UpdateKinds \cup {"discover"})
                   /\ ~(Answered(pending[y], {"delete"}) /\ pending[y].call.selected)
        BY <1>0, <1>1, <1>2, <2>2, NoCallIsNoKind DEF Answered, UpdateKinds
      <4> QED BY <1>0, <4>1 DEF McpUndisturbed, ToolsAreCurrent
    <3> QED BY <1>0, <1>6, <3>2, <3>3 DEF ToolsAreCurrent
  <2> QED BY <2>1, <2>2
<1> QED BY <1>3, <1>5, <1>8, <1>9, OneCallBegins DEF McpUndisturbed

LEMMA AfterDiscoverKeeps ==
  ASSUME McpInv, NEW x \in Pending, AfterDiscover(x), ~disturbed' PROVE McpUndisturbed'
<1>0. /\ PageShape /\ ~disturbed /\ hosts' = hosts /\ approvals' = approvals
      /\ pending[x].kind = "discover" /\ pending[x].phase = "answered" /\ pending[x] # Free
      /\ McpUndisturbed
      /\ mcpPage' = [[mcpPage EXCEPT !.state = "loading"] EXCEPT !.error = FALSE]
      /\ pending[x].call.host = mcpPage.selected
      /\ CallFits(pending[x])
  <2>1. /\ hosts' = hosts /\ approvals' = approvals
        /\ pending[x].kind = "discover" /\ pending[x].phase = "answered"
        /\ mcpPage' = [[mcpPage EXCEPT !.state = "loading"] EXCEPT !.error = FALSE]
        /\ disturbed' = (disturbed \/ pending[x].call.host # mcpPage.selected)
    BY DEF AfterDiscover, Reloading, Arrived
  <2>2. ~disturbed /\ pending[x].call.host = mcpPage.selected
    BY <2>1
  <2>3. PageShape /\ CallFits(pending[x]) /\ McpUndisturbed
    BY <2>2 DEF McpInv, McpTypes
  <2>4. pending[x] # Free
    BY <2>1 DEF Free
  <2> QED BY <2>1, <2>2, <2>3, <2>4
<1>1. \A y \in Pending : y # x => pending[y] = Free
  BY <1>0, OnlyThisCall DEF ServerKinds
<1>2. PICK h : h = pending[x].call.host /\ h = mcpPage.selected /\ h \in Hosts
               /\ GoOnTwice(x, LoadServers(NoHost), LoadTools(h))
  BY <1>0 DEF CallFits, AfterDiscover
<1>3. PICK z \in Pending \ {x} : pending' =
        [y \in Pending |-> IF y = x THEN Sent(LoadServers(NoHost)) ELSE IF y = z THEN Sent(LoadTools(h)) ELSE pending[y]]
  BY <1>0, <1>2, LoadsFit, GoOnTwiceTypes
<1>4. mcpPage'.state = "loading" /\ mcpPage'.selected = h
  BY <1>0, <1>2 DEF PageShape
<1>5. h # NoHost => h \in hosts
  <2>1. ASSUME NEW y \in Pending PROVE ~(Answered(pending[y], {"delete"}) /\ pending[y].call.selected)
    BY <1>0, <1>1, NoCallIsNoKind DEF Answered
  <2> QED BY <1>0, <1>2, <2>1 DEF McpUndisturbed, ToolsAreCurrent
<1>6. ServersAreCurrent'
  BY <1>4 DEF ServersAreCurrent
<1>7. pending'[z].kind = "tools" /\ pending'[x].kind = "servers" /\ pending'[x].call.select = NoHost
      /\ \A y \in Pending : y \notin {x, z} => pending'[y] = Free
  BY <1>1, <1>3 DEF Sent, LoadServers, LoadTools
<1>8. ToolsAreCurrent'
  BY <1>0, <1>4, <1>5, <1>7 DEF ToolsAreCurrent
<1>9. OnlyCall'
  BY <1>7 DEF OnlyCall
<1>10. ASSUME NEW y \in Pending, NEW p \in {pending'[y]} PROVE PendingFits(p)'
  <2>1. p \in {Free, Sent(LoadServers(NoHost)), Sent(LoadTools(h))}
    BY <1>1, <1>3
  <2>2. CASE p = Free
    <3>1. p.kind = "free"
      BY <2>2 DEF Free
    <3> QED BY <3>1 DEF PendingFits, Answered, UpdateKinds
  <2>3. CASE p # Free
    BY <1>4, <2>1, <2>3 DEF Sent, LoadServers, LoadTools, PendingFits, Answered, UpdateKinds
  <2> QED BY <2>2, <2>3
<1> QED BY <1>6, <1>8, <1>9, <1>10 DEF McpUndisturbed

LEMMA McpStep ==
  ASSUME McpInv, [McpNext]_mcpVars PROVE McpInv'
<1>1. ASSUME NEW h \in Hosts, SelectHost(h) PROVE McpInv'
  BY <1>1, SelectHostTypes, SelectHostKeeps DEF McpInv
<1>2. ASSUME NEW h \in Hosts, HandleAddServer(h) PROVE McpInv'
  BY <1>2, HandleAddTypes, HandleAddKeeps DEF McpInv
<1>3. ASSUME NEW h \in Hosts, NEW kind \in {"discover", "delete", "toggle"}, HandleServer(kind, h) PROVE McpInv'
  BY <1>3, HandleServerTypes, HandleServerKeeps DEF McpInv
<1>4. ASSUME NEW t \in DOMAIN HostOf, ToggleToolSelection(t) PROVE McpInv'
  BY <1>4, PageOnlyTypes, ToggleKeeps DEF McpInv
<1>5. ASSUME NEW t \in DOMAIN HostOf, HandleUpdate(t) PROVE McpInv'
  BY <1>5, HandleUpdateTypes, HandleUpdateKeeps DEF McpInv
<1>6. ASSUME NEW t \in DOMAIN HostOf, ApproveElsewhere(t) PROVE McpInv'
  BY <1>6, OthersTypes DEF McpInv, ApproveElsewhere
<1>7. ASSUME HandleBulkApprove PROVE McpInv'
  BY <1>7, HandleBulkTypes, HandleBulkKeeps DEF McpInv
<1>8. ASSUME RetryServers PROVE McpInv'
  BY <1>8, RetryTypes, RetryKeeps DEF McpInv
<1>9. ASSUME OpenMcpPage PROVE McpInv'
  BY <1>9, OthersTypes, OpenMcpKeeps DEF McpInv
<1>10. ASSUME NEW x \in Pending, Serve(x) PROVE McpInv'
  BY <1>10, ServeTypes, ServeKeeps DEF McpInv
<1>11. ASSUME NEW x \in Pending, Answers(x) PROVE McpInv'
  <2>1. McpTypes'
    BY <1>11, AnswersTypes
  <2>2. ~disturbed' => McpUndisturbed'
    BY <1>11, ShowServersKeeps, ShowToolsKeeps, UpdateShown, CallFailsKeeps, AfterDiscoverKeeps,
       AfterServerKeeps DEF Answers
  <2> QED BY <2>1, <2>2 DEF McpInv
<1>12. ASSUME UNCHANGED mcpVars PROVE McpInv'
  <2>1. McpTypes'
    BY <1>12 DEF mcpVars, McpInv, McpTypes, McpTypeOK, PageShape
  <2>2. ~disturbed' => McpUndisturbed'
    BY <1>12, OnlyMarks DEF mcpVars, McpInv
  <2> QED BY <2>1, <2>2 DEF McpInv
<1> QED BY <1>1, <1>2, <1>3, <1>4, <1>5, <1>6, <1>7, <1>8, <1>9, <1>10, <1>11, <1>12, Zenon
        DEF McpNext, Answers

(* An owner who waits for each answer sees what is stored, for any number  *)
(* of servers and tools, any number of approvals, and whatever fails.      *)
THEOREM ThePatientOwnerSeesTheRows == McpSpec => [](McpTypeOK /\ PatientPageIsCurrent)
<1>1. McpInit => McpInv
  BY McpTypesStart, McpStartsUndisturbed DEF McpInv
<1>2. McpInv /\ [McpNext]_mcpVars => McpInv'
  BY McpStep
<1>3. McpInv => McpTypeOK /\ PatientPageIsCurrent
  BY QuietPage DEF PatientPageIsCurrent, McpInv, McpTypes
<1> QED BY <1>1, <1>2, <1>3, PTL DEF McpSpec

-----------------------------------------------------------------------------
(* What the registry holds (ToolCatalog), however many handlers overlap: a  *)
(* list to register has rows of the catalogue, of some moment, and only an  *)
(* approved one is put into the registry.                                   *)

Entries == Offered \X (ToolRow \cup {Absent})

FrameIsTyped(f) ==
  /\ f.pc \in {"register", "connect", "put", "replace"} => f.left \in Seq(Entries)
  /\ f.pc \in {"register", "connect", "put"} => f.left # <<>>
  /\ f.pc \in {"connect", "put"} => IsApproved(Head(f.left)[2])
  /\ f.pc = "put" => f.connection \in 0 .. MaxRotations

FramesAreTyped == \A r \in Requests : FrameIsTyped(request[r])

RegistryIsTyped == registry \in [Offered -> ToolSpec \cup {Unregistered}]

RegistryInv == RegistryIsTyped /\ FramesAreTyped

LEMMA RestIsTyped == FrameIsTyped(AtRest)
BY DEF FrameIsTyped, AtRest

LEMMA OneFrameIsTyped ==
  ASSUME CatalogInv, FramesAreTyped, NEW r \in Requests, NEW frame, Goto(r, frame),
         FrameIsTyped(frame)
  PROVE  FramesAreTyped'
<1>1. request'[r] = frame /\ \A x \in Requests : x # r => request'[x] = request[x]
  BY DEF CatalogInv, CatalogTypes, Goto
<1> QED
  BY <1>1 DEF FramesAreTyped, FrameIsTyped, IsApproved

LEMMA RestOfTheListIsTyped ==
  ASSUME CatalogInv, FramesAreTyped, NEW r \in Requests, NEW left \in Seq(Entries),
         RegisterRest(r, left)
  PROVE  FramesAreTyped'
<1>1. CASE left = <<>>
  BY <1>1, RestIsTyped, OneFrameIsTyped DEF RegisterRest
<1>2. CASE left # <<>>
  <2>1. PICK frame : frame = [pc |-> "register", left |-> left]
    OBVIOUS
  <2>2. Goto(r, frame) /\ FrameIsTyped(frame)
    BY <1>2, <2>1 DEF RegisterRest, FrameIsTyped
  <2> QED
    BY <2>2, OneFrameIsTyped
<1> QED
  BY <1>1, <1>2

\* A frame that holds no list.
LEMMA OtherFrames ==
  ASSUME CatalogInv, FramesAreTyped, NEW r \in Requests, NEW frame, Goto(r, frame),
         frame.pc \notin {"register", "connect", "put", "replace"}
  PROVE  FramesAreTyped'
<1>1. FrameIsTyped(frame)
  BY DEF FrameIsTyped
<1> QED
  BY <1>1, OneFrameIsTyped

LEMMA RegisteringIsTyped ==
  ASSUME CatalogInv, RegistryInv, NEW r \in Requests,
         CheckServer(r) \/ ReadConnection(r) \/ RegisterTool(r) \/ ReplaceNamespace(r)
  PROVE  RegistryInv'
<1>1. PICK f, left : f = request[r] /\ left = f.left
  OBVIOUS
<1>2. FrameIsTyped(f) /\ f.pc \in {"register", "connect", "put", "replace"} /\ FramesAreTyped
  BY <1>1 DEF RegistryInv, FramesAreTyped, CheckServer, ReadConnection, RegisterTool, ReplaceNamespace
<1>3. left \in Seq(Entries) /\ (f.pc # "replace" => left # <<>>)
  BY <1>1, <1>2 DEF FrameIsTyped
<1>4. left # <<>> => Tail(left) \in Seq(Entries) /\ Head(left) \in Entries
  BY <1>3
<1>5. UNCHANGED registry => RegistryIsTyped'
  BY DEF RegistryInv, RegistryIsTyped
<1>6. CASE CheckServer(r)
  <2>1. f.pc = "register" /\ UNCHANGED registry
    BY <1>1, <1>6 DEF CheckServer
  <2>2. CASE IsApproved(Head(left)[2]) /\ Usable
    <3>1. PICK pc : pc = IF server.oauth THEN "put" ELSE "connect"
      OBVIOUS
    <3>2. PICK frame : frame = [pc |-> pc, left |-> left, connection |-> 0]
      OBVIOUS
    <3>3. Goto(r, frame)
      BY <1>1, <1>6, <2>2, <3>1, <3>2 DEF CheckServer
    <3>4. 0 \in 0 .. MaxRotations
      BY CatalogAssumption
    <3>5. FrameIsTyped(frame)
      BY <1>3, <2>1, <2>2, <3>1, <3>2, <3>4 DEF FrameIsTyped
    <3> QED
      BY <1>2, <1>5, <2>1, <3>3, <3>5, OneFrameIsTyped DEF RegistryInv
  <2>3. CASE ~ (IsApproved(Head(left)[2]) /\ Usable)
    <3>1. RegisterRest(r, Tail(left))
      BY <1>1, <1>6, <2>3 DEF CheckServer
    <3> QED
      BY <1>2, <1>3, <1>4, <1>5, <2>1, <3>1, RestOfTheListIsTyped DEF RegistryInv
  <2> QED
    BY <2>2, <2>3
<1>7. CASE ReadConnection(r)
  <2>1. f.pc = "connect" /\ UNCHANGED registry
    BY <1>1, <1>7 DEF ReadConnection
  <2>2. CASE server.exists
    <3>1. PICK connection : connection = server.connection
      OBVIOUS
    <3>2. PICK frame : frame = [f EXCEPT !.pc = "put", !.connection = connection]
      OBVIOUS
    <3>3. Goto(r, frame)
      BY <1>1, <1>7, <2>2, <3>1, <3>2 DEF ReadConnection
    <3>4. f = [pc |-> "connect", left |-> left, connection |-> 0]
      BY <1>1, <2>1 DEF CatalogInv, FrameFits
    <3>5. frame.pc = "put" /\ frame.left = left /\ frame.connection = connection
      BY <3>2, <3>4
    <3>6. connection \in 0 .. MaxRotations
      BY <3>1 DEF CatalogInv, CatalogTypes, Server
    <3>7. IsApproved(Head(left)[2])
      BY <1>1, <1>2, <2>1 DEF FrameIsTyped
    <3>8. FrameIsTyped(frame)
      BY <1>3, <2>1, <3>5, <3>6, <3>7 DEF FrameIsTyped
    <3> QED
      BY <1>2, <1>5, <2>1, <3>3, <3>8, OneFrameIsTyped DEF RegistryInv
  <2>3. CASE ~ server.exists
    <3>1. RegisterRest(r, Tail(left))
      BY <1>1, <1>7, <2>3 DEF ReadConnection
    <3> QED
      BY <1>2, <1>3, <1>4, <1>5, <2>1, <3>1, RestOfTheListIsTyped DEF RegistryInv
  <2> QED
    BY <2>2, <2>3
<1>8. CASE RegisterTool(r)
  <2>1. f.pc = "put" /\ RegisterRest(r, Tail(left))
    BY <1>1, <1>8 DEF RegisterTool
  <2>2. PICK t, row : t = Head(left)[1] /\ row = Head(left)[2]
    OBVIOUS
  <2>3. PICK connection : connection = f.connection
    OBVIOUS
  <2>4. PICK version, risk : version = row.version /\ risk = row.risk
    OBVIOUS
  <2>5. t \in Offered /\ row \in ToolRow \cup {Absent} /\ IsApproved(row)
        /\ connection \in 0 .. MaxRotations
    BY <1>1, <1>2, <1>3, <1>4, <2>1, <2>2, <2>3 DEF Entries, FrameIsTyped
  <2>6. row \in ToolRow /\ row.risk # "none"
    BY <2>5 DEF IsApproved
  <2>7. version \in Versions /\ risk \in Risks
    BY <2>4, <2>6 DEF ToolRow
  <2>8. PICK spec : spec = [version |-> version, risk |-> risk, connection |-> connection]
    OBVIOUS
  <2>9. spec \in ToolSpec
    BY <2>5, <2>7, <2>8 DEF ToolSpec
  <2>10. registry' = [registry EXCEPT ![t] = spec]
    BY <1>1, <1>8, <2>2, <2>3, <2>4, <2>8 DEF RegisterTool
  <2>11. RegistryIsTyped'
    BY <2>5, <2>9, <2>10 DEF RegistryInv, RegistryIsTyped
  <2> QED
    BY <1>2, <1>3, <1>4, <2>1, <2>11, RestOfTheListIsTyped DEF RegistryInv
<1>9. CASE ReplaceNamespace(r)
  <2>1. RegisterRest(r, left) /\ registry' = [t \in Offered |-> Unregistered]
    BY <1>1, <1>9 DEF ReplaceNamespace, ClearNamespace
  <2> QED
    BY <1>2, <1>3, <2>1, RestOfTheListIsTyped DEF RegistryInv, RegistryIsTyped
<1> QED
  BY <1>6, <1>7, <1>8, <1>9

\* The lists: of one tool that was decided, of a catalogue that was stored,
\* and of the rows that a changed server has.
LEMMA ListsAreTyped ==
  ASSUME CatalogInv, CatalogInv', RegistryInv, NEW r \in Requests,
         SetApproval(r) \/ StoreCatalog(r) \/ ListRows(r)
  PROVE  RegistryInv'
<1>1. UNCHANGED registry
  BY DEF SetApproval, StoreCatalog, ListRows
<1>2. RegistryIsTyped' /\ FramesAreTyped
  BY <1>1 DEF RegistryInv, RegistryIsTyped
<1>3. \A t \in Offered : rows[t] \in ToolRow \cup {Absent} /\ rows'[t] \in ToolRow \cup {Absent}
  BY DEF CatalogInv, CatalogTypes
<1>4. AtRest.pc = "rest"
  BY DEF AtRest
<1>5. CASE SetApproval(r)
  <2>1. PICK tool, row : tool = request[r].tool
                         /\ row = Approval(rows[tool], request[r].risk, request[r].approved)
    OBVIOUS
  <2>2. tool \in Offered /\ request[r].approved \in BOOLEAN /\ request[r].risk \in Risks \cup {"none"}
    <3>1. request[r].pc = "patch" /\ FrameFits(r)
      BY <1>5, Zenon DEF SetApproval, CatalogInv
    <3> QED
      BY <2>1, <3>1 DEF FrameFits
  <2>3. CASE rows[tool] = Absent
    BY <1>2, <1>4, <1>5, <2>1, <2>3, OtherFrames DEF SetApproval, RegistryInv
  <2>4. CASE rows[tool] # Absent
    <3>1. row \in ToolRow
      BY <1>3, <2>1, <2>2, <2>4, ApprovalIsARow
    <3>2. PICK left : left = <<<<tool, row>>>>
      OBVIOUS
    <3>3. left \in Seq(Entries)
      BY <2>2, <3>1, <3>2 DEF Entries
    <3>4. CASE IsApproved(row)
      <4>1. RegisterRest(r, left)
        BY <1>5, <2>1, <2>4, <3>2, <3>4 DEF SetApproval
      <4> QED
        BY <1>2, <3>3, <4>1, RestOfTheListIsTyped DEF RegistryInv
    <3>5. CASE ~ IsApproved(row)
      <4>1. PICK frame : frame = [pc |-> "drop", tool |-> tool]
        OBVIOUS
      <4>2. Goto(r, frame) /\ frame.pc = "drop"
        BY <1>5, <2>1, <2>4, <3>5, <4>1 DEF SetApproval
      <4> QED
        BY <1>2, <4>2, OtherFrames DEF RegistryInv
    <3> QED
      BY <3>4, <3>5
  <2> QED
    BY <2>3, <2>4
<1>6. CASE StoreCatalog(r)
  <2>1. PICK found : found = request[r].found
    OBVIOUS
  <2>2. found \in Seq(Offered \X Versions)
    <3>1. request[r].pc = "store" /\ FrameFits(r)
      BY <1>6, Zenon DEF StoreCatalog, CatalogInv
    <3> QED
      BY <2>1, <3>1 DEF FrameFits
  <2>3. PICK left : left = [i \in DOMAIN found |-> <<found[i][1], RowAfter(found, i)>>]
    OBVIOUS
  <2>4. Goto(r, AtRest) \/ Goto(r, [pc |-> "replace", left |-> left])
    BY <1>6, <2>1, <2>3, Zenon DEF StoreCatalog
  <2>5. left \in Seq(Entries)
    <3>1. \A i \in DOMAIN found : <<found[i][1], RowAfter(found, i)>> \in Entries
      BY <2>2, EveryRowIsARow DEF Entries
    <3> QED
      BY <2>2, <2>3, <3>1
  <2>6. PICK frame : frame = [pc |-> "replace", left |-> left]
    OBVIOUS
  <2>7. FrameIsTyped(frame)
    BY <2>5, <2>6 DEF FrameIsTyped
  <2> QED
    BY <1>2, <2>4, <2>6, <2>7, RestIsTyped, OneFrameIsTyped DEF RegistryInv
<1>7. CASE ListRows(r)
  <2>1. PICK S : S = {t \in Offered : rows[t] # Absent}
    OBVIOUS
  <2>2. PICK tools : tools = SetToSeq(S)
    OBVIOUS
  <2>3. Cardinality(S) \in Nat /\ tools \in [1 .. Cardinality(S) -> S]
    BY <2>1, <2>2, OfferedSubsetsAreFinite, SetToSeqIsOnto
  <2>4. PICK left : left = [i \in DOMAIN tools |-> <<tools[i], rows[tools[i]]>>]
    OBVIOUS
  <2>5. \A i \in 1 .. Cardinality(S) : <<tools[i], rows[tools[i]]>> \in Entries
    BY <1>3, <2>1, <2>3 DEF Entries
  <2>6. left \in Seq(Entries)
    BY <2>3, <2>4, <2>5
  <2>7. RegisterRest(r, left)
    BY <1>7, <2>1, <2>2, <2>4 DEF ListRows
  <2> QED
    BY <1>2, <2>6, <2>7, RestOfTheListIsTyped DEF RegistryInv
<1> QED
  BY <1>5, <1>6, <1>7

\* The other handlers hold no list, and take tools out of the registry only.
LEMMA OtherHandlersAreTyped ==
  ASSUME CatalogInv, RegistryInv, NEW r \in Requests,
         \/ \E t \in Offered, patch \in Patches : ReadTool(r, t, patch)
         \/ \E oauth \in BOOLEAN : CreateServer(r, oauth)
         \/ \E enabled, rotate \in BOOLEAN : UpdateServer(r, enabled, rotate)
         \/ UnregisterTool(r) \/ Discover(r) \/ FetchPage(r) \/ ConsumeOAuthState(r)
         \/ StoreOAuthTokens(r) \/ ReloadServer(r) \/ DeleteServer(r) \/ StatementFails(r)
  PROVE  RegistryInv'
<1> DEFINE Other(frame) == frame.pc \notin {"register", "connect", "put", "replace"}
<1>1. /\ Other(AtRest) /\ \A a : Other([pc |-> "drop", tool |-> a])
      /\ Other([pc |-> "exchange"]) /\ Other([pc |-> "rows"])
      /\ \A a : Other([pc |-> "reload", enabled |-> a])
      /\ \A a, b, c : Other([pc |-> "patch", tool |-> a, risk |-> b, approved |-> c])
      /\ \A a, b, c : Other([pc |-> "list", found |-> a, page |-> b, new |-> c])
      /\ \A a, b : Other([pc |-> "store", found |-> a, new |-> b])
  BY DEF AtRest
<1>2. \A f \in ListFrame : \A a, n : Other([f EXCEPT !.found = a, !.page = n])
  BY DEF ListFrame
<1>3. request[r].pc = "list" => request[r] \in ListFrame
  BY DEF CatalogInv, FrameFits
<1> HIDE DEF Other
<1>4. \E frame : Goto(r, frame) /\ Other(frame)
  <2>1. ASSUME NEW t \in Offered, NEW patch \in Patches, ReadTool(r, t, patch)
        PROVE  \E frame : Goto(r, frame) /\ Other(frame)
    BY <1>1, <2>1, Zenon DEF ReadTool, Begin
  <2>2. ASSUME NEW oauth \in BOOLEAN, CreateServer(r, oauth)
        PROVE  \E frame : Goto(r, frame) /\ Other(frame)
    BY <1>1, <2>2, Zenon DEF CreateServer, Begin
  <2>3. ASSUME NEW enabled \in BOOLEAN, NEW rotate \in BOOLEAN, UpdateServer(r, enabled, rotate)
        PROVE  \E frame : Goto(r, frame) /\ Other(frame)
    BY <1>1, <2>3, Zenon DEF UpdateServer, Begin
  <2>4. CASE UnregisterTool(r) \/ Discover(r) \/ ConsumeOAuthState(r) \/ StoreOAuthTokens(r)
             \/ ReloadServer(r) \/ DeleteServer(r) \/ StatementFails(r)
    BY <1>1, <2>4, Zenon DEF UnregisterTool, Discover, ConsumeOAuthState, StoreOAuthTokens,
       ReloadServer, DeleteServer, StatementFails, Begin
  <2>5. CASE FetchPage(r)
    BY <1>1, <1>2, <1>3, <2>5, Zenon DEF FetchPage
  <2> QED
    BY <2>1, <2>2, <2>3, <2>4, <2>5
<1>5. FramesAreTyped'
  BY <1>4, OtherFrames DEF RegistryInv, Other
<1>6. RegistryIsTyped'
  <2>1. \/ UNCHANGED registry \/ registry' = [t \in Offered |-> Unregistered]
        \/ \E t : registry' = [registry EXCEPT ![t] = Unregistered]
    BY Zenon DEF ReadTool, CreateServer, UpdateServer, UnregisterTool, Discover, FetchPage,
       ConsumeOAuthState, StoreOAuthTokens, ReloadServer, DeleteServer, StatementFails,
       ClearNamespace
  <2> QED
    BY <2>1 DEF RegistryInv, RegistryIsTyped
<1> QED
  BY <1>5, <1>6 DEF RegistryInv

LEMMA RestartIsTyped ==
  ASSUME CatalogInv, RegistryInv, RestartProcess
  PROVE  RegistryInv'
<1>1. request' = [r \in Requests |-> AtRest] /\ registry' = [t \in Offered |-> OnRestart(t)]
  BY DEF RestartProcess, OnRestart
<1>2. ASSUME NEW t \in Offered PROVE OnRestart(t) \in ToolSpec \cup {Unregistered}
  <2>1. PICK row, connection : row = rows[t]
                               /\ connection = IF server.oauth THEN 0 ELSE server.connection
    OBVIOUS
  <2>2. PICK version, risk : version = row.version /\ risk = row.risk
    OBVIOUS
  <2>3. connection \in 0 .. MaxRotations
    BY <2>1, CatalogAssumption DEF CatalogInv, CatalogTypes, Server
  <2>4. IsApproved(row) => version \in Versions /\ risk \in Risks
    BY <2>1, <2>2 DEF CatalogInv, CatalogTypes, IsApproved, ToolRow
  <2>5. OnRestart(t) = Unregistered
        \/ (IsApproved(row) /\ OnRestart(t) = [version |-> version, risk |-> risk, connection |-> connection])
    BY <2>1, <2>2 DEF OnRestart, ApprovedTools
  <2> QED
    BY <2>3, <2>4, <2>5 DEF ToolSpec
<1> QED
  BY <1>1, <1>2, RestIsTyped DEF RegistryInv, RegistryIsTyped, FramesAreTyped

(* However handlers overlap, whatever fails and whenever the process is     *)
(* started again, a tool that is registered has a version, a risk class the *)
(* owner gave and a connection the server had: no handler registers a tool  *)
(* from a row that was not approved (registerApprovedMcpTool).              *)
THEOREM TheRegistryIsTyped == CatalogSpec => []CatalogTypeOK
<1>1. CatalogInit => RegistryInv
  BY RestIsTyped DEF CatalogInit, RegistryInv, RegistryIsTyped, FramesAreTyped
<1>2. CatalogInv /\ CatalogInv' /\ RegistryInv /\ [CatalogNext]_catalogVars => RegistryInv'
  <2> SUFFICES ASSUME CatalogInv, CatalogInv', RegistryInv, [CatalogNext]_catalogVars
               PROVE  RegistryInv'
    OBVIOUS
  <2>1. CASE UNCHANGED <<registry, request>>
    BY <2>1 DEF RegistryInv, RegistryIsTyped, FramesAreTyped, FrameIsTyped, IsApproved
  <2>2. CASE UNCHANGED catalogVars \/ StartOAuth
    BY <2>1, <2>2 DEF catalogVars, StartOAuth
  <2> QED
    BY <2>2, RegisteringIsTyped, ListsAreTyped, OtherHandlersAreTyped, RestartIsTyped, Zenon
       DEF CatalogNext
<1>3. CatalogInv /\ RegistryInv => CatalogTypeOK
  BY DEF CatalogInv, CatalogTypes, RegistryInv, RegistryIsTyped, CatalogTypeOK
<1> QED
  BY <1>1, <1>2, <1>3, CatalogInvariant, PTL DEF CatalogSpec
=============================================================================
