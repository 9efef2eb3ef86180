------------------------ MODULE ControlClientsProofs ------------------------
(***************************************************************************)
(* What the tokens of the control plane let in, what the Access page shows *)
(* and what lists read page by page tell, for any number of clients,       *)
(* requests and rows of a page.                                            *)
(***************************************************************************)
EXTENDS ControlClients, Paging, RankingsProofs, SequenceTheorems, FiniteSetTheorems, TLAPS

-----------------------------------------------------------------------------
(* Requests with a token of the control plane (ControlClients).  A request  *)
(* keeps the client it arrived for; no row of a client goes away and no     *)
(* revocation is taken back.                                                *)

KeptClient == [scopes : Grants, revoked : BOOLEAN, used : {"never", "recent", "old"}, revocations : Nat]

ClientsFit == clients \in Seq(KeptClient) /\ Len(clients) <= MaxClients

RowsAreKept ==
  \A c \in DOMAIN clients :
    c \in DOMAIN clients' /\ (clients[c].revoked => clients'[c].revoked)

AtTheDoor == [pc : {"touch", "reselect", "admitted"}, client : Nat, scopes : Grants, call : Calls]

DoorInv ==
  /\ ClientsFit
  /\ inbound = [r \in Inbound |-> inbound[r]]
  /\ \A r \in Inbound :
       inbound[r].pc \in {"touch", "reselect", "admitted"} => inbound[r] \in AtTheDoor

LEMMA NothingWritten ==
  ASSUME ClientsFit, UNCHANGED clients
  PROVE  ClientsFit' /\ RowsAreKept
BY DEF ClientsFit, RowsAreKept

LEMMA RowIsWritten ==
  ASSUME ClientsFit, NEW c \in DOMAIN clients, NEW row \in KeptClient,
         clients[c].revoked => row.revoked, clients' = [clients EXCEPT ![c] = row]
  PROVE  ClientsFit' /\ RowsAreKept
<1>1. clients \in Seq(KeptClient) /\ clients' \in Seq(KeptClient) /\ Len(clients') = Len(clients)
  BY DEF ClientsFit
<1> QED
  BY <1>1 DEF ClientsFit, RowsAreKept

LEMMA RowIsAdded ==
  ASSUME ClientsFit, NEW scopes \in Grants, CreateControlClient(scopes)
  PROVE  /\ ClientsFit' /\ RowsAreKept
         /\ Len(clients') = Len(clients) + 1 /\ Len(clients') \in DOMAIN clients'
         /\ ~ clients'[Len(clients')].revoked
<1>1. PICK row : row = [scopes |-> scopes, revoked |-> FALSE, used |-> "never", revocations |-> 0]
  OBVIOUS
<1>2. row \in KeptClient /\ ~ row.revoked
  BY <1>1 DEF KeptClient
<1>3. clients' = Append(clients, row) /\ Len(clients) < MaxClients
  BY <1>1 DEF CreateControlClient
<1>4. clients \in Seq(KeptClient) /\ Len(clients) \in Nat /\ MaxClients \in Nat
  BY ClientsAssumption DEF ClientsFit
<1>5. /\ clients' \in Seq(KeptClient) /\ Len(clients') = Len(clients) + 1
      /\ clients'[Len(clients')] = row
      /\ \A c \in DOMAIN clients : c \in DOMAIN clients' /\ clients'[c] = clients[c]
  BY <1>2, <1>3, <1>4
<1> QED
  BY <1>2, <1>3, <1>4, <1>5 DEF ClientsFit, RowsAreKept

LEMMA RowIsRevoked ==
  ASSUME ClientsFit, NEW c \in DOMAIN clients, RevokeControlClient(c)
  PROVE  /\ ClientsFit' /\ RowsAreKept
         /\ DOMAIN clients' = DOMAIN clients /\ clients'[c].revoked
<1>1. clients \in Seq(KeptClient)
  BY DEF ClientsFit
<1>2. clients[c] \in KeptClient
  BY <1>1
<1>3. CASE clients[c].revoked
  BY <1>1, <1>3, NothingWritten DEF RevokeControlClient, Active
<1>4. CASE ~ clients[c].revoked
  <2>1. PICK row : row = [clients[c] EXCEPT !.revoked = TRUE, !.revocations = clients[c].revocations + 1]
    OBVIOUS
  <2>2. row \in KeptClient /\ row.revoked
    <3>1. PICK old : old = clients[c]
      OBVIOUS
    <3>2. PICK mid : mid = [old EXCEPT !.revoked = TRUE]
      OBVIOUS
    <3>3. mid \in KeptClient /\ mid.revoked /\ mid.revocations = old.revocations
      BY <1>2, <3>1, <3>2 DEF KeptClient
    <3>4. row = [mid EXCEPT !.revocations = mid.revocations + 1]
      BY <2>1, <3>1, <3>2, <3>3
    <3> QED
      BY <3>3, <3>4 DEF KeptClient
  <2>3. clients' = [clients EXCEPT ![c] = row]
    BY <1>1, <1>2, <1>4, <2>1 DEF RevokeControlClient, Active, KeptClient
  <2>4. ClientsFit' /\ RowsAreKept
    BY <2>2, <2>3, RowIsWritten
  <2> QED
    BY <1>1, <2>2, <2>3, <2>4
<1> QED
  BY <1>2, <1>3, <1>4 DEF KeptClient

LEMMA ClientIsUsed ==
  ASSUME ClientsFit, NEW c \in DOMAIN clients, NEW used \in {"never", "recent", "old"},
         clients' = [clients EXCEPT ![c].used = used]
  PROVE  ClientsFit' /\ RowsAreKept
<1>1. clients \in Seq(KeptClient)
  BY DEF ClientsFit
<1>2. clients[c] \in KeptClient
  BY <1>1
<1>3. PICK row : row = [clients[c] EXCEPT !.used = used]
  OBVIOUS
<1>4. row \in KeptClient /\ row.revoked = clients[c].revoked
  BY <1>2, <1>3 DEF KeptClient
<1> QED
  BY <1>3, <1>4, RowIsWritten

LEMMA RequestMoves ==
  ASSUME DoorInv, NEW r \in Inbound, NEW frame, Step(r, frame), ClientsFit',
         frame.pc \in {"touch", "reselect", "admitted"} => frame \in AtTheDoor
  PROVE  /\ DoorInv' /\ inbound'[r] = frame
         /\ \A x \in Inbound \ {r} : inbound'[x] = inbound[x]
<1>1. inbound' = [inbound EXCEPT ![r] = frame] /\ inbound = [x \in Inbound |-> inbound[x]]
  BY DEF Step, DoorInv
<1>2. /\ inbound' = [x \in Inbound |-> inbound'[x]] /\ inbound'[r] = frame
      /\ \A x \in Inbound \ {r} : inbound'[x] = inbound[x]
  BY <1>1
<1> QED
  BY <1>2 DEF DoorInv

\* Who is let in, is let in on an active row.
LetInWhileActive(r) ==
  inbound'[r].pc = "admitted" /\ inbound[r].pc # "admitted" => Active(inbound'[r].client)

LEMMA ArrivalIsLetIn ==
  ASSUME DoorInv, NEW r \in Inbound, NEW c \in DOMAIN clients, NEW call \in Calls,
         SelectClient(r, c, call)
  PROVE  DoorInv' /\ \A x \in Inbound : LetInWhileActive(x)
<1>1. clients \in Seq(KeptClient) /\ clients[c] \in KeptClient /\ c \in Nat
  BY DEF DoorInv, ClientsFit
<1>2. PICK pc \in {"touch", "admitted"} : Step(r, Arriving(pc, c, call))
  BY DEF SelectClient
<1>3. PICK scopes : scopes = clients[c].scopes
  OBVIOUS
<1>4. PICK frame : frame = [pc |-> pc, client |-> c, scopes |-> scopes, call |-> call]
  OBVIOUS
<1>5. frame \in AtTheDoor /\ frame.client = c
  BY <1>1, <1>3, <1>4 DEF AtTheDoor, KeptClient
<1>6. Step(r, frame) /\ Active(c) /\ UNCHANGED clients
  BY <1>2, <1>3, <1>4 DEF Arriving, SelectClient
<1>7. ClientsFit'
  BY <1>6, NothingWritten DEF DoorInv
<1>8. DoorInv' /\ inbound'[r] = frame /\ \A x \in Inbound \ {r} : inbound'[x] = inbound[x]
  BY <1>5, <1>6, <1>7, RequestMoves
<1> QED
  BY <1>5, <1>6, <1>8 DEF LetInWhileActive

\* A request at the door, one statement on.
LEMMA FrameAtTheDoor ==
  ASSUME DoorInv, NEW r \in Inbound, inbound[r].pc \in {"touch", "reselect"},
         NEW pc \in {"reselect", "admitted"}
  PROVE  /\ inbound[r] \in AtTheDoor
         /\ [inbound[r] EXCEPT !.pc = pc] \in AtTheDoor
         /\ [inbound[r] EXCEPT !.pc = pc].client = inbound[r].client
         /\ [inbound[r] EXCEPT !.pc = pc].pc = pc
<1>1. PICK frame : frame = inbound[r]
  OBVIOUS
<1>2. frame \in AtTheDoor
  BY <1>1 DEF DoorInv
<1>3. PICK next : next = [frame EXCEPT !.pc = pc]
  OBVIOUS
<1>4. next \in AtTheDoor /\ next.client = frame.client /\ next.pc = pc
  BY <1>2, <1>3 DEF AtTheDoor
<1> QED
  BY <1>1, <1>2, <1>3, <1>4

LEMMA TouchLetsIn ==
  ASSUME DoorInv, NEW r \in Inbound, TouchClient(r)
  PROVE  DoorInv' /\ RowsAreKept /\ \A x \in Inbound : LetInWhileActive(x)
<1>1. PICK c : c = inbound[r].client
  OBVIOUS
<1>2. inbound[r].pc = "touch" /\ ClientsFit
  BY DEF TouchClient, DoorInv
<1>3. CASE Active(c) /\ clients[c].used # "recent"
  <2>1. /\ Step(r, [inbound[r] EXCEPT !.pc = "admitted"])
        /\ clients' = [clients EXCEPT ![c].used = "recent"]
    BY <1>1, <1>3 DEF TouchClient
  <2>2. PICK frame : frame = [inbound[r] EXCEPT !.pc = "admitted"]
    OBVIOUS
  <2>3. frame \in AtTheDoor /\ frame.client = c
    BY <1>1, <1>2, <2>2, FrameAtTheDoor
  <2>4. ClientsFit' /\ RowsAreKept
    <3>1. CASE c \in DOMAIN clients
      BY <1>2, <2>1, <3>1, ClientIsUsed
    <3>2. CASE c \notin DOMAIN clients
      <4>1. clients' = clients
        BY <1>2, <2>1, <3>2 DEF ClientsFit
      <4> QED
        BY <1>2, <4>1, NothingWritten
    <3> QED
      BY <3>1, <3>2
  <2>5. DoorInv' /\ inbound'[r] = frame /\ \A x \in Inbound \ {r} : inbound'[x] = inbound[x]
    BY <2>1, <2>2, <2>3, <2>4, RequestMoves
  <2> QED
    BY <1>3, <2>3, <2>4, <2>5 DEF LetInWhileActive
<1>4. CASE ~ (Active(c) /\ clients[c].used # "recent")
  <2>1. Step(r, [inbound[r] EXCEPT !.pc = "reselect"]) /\ UNCHANGED clients
    BY <1>1, <1>4 DEF TouchClient
  <2>2. PICK frame : frame = [inbound[r] EXCEPT !.pc = "reselect"]
    OBVIOUS
  <2>3. frame \in AtTheDoor /\ frame.pc = "reselect"
    BY <1>2, <2>2, FrameAtTheDoor
  <2>4. ClientsFit' /\ RowsAreKept
    BY <1>2, <2>1, NothingWritten
  <2>5. DoorInv' /\ inbound'[r] = frame /\ \A x \in Inbound \ {r} : inbound'[x] = inbound[x]
    BY <2>1, <2>2, <2>3, <2>4, RequestMoves
  <2> QED
    BY <2>3, <2>4, <2>5 DEF LetInWhileActive
<1> QED
  BY <1>3, <1>4

LEMMA ReselectLetsIn ==
  ASSUME DoorInv, NEW r \in Inbound, ReselectClient(r)
  PROVE  DoorInv' /\ \A x \in Inbound : LetInWhileActive(x)
<1>1. inbound[r].pc = "reselect" /\ UNCHANGED clients
  BY DEF ReselectClient
<1>2. ClientsFit'
  BY <1>1, NothingWritten DEF DoorInv
<1>3. CASE Active(inbound[r].client)
  <2>1. PICK frame : frame = [inbound[r] EXCEPT !.pc = "admitted"]
    OBVIOUS
  <2>2. Step(r, frame)
    BY <1>3, <2>1 DEF ReselectClient
  <2>3. frame \in AtTheDoor /\ frame.client = inbound[r].client
    BY <1>1, <2>1, FrameAtTheDoor
  <2>4. DoorInv' /\ inbound'[r] = frame /\ \A x \in Inbound \ {r} : inbound'[x] = inbound[x]
    BY <1>2, <2>2, <2>3, RequestMoves
  <2> QED
    BY <1>3, <2>3, <2>4 DEF LetInWhileActive
<1>4. CASE ~ Active(inbound[r].client)
  <2>1. Step(r, Resting)
    BY <1>4 DEF ReselectClient
  <2>2. Resting.pc = "rest"
    BY DEF Resting
  <2>3. DoorInv' /\ inbound'[r] = Resting /\ \A x \in Inbound \ {r} : inbound'[x] = inbound[x]
    BY <1>2, <2>1, <2>2, RequestMoves
  <2> QED
    BY <2>2, <2>3 DEF LetInWhileActive
<1> QED
  BY <1>3, <1>4

LEMMA CallGoesOn ==
  ASSUME DoorInv, NEW r \in Inbound,
         \/ DispatchCall(r) \/ TurnAway(r) \/ ClaimOperation(r) \/ EndRequest(r)
         \/ \E status \in {"completed", "failed"} : PerformOperation(r, status)
  PROVE  DoorInv' /\ UNCHANGED clients /\ \A x \in Inbound : LetInWhileActive(x)
<1>1. \E frame : Step(r, frame) /\ frame.pc \in {"rest", "claim", "perform", "answered"}
  <2> DEFINE Late(frame) == frame.pc \in {"rest", "claim", "perform", "answered"}
  <2>1. \A a, b, c : /\ Late([pc |-> "claim", client |-> a, call |-> b, key |-> c])
                     /\ Late([pc |-> "perform", call |-> a, operation |-> b])
                     /\ Late([pc |-> "answered", call |-> a, outcome |-> b])
                     /\ Late(Resting)
    BY DEF Resting
  <2> HIDE DEF Late
  <2>2. DispatchCall(r) => \E frame : Step(r, frame) /\ Late(frame)
    BY Zenon, <2>1 DEF DispatchCall
  <2>3. TurnAway(r) => \E frame : Step(r, frame) /\ Late(frame)
    BY Zenon, <2>1 DEF TurnAway
  <2>4. ClaimOperation(r) => \E frame : Step(r, frame) /\ Late(frame)
    BY Zenon, <2>1 DEF ClaimOperation, Answered
  <2>5. EndRequest(r) => \E frame : Step(r, frame) /\ Late(frame)
    BY Zenon, <2>1 DEF EndRequest
  <2>6. \A status \in {"completed", "failed"} :
          PerformOperation(r, status) => \E frame : Step(r, frame) /\ Late(frame)
    BY Zenon, <2>1 DEF PerformOperation, Answered
  <2>7. \E frame : Step(r, frame) /\ Late(frame)
    BY <2>2, <2>3, <2>4, <2>5, <2>6
  <2> QED
    BY <2>7 DEF Late
<1>2. PICK frame : Step(r, frame) /\ frame.pc \in {"rest", "claim", "perform", "answered"}
  BY <1>1
<1>3. UNCHANGED clients
  BY Zenon DEF DispatchCall, TurnAway, ClaimOperation, EndRequest, PerformOperation
<1>4. ClientsFit'
  BY <1>3, NothingWritten DEF DoorInv
<1>5. DoorInv' /\ inbound'[r] = frame /\ \A x \in Inbound \ {r} : inbound'[x] = inbound[x]
  BY <1>2, <1>4, RequestMoves
<1> QED
  BY <1>2, <1>3, <1>5 DEF LetInWhileActive

LEMMA DoorStands ==
  ASSUME DoorInv, ClientsFit', UNCHANGED inbound
  PROVE  DoorInv' /\ \A x \in Inbound : LetInWhileActive(x)
BY DEF DoorInv, LetInWhileActive

\* Every step, for what the requests and the page need of the rows.
LEMMA RequestStep ==
  ASSUME DoorInv, [ClientsNext]_clientsVars
  PROVE  DoorInv' /\ RowsAreKept /\ \A x \in Inbound : LetInWhileActive(x)
<1>1. ClientsFit
  BY DEF DoorInv
<1>2. CASE UNCHANGED clients /\ UNCHANGED inbound
  BY <1>1, <1>2, NothingWritten, DoorStands
<1>3. ASSUME NEW scopes \in Grants, CreateElsewhere(scopes) \/ SubmitCreate(scopes)
      PROVE  DoorInv' /\ RowsAreKept /\ \A x \in Inbound : LetInWhileActive(x)
  BY <1>1, <1>3, RowIsAdded, DoorStands DEF CreateElsewhere, SubmitCreate
<1>4. ASSUME NEW c \in DOMAIN clients, RevokeElsewhere(c)
      PROVE  DoorInv' /\ RowsAreKept /\ \A x \in Inbound : LetInWhileActive(x)
  BY <1>1, <1>4, RowIsRevoked, DoorStands DEF RevokeElsewhere
<1>5. ASSUME NEW c \in DOMAIN clients, ConfirmRevoke(c)
      PROVE  DoorInv' /\ RowsAreKept /\ \A x \in Inbound : LetInWhileActive(x)
  BY <1>1, <1>5, RowIsRevoked, DoorStands DEF ConfirmRevoke
<1>6. ASSUME NEW c \in DOMAIN clients, HourPasses(c)
      PROVE  DoorInv' /\ RowsAreKept /\ \A x \in Inbound : LetInWhileActive(x)
  <2>1. clients' = [clients EXCEPT ![c].used = "old"] /\ UNCHANGED inbound
    BY <1>6 DEF HourPasses
  <2> QED
    BY <1>1, <2>1, ClientIsUsed, DoorStands
<1>7. ASSUME NEW r \in Inbound, NEW c \in DOMAIN clients, NEW call \in Calls, SelectClient(r, c, call)
      PROVE  DoorInv' /\ RowsAreKept /\ \A x \in Inbound : LetInWhileActive(x)
  <2>1. UNCHANGED clients
    BY <1>7 DEF SelectClient
  <2> QED
    BY <1>1, <1>7, <2>1, ArrivalIsLetIn, NothingWritten
<1>8. ASSUME NEW r \in Inbound, TouchClient(r)
      PROVE  DoorInv' /\ RowsAreKept /\ \A x \in Inbound : LetInWhileActive(x)
  BY <1>8, TouchLetsIn
<1>9. ASSUME NEW r \in Inbound, ReselectClient(r)
      PROVE  DoorInv' /\ RowsAreKept /\ \A x \in Inbound : LetInWhileActive(x)
  <2>1. UNCHANGED clients
    BY <1>9 DEF ReselectClient
  <2> QED
    BY <1>1, <1>9, <2>1, ReselectLetsIn, NothingWritten
<1>10. ASSUME NEW r \in Inbound,
              \/ DispatchCall(r) \/ TurnAway(r) \/ ClaimOperation(r) \/ EndRequest(r)
              \/ \E status \in {"completed", "failed"} : PerformOperation(r, status)
       PROVE  DoorInv' /\ RowsAreKept /\ \A x \in Inbound : LetInWhileActive(x)
  BY <1>1, <1>10, CallGoesOn, NothingWritten
<1>11. CASE UNCHANGED clientsVars
  BY <1>2, <1>11 DEF clientsVars
<1>12. CASE OpenPage \/ LeavePage \/ RetryLoad \/ ReadPage \/ ShowLoad \/ LoadFails
            \/ CreateAnswers \/ CreateFails \/ RevokeAnswers \/ RevokeFails
  <2>1. UNCHANGED clients /\ UNCHANGED inbound
    BY Zenon, <1>12 DEF OpenPage, LeavePage, RetryLoad, ReadPage, ShowLoad, LoadFails, CreateAnswers,
       CreateFails, RevokeAnswers, RevokeFails
  <2> QED
    BY <1>2, <2>1
<1>13. CASE EndpointNext
  BY Zenon, <1>3, <1>4, <1>6, <1>7, <1>8, <1>9, <1>10, <1>13 DEF EndpointNext
<1>14. CASE AccessNext
  BY Zenon, <1>3, <1>4, <1>5, <1>12, <1>14 DEF AccessNext
<1> QED
  BY <1>11, <1>13, <1>14 DEF ClientsNext

LEMMA ClientsBegin ==
  ASSUME ClientsInit
  PROVE  ClientsFit /\ DoorInv
<1>1. clients = <<>> /\ inbound = [r \in Inbound |-> Resting] /\ Resting.pc = "rest"
  BY DEF ClientsInit, Resting
<1>2. ClientsFit
  BY <1>1, ClientsAssumption DEF ClientsFit
<1> QED
  BY <1>1, <1>2 DEF DoorInv

(* A request is let in only while its client is active: a revocation that   *)
(* comes between the statements of the lookup is seen by the one that lets  *)
(* it in (client-repo.ts, authenticateControlToken).                        *)
THEOREM OnlyActiveClientsAreLetIn == ClientsSpec => AdmittedWhileActive
<1>1. ClientsInit => DoorInv
  BY ClientsBegin
<1>2. DoorInv /\ [ClientsNext]_clientsVars => DoorInv'
  BY RequestStep
<1>3. DoorInv /\ [ClientsNext]_clientsVars
        => [\A r \in Inbound : inbound'[r].pc = "admitted" /\ inbound[r].pc # "admitted"
              => Active(inbound'[r].client)]_clientsVars
  BY RequestStep DEF LetInWhileActive
<1> QED
  BY <1>1, <1>2, <1>3, PTL DEF ClientsSpec, AdmittedWhileActive

-----------------------------------------------------------------------------
(* The Access page (ControlClients).  Whatever the owner was told stays in  *)
(* what is shown: a load that was not overtaken read every client that was  *)
(* answered before it began, and one that was overtaken is merged behind    *)
(* what is shown.                                                           *)

ListedRow == [id : Nat, revoked : BOOLEAN]

LoadFrame == [busy : {TRUE}, items : Seq(ListedRow), cursor : Nat, read : BOOLEAN, behind : BOOLEAN]

PageFrame == [state : {"loading", "ready", "error"}, shown : Seq(ListedRow),
              load : {NotLoading} \cup LoadFrame, creating : Nat, revoking : Nat,
              answered : SUBSET (Nat \X BOOLEAN)]

\* What was answered is as the rows are, but for a later revocation.
IsTrue(a) == a[1] \in DOMAIN clients /\ (a[2] => clients[a[1]].revoked)

NeverActive(items, c) == \A i \in DOMAIN items : items[i].id = c => items[i].revoked

IsTold(items, a) == a[1] \in IdsShown(items) /\ (a[2] => NeverActive(items, a[1]))

AccessFits ==
  access # Closed =>
    /\ access \in PageFrame
    /\ access.state = "loading" <=> access.load # NotLoading
    /\ access.creating # 0 => access.creating \in DOMAIN clients
    /\ access.revoking # 0 => /\ access.state = "ready" /\ IsTrue(<<access.revoking, TRUE>>)
                              /\ access.revoking \in IdsShown(access.shown)
    /\ \A a \in access.answered : IsTrue(a) /\ IsTold(access.shown, a)

OneRowEach(items) == \A i, j \in DOMAIN items : items[i].id = items[j].id => items[i] = items[j]

\* What a load has read is not to be read again, and holds what was answered
\* before it began.
HasRead(load) ==
  /\ load.read <=> load.cursor = 0
  /\ \A i \in DOMAIN load.items : load.items[i].id >= load.cursor
  /\ OneRowEach(load.items)
  /\ ~ load.behind => \A a \in access.answered :
       /\ a[1] < load.cursor \/ a[1] \in IdsShown(load.items)
       /\ a[2] => NeverActive(load.items, a[1])

LoadFits == access # Closed /\ access.state = "loading" => HasRead(access.load)

AccessInv == ClientsFit /\ AccessFits /\ LoadFits

-----------------------------------------------------------------------------
(* Rows as a list, the newest first.                                        *)

YoungerRows(S, x) == {y \in S : y.id > x.id}

Listable(S) ==
  /\ IsFiniteSet(S)
  /\ \A x \in S : x.id \in Nat
  /\ \A x, y \in S : x.id = y.id => x = y

\* Counting the newer rows numbers the rows of a set from zero.
LEMMA RowsAreRanked ==
  ASSUME NEW S, Listable(S)
  PROVE  /\ Cardinality(S) \in Nat
         /\ \A x \in S : IsFiniteSet(YoungerRows(S, x)) /\ Cardinality(YoungerRows(S, x)) \in 0 .. Cardinality(S) - 1
         /\ \A x, y \in S : Cardinality(YoungerRows(S, x)) = Cardinality(YoungerRows(S, y)) => x = y
         /\ \A k \in 0 .. Cardinality(S) - 1 : \E x \in S : Cardinality(YoungerRows(S, x)) = k
<1> DEFINE n == Cardinality(S)
           rank == [x \in S |-> Cardinality(YoungerRows(S, x))]
<1>1. IsFiniteSet(S) /\ n \in Nat /\ \A x \in S : x.id \in Nat
  BY FS_CardinalityType DEF Listable
<1>2. ASSUME NEW x \in S
      PROVE  IsFiniteSet(YoungerRows(S, x)) /\ Cardinality(YoungerRows(S, x)) \in 0 .. n - 1
  <2>1. IsFiniteSet(S \ {x}) /\ Cardinality(S \ {x}) = n - 1
    BY <1>1, FS_RemoveElement
  <2>2. YoungerRows(S, x) \in SUBSET (S \ {x})
    BY <1>1 DEF YoungerRows
  <2>3. IsFiniteSet(YoungerRows(S, x)) /\ Cardinality(YoungerRows(S, x)) <= Cardinality(S \ {x})
    BY <2>1, <2>2, FS_Subset
  <2>4. Cardinality(YoungerRows(S, x)) \in Nat
    BY <2>3, FS_CardinalityType
  <2> QED
    BY <1>1, <2>1, <2>3, <2>4
<1>3. ASSUME NEW x \in S, NEW y \in S, x.id < y.id
      PROVE  Cardinality(YoungerRows(S, y)) < Cardinality(YoungerRows(S, x))
  <2>1. YoungerRows(S, y) \in SUBSET YoungerRows(S, x) /\ y \in YoungerRows(S, x) /\ y \notin YoungerRows(S, y)
    BY <1>1, <1>3 DEF YoungerRows
  <2>2. IsFiniteSet(YoungerRows(S, x))
    BY <1>2
  <2>3. /\ Cardinality(YoungerRows(S, y)) <= Cardinality(YoungerRows(S, x))
        /\ Cardinality(YoungerRows(S, x)) = Cardinality(YoungerRows(S, y)) => YoungerRows(S, x) = YoungerRows(S, y)
    BY <2>1, <2>2, FS_Subset
  <2>4. Cardinality(YoungerRows(S, y)) \in Int /\ Cardinality(YoungerRows(S, x)) \in Int
    BY <1>1, <1>2
  <2> QED
    BY <2>1, <2>3, <2>4
<1>4. ASSUME NEW x \in S, NEW y \in S, Cardinality(YoungerRows(S, x)) = Cardinality(YoungerRows(S, y))
      PROVE  x = y
  <2>1. /\ Cardinality(YoungerRows(S, y)) \in Int /\ Cardinality(YoungerRows(S, x)) \in Int
        /\ x.id \in Nat /\ y.id \in Nat
    BY <1>1, <1>2
  <2>2. ~ x.id < y.id /\ ~ y.id < x.id
    BY <1>3, <1>4, <2>1
  <2>3. x.id = y.id
    BY <2>1, <2>2
  <2> QED
    BY <2>3 DEF Listable
<1>5. rank \in Injection(S, 0 .. n - 1)
  <2>1. rank \in [S -> 0 .. n - 1]
    BY <1>2
  <2>2. \A x, y \in S : rank[x] = rank[y] => x = y
    BY <1>4
  <2> HIDE DEF rank
  <2> QED
    BY <2>1, <2>2 DEF Injection, IsInjective
<1>6. IsFiniteSet(0 .. n - 1) /\ Cardinality(0 .. n - 1) = n
  BY <1>1, FS_Interval
<1>7. rank \in Surjection(S, 0 .. n - 1)
  BY <1>5, <1>6, FS_Injection
<1>8. \A k \in 0 .. n - 1 : \E x \in S : Cardinality(YoungerRows(S, x)) = k
  BY <1>7 DEF Surjection
<1> QED
  BY <1>1, <1>2, <1>4, <1>8

LEMMA NewestFirstTellsAll ==
  ASSUME NEW S, Listable(S)
  PROVE  /\ Cardinality(S) \in Nat
         /\ NewestFirst(S) \in [1 .. Cardinality(S) -> S]
         /\ \A x \in S : \E i \in 1 .. Cardinality(S) : NewestFirst(S)[i] = x
<1> DEFINE n == Cardinality(S)
           At(i) == CHOOSE x \in S : Cardinality({y \in S : y.id > x.id}) = i - 1
<1>1. n \in Nat
  BY RowsAreRanked
<1>2. ASSUME NEW i \in 1 .. n
      PROVE  At(i) \in S /\ Cardinality(YoungerRows(S, At(i))) = i - 1
  <2>1. i - 1 \in 0 .. n - 1
    BY <1>1
  <2>2. \E x \in S : Cardinality(YoungerRows(S, x)) = i - 1
    BY <2>1, RowsAreRanked
  <2> QED
    BY <2>2 DEF YoungerRows
<1>3. ASSUME NEW x \in S
      PROVE  \E i \in 1 .. n : At(i) = x
  <2>1. PICK k : k = Cardinality(YoungerRows(S, x))
    OBVIOUS
  <2>2. k \in 0 .. n - 1
    BY <2>1, RowsAreRanked
  <2>3. k + 1 \in 1 .. n /\ (k + 1) - 1 = k
    BY <1>1, <2>2
  <2>4. At(k + 1) \in S /\ Cardinality(YoungerRows(S, At(k + 1))) = k
    BY <1>2, <2>3
  <2>5. At(k + 1) = x
    BY <2>1, <2>4, RowsAreRanked
  <2> QED
    BY <2>3, <2>5
<1>4. NewestFirst(S) = [i \in 1 .. n |-> At(i)]
  BY DEF NewestFirst
<1> HIDE DEF At
<1>5. NewestFirst(S) \in [1 .. n -> S] /\ \A i \in 1 .. n : NewestFirst(S)[i] = At(i)
  BY <1>2, <1>4
<1> QED
  BY <1>1, <1>3, <1>5

\* The list of a set of rows, as a sequence.
LEMMA NewestFirstIsAList ==
  ASSUME NEW S, Listable(S), S \subseteq ListedRow
  PROVE  /\ NewestFirst(S) \in Seq(ListedRow)
         /\ \A i \in DOMAIN NewestFirst(S) : NewestFirst(S)[i] \in S
         /\ \A x \in S : \E i \in DOMAIN NewestFirst(S) : NewestFirst(S)[i] = x
<1>1. /\ Cardinality(S) \in Nat
      /\ NewestFirst(S) \in [1 .. Cardinality(S) -> S]
      /\ \A x \in S : \E i \in 1 .. Cardinality(S) : NewestFirst(S)[i] = x
  BY NewestFirstTellsAll
<1>2. PICK n, items : n = Cardinality(S) /\ items = NewestFirst(S)
  OBVIOUS
<1>3. n \in Nat /\ items \in [1 .. n -> S] /\ \A x \in S : \E i \in 1 .. n : items[i] = x
  BY <1>1, <1>2
<1>4. items \in Seq(ListedRow) /\ DOMAIN items = 1 .. n
  BY <1>3
<1> QED
  BY <1>2, <1>3, <1>4

-----------------------------------------------------------------------------
(* A page of the list.                                                      *)

LEMMA RowsOfClients ==
  ASSUME ClientsFit, NEW C \in SUBSET DOMAIN clients
  PROVE  /\ IsFiniteSet(C)
         /\ Listable({Row(c) : c \in C}) /\ {Row(c) : c \in C} \subseteq ListedRow
<1>1. clients \in Seq(KeptClient) /\ Len(clients) \in Nat
  BY DEF ClientsFit
<1>2. IsFiniteSet(C)
  BY <1>1, FS_Interval, FS_Subset
<1>3. \A c \in C : Row(c) \in ListedRow /\ Row(c).id = c
  <2> SUFFICES ASSUME NEW c \in C PROVE Row(c) \in ListedRow /\ Row(c).id = c
    OBVIOUS
  <2>1. c \in Nat /\ clients[c] \in KeptClient
    BY <1>1
  <2>2. clients[c].revoked \in BOOLEAN
    BY <2>1 DEF KeptClient
  <2> QED
    BY <2>1, <2>2 DEF Row, ListedRow
<1> DEFINE S == {Row(c) : c \in C}
           f == [c \in C |-> Row(c)]
<1>4. f \in Surjection(C, S)
  BY DEF Surjection
<1>5. IsFiniteSet(S)
  BY <1>2, <1>4, FS_Surjection
<1>6. S \subseteq ListedRow /\ \A x \in S : x.id \in Nat
  BY <1>3 DEF ListedRow
<1>7. \A x, y \in S : x.id = y.id => x = y
  BY <1>3
<1> QED
  BY <1>2, <1>5, <1>6, <1>7 DEF Listable

Lower(cursor) == {c \in DOMAIN clients : c < cursor}

PageOf(cursor) == {c \in Lower(cursor) : Cardinality({d \in Lower(cursor) : d > c}) < PageSize}

\* The rows that are newer than a client's are those of the newer clients.
LEMMA ClientsBefore ==
  ASSUME ClientsFit, NEW C \in SUBSET DOMAIN clients
  PROVE  /\ \A c \in C : /\ YoungerRows({Row(d) : d \in C}, Row(c)) = {Row(d) : d \in {e \in C : e > c}}
                         /\ IsFiniteSet({d \in C : d > c})
                         /\ Cardinality({d \in C : d > c}) \in Nat
         /\ C # {} => \E m \in C : \A d \in C : d <= m
         /\ C # {} => \E m \in C : \A d \in C : m <= d
<1> DEFINE S == {Row(d) : d \in C}
<1>1. /\ IsFiniteSet(C) /\ Listable(S)
      /\ C \subseteq Nat /\ \A c \in C : Row(c).id = c
  <2>1. C \subseteq Nat
    BY DEF ClientsFit
  <2> QED
    BY <2>1, RowsOfClients DEF Row
<1>2. ASSUME NEW c \in C
      PROVE  /\ YoungerRows(S, Row(c)) = {Row(d) : d \in {e \in C : e > c}}
             /\ IsFiniteSet({d \in C : d > c})
             /\ Cardinality({d \in C : d > c}) \in Nat
  <2>1. YoungerRows(S, Row(c)) = {Row(d) : d \in {e \in C : e > c}}
    BY <1>1 DEF YoungerRows
  <2>2. IsFiniteSet({d \in C : d > c})
    BY <1>1, FS_Subset
  <2> QED
    BY <2>1, <2>2, FS_CardinalityType
<1>3. ASSUME C # {}
      PROVE  (\E m \in C : \A d \in C : d <= m) /\ (\E m \in C : \A d \in C : m <= d)
  <2>1. S # {} /\ IsFiniteSet(S) /\ Cardinality(S) \in Nat /\ Cardinality(S) # 0
    BY <1>1, <1>3, FS_EmptySet, FS_CardinalityType DEF Listable
  <2>2. 0 \in 0 .. Cardinality(S) - 1 /\ Cardinality(S) - 1 \in 0 .. Cardinality(S) - 1
    BY <2>1
  <2>3. PICK x \in S : Cardinality(YoungerRows(S, x)) = 0
    BY <1>1, <2>2, RowsAreRanked
  <2>4. PICK y \in S : Cardinality(YoungerRows(S, y)) = Cardinality(S) - 1
    BY <1>1, <2>2, RowsAreRanked
  <2>5. IsFiniteSet(YoungerRows(S, x)) /\ IsFiniteSet(S \ {y}) /\ Cardinality(S \ {y}) = Cardinality(S) - 1
    BY <1>1, <2>1, RowsAreRanked, FS_RemoveElement
  <2>6. YoungerRows(S, x) = {}
    BY <2>3, <2>5, FS_EmptySet
  <2>7. YoungerRows(S, y) \in SUBSET (S \ {y})
    BY <1>1 DEF YoungerRows, Listable
  <2>8. YoungerRows(S, y) = S \ {y}
    BY <2>4, <2>5, <2>7, FS_Subset
  <2>9. PICK c \in C, b \in C : x = Row(c) /\ y = Row(b)
    OBVIOUS
  <2>10. \A d \in C : d <= c
    <3> SUFFICES ASSUME NEW d \in C, d > c PROVE FALSE
      BY <1>1
    <3>1. Row(d) \in YoungerRows(S, x)
      BY <1>1, <2>9 DEF YoungerRows
    <3> QED
      BY <2>6, <3>1
  <2>11. \A d \in C : b <= d
    <3> SUFFICES ASSUME NEW d \in C, d < b PROVE FALSE
      BY <1>1
    <3>1. Row(d) \in S \ {y}
      BY <1>1, <2>9
    <3>2. Row(d) \in YoungerRows(S, y)
      BY <2>8, <3>1
    <3> QED
      BY <1>1, <2>9, <3>2 DEF YoungerRows
  <2> QED
    BY <2>10, <2>11
<1> QED
  BY <1>2, <1>3

\* What is left after a page is below the cursor it hands on.
LEMMA PageCutsTheList ==
  ASSUME ClientsFit, NEW cursor \in Nat, NEW next,
         next = IF PageOf(cursor) = Lower(cursor) THEN 0 ELSE Min(PageOf(cursor))
  PROVE  /\ next \in Nat /\ next <= cursor
         /\ PageOf(cursor) \subseteq DOMAIN clients
         /\ \A c \in PageOf(cursor) : next <= c /\ c < cursor
         /\ \A c \in DOMAIN clients : c < cursor => c < next \/ c \in PageOf(cursor)
<1> DEFINE lower == Lower(cursor)
           page == PageOf(cursor)
           Rank(c) == Cardinality({d \in lower : d > c})
<1>1. /\ DOMAIN clients \subseteq Nat /\ lower \in SUBSET DOMAIN clients
      /\ \A c \in DOMAIN clients : c < cursor <=> c \in lower
      /\ page \in SUBSET lower /\ page \in SUBSET DOMAIN clients
      /\ \A c \in lower : c \in page <=> Rank(c) < PageSize
  BY DEF ClientsFit, Lower, PageOf
<1>2. PageSize \in Nat /\ PageSize >= 1
  BY ClientsAssumption
<1>3. \A c \in lower : IsFiniteSet({d \in lower : d > c}) /\ Rank(c) \in Nat
  BY <1>1, ClientsBefore
<1> HIDE DEF lower, page
<1>4. CASE page = lower
  BY <1>1, <1>4 DEF lower, page
<1>5. CASE page # lower
  <2>1. lower # {}
    BY <1>1, <1>5
  <2>2. PICK g \in lower : \A d \in lower : d <= g
    BY <1>1, <2>1, ClientsBefore
  <2>3. {d \in lower : d > g} = {} /\ Rank(g) = 0
    <3>1. \A d \in lower : ~ (d > g)
      BY <1>1, <2>2
    <3>2. {d \in lower : d > g} = {}
      BY <3>1
    <3> QED
      BY <3>2, FS_EmptySet
  <2>4. g \in page
    BY <1>1, <1>2, <2>3
  <2>5. \E m \in page : \A d \in page : m <= d
    BY <1>1, <2>4, ClientsBefore
  <2>6. next = Min(page)
    BY <1>5 DEF lower, page
  <2>7. next \in page /\ \A d \in page : next <= d
    BY <2>5, <2>6 DEF Min
  <2>8. ASSUME NEW c \in lower, ~ c < next PROVE c \in page
    <3>1. c \in Nat /\ next \in Nat /\ next \in lower
      BY <1>1, <2>7
    <3>2. {d \in lower : d > c} \in SUBSET {d \in lower : d > next}
      <4>1. \A d \in lower : d \in Nat
        BY <1>1
      <4>2. \A d \in lower : d > c => d > next
        BY <2>8, <3>1, <4>1
      <4> QED
        BY <4>2
    <3>3. Rank(c) <= Rank(next)
      BY <1>3, <3>1, <3>2, FS_Subset
    <3>4. Rank(next) < PageSize
      BY <1>1, <2>7, <3>1
    <3>5. Rank(c) < PageSize
      BY <1>2, <1>3, <3>1, <3>3, <3>4
    <3> QED
      BY <1>1, <3>5
  <2>9. next \in Nat /\ next < cursor
    BY <1>1, <2>7
  <2> QED
    BY <1>1, <2>7, <2>8, <2>9 DEF page
<1> QED
  BY <1>4, <1>5

LEMMA PageTellsItsRows ==
  ASSUME ClientsFit, NEW cursor \in Nat
  PROVE  /\ PageBefore(cursor).items \in Seq(ListedRow)
         /\ PageBefore(cursor).next \in Nat /\ PageBefore(cursor).next <= cursor
         /\ \A i \in DOMAIN PageBefore(cursor).items :
              \E c \in DOMAIN clients :
                /\ PageBefore(cursor).items[i] = Row(c)
                /\ PageBefore(cursor).next <= c /\ c < cursor
         /\ \A c \in DOMAIN clients :
              c < cursor => \/ c < PageBefore(cursor).next
                            \/ \E i \in DOMAIN PageBefore(cursor).items :
                                 PageBefore(cursor).items[i] = Row(c)
<1> DEFINE S == {Row(c) : c \in PageOf(cursor)}
<1>1. PICK next : next = IF PageOf(cursor) = Lower(cursor) THEN 0 ELSE Min(PageOf(cursor))
  OBVIOUS
<1>2. PICK items : items = NewestFirst(S)
  OBVIOUS
<1>3. PageBefore(cursor) = [items |-> items, next |-> next]
  BY <1>1, <1>2 DEF PageBefore, PageOf, Lower
<1>4. PageBefore(cursor).items = items /\ PageBefore(cursor).next = next
  BY <1>3
<1>5. /\ next \in Nat /\ next <= cursor
      /\ PageOf(cursor) \in SUBSET DOMAIN clients
      /\ \A c \in PageOf(cursor) : next <= c /\ c < cursor
      /\ \A c \in DOMAIN clients : c < cursor => c < next \/ c \in PageOf(cursor)
  BY <1>1, PageCutsTheList
<1>6. Listable(S) /\ S \subseteq ListedRow
  BY <1>5, RowsOfClients
<1>7. /\ items \in Seq(ListedRow)
      /\ \A i \in DOMAIN items : items[i] \in S
      /\ \A x \in S : \E i \in DOMAIN items : items[i] = x
  BY <1>2, <1>6, NewestFirstIsAList
<1> QED
  BY <1>4, <1>5, <1>7

-----------------------------------------------------------------------------
(* The page, step by step.                                                  *)

LEMMA NothingToLoad ==
  /\ NotLoading \notin LoadFrame /\ NotLoading.busy = FALSE
  /\ \A load \in LoadFrame : load.busy = TRUE
BY DEF NotLoading, LoadFrame

LEMMA OpenPageFits ==
  ASSUME AccessFits, access # Closed
  PROVE  /\ access \in PageFrame
         /\ access.state = "loading" <=> access.load # NotLoading
         /\ access.creating # 0 => access.creating \in DOMAIN clients
         /\ access.revoking # 0 => /\ access.state = "ready" /\ IsTrue(<<access.revoking, TRUE>>)
                                   /\ access.revoking \in IdsShown(access.shown)
         /\ \A a \in access.answered : IsTrue(a) /\ IsTold(access.shown, a)
BY DEF AccessFits

\* What was true of an answer stays true.
LEMMA AnswersStayTrue ==
  ASSUME RowsAreKept, NEW a \in Nat \X BOOLEAN, IsTrue(a)
  PROVE  IsTrue(a)'
BY DEF IsTrue, RowsAreKept

LEMMA PageIsLeftAlone ==
  ASSUME AccessInv, ClientsFit', RowsAreKept, UNCHANGED access
  PROVE  AccessInv'
<1>1. LoadFits'
  BY DEF AccessInv, LoadFits, HasRead
<1>2. AccessFits'
  <2> SUFFICES ASSUME access # Closed PROVE AccessFits'
    BY DEF AccessFits
  <2>1. access \in PageFrame /\ access' = access
    BY OpenPageFits DEF AccessInv
  <2>2. access.creating # 0 => access.creating \in DOMAIN clients'
    BY OpenPageFits DEF AccessInv, RowsAreKept
  <2>3. access.revoking # 0 => IsTrue(<<access.revoking, TRUE>>)'
    BY <2>1, OpenPageFits, AnswersStayTrue DEF AccessInv, PageFrame
  <2>4. \A a \in access.answered : IsTrue(a)'
    BY <2>1, OpenPageFits, AnswersStayTrue DEF AccessInv, PageFrame
  <2> QED
    BY <2>1, <2>2, <2>3, <2>4, OpenPageFits DEF AccessInv, AccessFits
<1> QED
  BY <1>1, <1>2 DEF AccessInv

LEMMA LoadStarts ==
  ASSUME ClientsFit
  PROVE  /\ StartLoad \in LoadFrame
         /\ \A c \in DOMAIN clients : c < StartLoad.cursor
         /\ StartLoad.items = <<>> /\ ~ StartLoad.read /\ ~ StartLoad.behind
         /\ StartLoad.cursor \in Nat \ {0}
BY ClientsAssumption DEF StartLoad, LoadFrame, ClientsFit

LEMMA LoadBegins ==
  ClientsFit /\ access.load = StartLoad /\ (\A a \in access.answered : IsTrue(a))
    => HasRead(access.load)
<1> SUFFICES ASSUME ClientsFit, access.load = StartLoad, \A a \in access.answered : IsTrue(a)
             PROVE  HasRead(access.load)
  OBVIOUS
<1>1. PICK load : load = StartLoad
  OBVIOUS
<1>2. /\ load.items = <<>> /\ load.cursor \in Nat \ {0} /\ ~ load.read
      /\ \A c \in DOMAIN clients : c < load.cursor
  BY <1>1, LoadStarts
<1>3. load.read \in BOOLEAN
  BY <1>1 DEF StartLoad
<1>4. \A a \in access.answered : a[1] < load.cursor /\ NeverActive(load.items, a[1])
  BY <1>2 DEF IsTrue, NeverActive
<1>5. OneRowEach(load.items)
  BY <1>2 DEF OneRowEach
<1> QED
  BY <1>1, <1>2, <1>3, <1>4, <1>5 DEF HasRead

LEMMA OpenKeepsPage ==
  ASSUME AccessInv, OpenPage
  PROVE  AccessInv'
<1>1. PICK load : load = StartLoad
  OBVIOUS
<1>2. PICK page : page = [state |-> "loading", shown |-> <<>>, load |-> load,
                          creating |-> 0, revoking |-> 0, answered |-> {}]
  OBVIOUS
<1>3. access' = page /\ UNCHANGED clients /\ ClientsFit
  BY <1>1, <1>2 DEF OpenPage, AccessInv
<1>4. load \in LoadFrame /\ load # NotLoading
  BY <1>1, <1>3, LoadStarts, NothingToLoad
<1>5. page \in PageFrame
  BY <1>2, <1>4 DEF PageFrame
<1>6. ClientsFit'
  BY <1>3, NothingWritten
<1>7. AccessFits'
  BY <1>2, <1>3, <1>4, <1>5 DEF AccessFits
<1>8. ClientsFit' /\ access'.load = StartLoad /\ access'.answered = {}
  BY <1>1, <1>2, <1>3, <1>6
<1>9. HasRead(access.load)'
  <2>1. (ClientsFit /\ access.load = StartLoad /\ (\A a \in access.answered : IsTrue(a))
           => HasRead(access.load))'
    BY LoadBegins, PTL
  <2>2. StartLoad' = StartLoad
    BY DEF StartLoad
  <2> QED
    BY <1>8, <2>1, <2>2
<1> QED
  BY <1>6, <1>7, <1>9 DEF AccessInv, LoadFits

LEMMA LeaveKeepsPage ==
  ASSUME AccessInv, LeavePage
  PROVE  AccessInv'
<1>1. access' = Closed /\ UNCHANGED clients
  BY DEF LeavePage
<1>2. Closed' = Closed
  BY DEF Closed
<1> QED
  BY <1>1, <1>2, NothingWritten DEF AccessInv, AccessFits, LoadFits

\* What the page was told stands on rows that are kept, and so does the rest
\* of the page when the step leaves it.
LEMMA PageIsToldTheSame ==
  ASSUME AccessFits, access # Closed, ClientsFit', RowsAreKept,
         access' \in PageFrame, access'.state = "loading" <=> access'.load # NotLoading,
         access'.creating \in {0, access.creating},
         access'.revoking = access.revoking, access'.revoking # 0 => access'.state = "ready",
         access'.answered = access.answered, access'.shown = access.shown
  PROVE  AccessFits'
<1>1. access \in PageFrame
  BY OpenPageFits
<1>2. access'.creating # 0 => access'.creating \in DOMAIN clients'
  BY OpenPageFits DEF RowsAreKept
<1>3. PICK c : c = access.revoking
  OBVIOUS
<1>4. access'.revoking = c /\ (c # 0 => IsTrue(<<c, TRUE>>)' /\ c \in IdsShown(access.shown))
  BY <1>1, <1>3, OpenPageFits, AnswersStayTrue DEF PageFrame
<1>5. \A a \in access.answered : IsTrue(a)' /\ IsTold(access.shown, a)
  BY <1>1, OpenPageFits, AnswersStayTrue DEF PageFrame
<1>6. NotLoading' = NotLoading /\ \A x : IdsShown(x)' = IdsShown(x)
  BY DEF NotLoading, IdsShown
<1>7. access'.revoking # 0 => /\ access'.state = "ready" /\ IsTrue(<<access.revoking, TRUE>>)'
                              /\ access'.revoking \in IdsShown(access.shown)'
  BY <1>4, <1>6 DEF IsTrue, IdsShown
<1>8. \A a \in access'.answered : IsTrue(a)' /\ IsTold(access.shown, a)'
  BY <1>5 DEF IsTold, IdsShown, NeverActive
<1> QED
  BY <1>2, <1>6, <1>7, <1>8 DEF AccessFits

LEMMA RetryKeepsPage ==
  ASSUME AccessInv, RetryLoad
  PROVE  AccessInv'
<1>1. /\ ClientsFit /\ AccessFits /\ UNCHANGED clients
      /\ access.state = "error"
      /\ access' = [access EXCEPT !.state = "loading", !.load = StartLoad]
  BY DEF AccessInv, RetryLoad
<1>2. access # Closed
  BY <1>1 DEF Closed
<1>3. PICK load : load = StartLoad
  OBVIOUS
<1>4. load \in LoadFrame /\ load # NotLoading
  BY <1>1, <1>3, LoadStarts, NothingToLoad
<1>5. /\ access' \in PageFrame /\ access'.state = "loading" /\ access'.load = load
      /\ access'.creating = access.creating /\ access'.revoking = access.revoking
      /\ access'.answered = access.answered /\ access'.shown = access.shown
  <2>1. access \in PageFrame
    BY <1>1, <1>2, OpenPageFits
  <2>2. access' = [access EXCEPT !.state = "loading", !.load = load]
    BY <1>1, <1>3
  <2> QED
    BY <1>4, <2>1, <2>2 DEF PageFrame
<1>6. access.revoking = 0
  BY <1>1, <1>2, OpenPageFits
<1>7. ClientsFit' /\ RowsAreKept
  BY <1>1, NothingWritten
<1>8. AccessFits'
  BY <1>1, <1>2, <1>4, <1>5, <1>6, <1>7, PageIsToldTheSame
<1>9. HasRead(access.load)'
  <2>1. (ClientsFit /\ access.load = StartLoad /\ (\A a \in access.answered : IsTrue(a))
           => HasRead(access.load))'
    BY LoadBegins, PTL
  <2>2. StartLoad' = StartLoad
    BY DEF StartLoad
  <2>3. \A a \in access'.answered : IsTrue(a)'
    <3>1. access' # Closed'
      BY <1>5 DEF Closed
    <3> QED
      BY <1>8, <3>1 DEF AccessFits
  <2> QED
    BY <1>3, <1>5, <1>7, <2>1, <2>2, <2>3
<1> QED
  BY <1>7, <1>8, <1>9 DEF AccessInv, LoadFits

LEMMA FailureKeepsPage ==
  ASSUME AccessInv, LoadFails
  PROVE  AccessInv'
<1>1. /\ ClientsFit /\ AccessFits /\ UNCHANGED clients
      /\ access.state = "loading"
      /\ access' = [access EXCEPT !.state = "error", !.load = NotLoading]
  BY DEF AccessInv, LoadFails
<1>2. access # Closed
  BY <1>1 DEF Closed
<1>3. /\ access' \in PageFrame /\ access'.state = "error" /\ access'.load = NotLoading
      /\ access'.creating = access.creating /\ access'.revoking = access.revoking
      /\ access'.answered = access.answered /\ access'.shown = access.shown
  <2>1. access \in PageFrame
    BY <1>1, <1>2, OpenPageFits
  <2>2. PICK load : load = NotLoading
    OBVIOUS
  <2>3. access' = [access EXCEPT !.state = "error", !.load = load]
    BY <1>1, <2>2
  <2> QED
    BY <2>1, <2>2, <2>3 DEF PageFrame
<1>4. access.revoking = 0
  BY <1>1, <1>2, OpenPageFits
<1>5. ClientsFit' /\ RowsAreKept
  BY <1>1, NothingWritten
<1>6. AccessFits'
  BY <1>1, <1>2, <1>3, <1>4, <1>5, PageIsToldTheSame
<1> QED
  BY <1>3, <1>5, <1>6 DEF AccessInv, LoadFits

Joins(all, s, t) ==
  /\ all \in Seq(ListedRow)
  /\ \A i \in DOMAIN s : i \in DOMAIN all /\ all[i] = s[i]
  /\ \A i \in DOMAIN t : \E k \in DOMAIN all : all[k] = t[i]
  /\ \A i \in DOMAIN all : i \in DOMAIN s \/ \E k \in DOMAIN t : all[i] = t[k]

LEMMA TwoLists == \A s, t \in Seq(ListedRow) : Joins(s \o t, s, t)
<1> SUFFICES ASSUME NEW s \in Seq(ListedRow), NEW t \in Seq(ListedRow), NEW all, all = s \o t
             PROVE  Joins(all, s, t)
  OBVIOUS
<1>1. /\ Len(s) \in Nat /\ DOMAIN s = 1 .. Len(s)
      /\ Len(t) \in Nat /\ DOMAIN t = 1 .. Len(t)
      /\ all \in Seq(ListedRow) /\ DOMAIN all = 1 .. (Len(s) + Len(t))
      /\ \A i \in DOMAIN s : i \in DOMAIN all /\ all[i] = s[i]
  OBVIOUS
<1>2. \A i \in DOMAIN t : (Len(s) + i) \in DOMAIN all /\ all[Len(s) + i] = t[i]
  BY <1>1
<1>3. \A i \in DOMAIN all : i \notin DOMAIN s =>
        (i - Len(s)) \in DOMAIN t /\ all[i] = t[i - Len(s)]
  BY <1>1
<1> QED
  BY <1>1, <1>2, <1>3 DEF Joins

\* A page of rows at the end of what was read.
LEMMA OnePageMore ==
  ASSUME ClientsFit, NEW load \in LoadFrame, HasRead(load), ~ load.read,
         \A a \in access.answered : IsTrue(a),
         NEW more, more = OnePageOn(load)
  PROVE  more \in LoadFrame /\ HasRead(more)
<1>1. PICK items, next, old : /\ items = PageBefore(load.cursor).items
                              /\ next = PageBefore(load.cursor).next
                              /\ old = load.items
  OBVIOUS
<1>2. load.cursor \in Nat /\ old \in Seq(ListedRow) /\ load.behind \in BOOLEAN
  BY <1>1 DEF LoadFrame
<1>3. /\ items \in Seq(ListedRow) /\ next \in Nat /\ next <= load.cursor
      /\ \A i \in DOMAIN items :
           \E c \in DOMAIN clients : items[i] = Row(c) /\ next <= c /\ c < load.cursor
      /\ \A c \in DOMAIN clients :
           c < load.cursor => c < next \/ \E i \in DOMAIN items : items[i] = Row(c)
  BY <1>1, <1>2, PageTellsItsRows
<1>4. more = [load EXCEPT !.items = old \o items, !.cursor = next, !.read = (next = 0)]
  BY <1>1 DEF OnePageOn
<1>5. /\ more \in LoadFrame /\ more.items = old \o items /\ more.cursor = next
      /\ more.read = (next = 0) /\ more.behind = load.behind
  <2>1. old \o items \in Seq(ListedRow) /\ (next = 0) \in BOOLEAN
    BY <1>2, <1>3
  <2>2. PICK all, done : all = old \o items /\ done = (next = 0)
    OBVIOUS
  <2>3. more = [load EXCEPT !.items = all, !.cursor = next, !.read = done]
    BY <1>4, <2>2
  <2> QED
    BY <1>3, <2>1, <2>2, <2>3 DEF LoadFrame
<1>6. PICK all : all = old \o items
  OBVIOUS
<1>7. Joins(all, old, items)
  BY Zenon, <1>2, <1>3, <1>6, TwoLists
<1>8. /\ \A i \in DOMAIN all : \/ i \in DOMAIN old /\ all[i] = old[i]
                               \/ \E k \in DOMAIN items : all[i] = items[k]
      /\ \A i \in DOMAIN old : i \in DOMAIN all /\ all[i] = old[i]
      /\ \A i \in DOMAIN items : \E k \in DOMAIN all : all[k] = items[i]
  BY <1>7 DEF Joins
<1>9. /\ \A i \in DOMAIN old : old[i].id \in Nat
      /\ \A c \in DOMAIN clients : c \in Nat /\ Row(c).id = c /\ Row(c).revoked = clients[c].revoked
  <2>1. \A i \in DOMAIN old : old[i] \in ListedRow
    BY <1>2
  <2>2. \A i \in DOMAIN old : old[i].id \in Nat
    BY <2>1 DEF ListedRow
  <2> QED
    BY <2>2 DEF Row, ClientsFit
<1>10. /\ \A i \in DOMAIN old : old[i].id >= load.cursor
       /\ OneRowEach(old)
       /\ ~ load.behind => \A a \in access.answered :
            /\ a[1] < load.cursor \/ a[1] \in IdsShown(old)
            /\ a[2] => NeverActive(old, a[1])
  BY <1>1 DEF HasRead
<1>11. \A i \in DOMAIN all :
         \/ i \in DOMAIN old /\ all[i] = old[i] /\ all[i].id >= load.cursor
         \/ \E c \in DOMAIN clients : all[i] = Row(c) /\ all[i].id = c /\ next <= c /\ c < load.cursor
  BY <1>3, <1>8, <1>9, <1>10
<1>12. \A i \in DOMAIN all : all[i].id >= next
  BY <1>2, <1>3, <1>9, <1>11
<1>13. ASSUME NEW i \in DOMAIN all, NEW j \in DOMAIN all, all[i].id = all[j].id
       PROVE  all[i] = all[j]
  <2>1. CASE i \in DOMAIN old /\ all[i] = old[i] /\ all[i].id >= load.cursor
    <3>1. j \in DOMAIN old /\ all[j] = old[j]
      BY <1>2, <1>9, <1>11, <1>13, <2>1
    <3> QED
      BY <1>10, <1>13, <2>1, <3>1 DEF OneRowEach
  <2>2. CASE \E c \in DOMAIN clients : all[i] = Row(c) /\ all[i].id = c /\ next <= c /\ c < load.cursor
    <3>1. \E c \in DOMAIN clients : all[j] = Row(c) /\ all[j].id = c
      BY <1>2, <1>9, <1>11, <1>13, <2>2
    <3> QED
      BY <1>13, <2>2, <3>1
  <2> QED
    BY <1>11, <2>1, <2>2
<1>14. ASSUME ~ load.behind, NEW a \in access.answered
       PROVE  /\ a[1] < next \/ a[1] \in IdsShown(all)
              /\ a[2] => NeverActive(all, a[1])
  <2>1. a[1] \in DOMAIN clients /\ (a[2] => clients[a[1]].revoked)
    BY DEF IsTrue
  <2>2. a[1] < next \/ a[1] \in IdsShown(all)
    <3>1. CASE a[1] < load.cursor
      <4>1. a[1] < next \/ \E k \in DOMAIN items : items[k] = Row(a[1])
        BY <1>3, <2>1, <3>1
      <4>2. (\E k \in DOMAIN items : items[k] = Row(a[1])) => \E i \in DOMAIN all : all[i].id = a[1]
        BY <1>8, <1>9, <2>1
      <4> QED
        BY <4>1, <4>2 DEF IdsShown
    <3>2. CASE a[1] \in IdsShown(old)
      BY <1>8, <3>2 DEF IdsShown
    <3> QED
      BY <1>10, <1>14, <3>1, <3>2
  <2>3. ASSUME a[2], NEW i \in DOMAIN all, all[i].id = a[1] PROVE all[i].revoked
    <3>1. CASE i \in DOMAIN old /\ all[i] = old[i]
      BY <1>10, <1>14, <2>3, <3>1 DEF NeverActive
    <3>2. CASE \E c \in DOMAIN clients : all[i] = Row(c) /\ all[i].id = c
      BY <1>9, <2>1, <2>3, <3>2
    <3> QED
      BY <1>11, <3>1, <3>2
  <2> QED
    BY <2>2, <2>3 DEF NeverActive
<1>15. PICK done : done = (next = 0)
  OBVIOUS
<1>16. more \in LoadFrame /\ more.items = all /\ more.cursor = next /\ more.read = done
       /\ more.behind = load.behind
  BY <1>5, <1>6, <1>15
<1>17. more.read <=> more.cursor = 0
  BY <1>15, <1>16
<1>18. /\ \A i \in DOMAIN more.items : more.items[i].id >= more.cursor
       /\ OneRowEach(more.items)
  <2>1. OneRowEach(all)
    BY <1>13 DEF OneRowEach
  <2>2. more.items = all /\ more.cursor = next
    BY <1>16
  <2>3. \A i \in DOMAIN more.items : more.items[i].id >= more.cursor
    BY <1>12, <2>2
  <2>4. OneRowEach(more.items)
    BY <2>1, <2>2
  <2> QED
    BY <2>3, <2>4
<1>19. ~ more.behind => \A a \in access.answered :
         /\ a[1] < more.cursor \/ a[1] \in IdsShown(more.items)
         /\ a[2] => NeverActive(more.items, a[1])
  BY <1>14, <1>16
<1> QED
  BY <1>16, <1>17, <1>18, <1>19 DEF HasRead

LEMMA ReadKeepsPage ==
  ASSUME AccessInv, ReadPage
  PROVE  AccessInv'
<1>1. /\ ClientsFit /\ AccessFits /\ LoadFits /\ UNCHANGED clients
      /\ access.state = "loading" /\ ~ access.load.read
  BY DEF AccessInv, ReadPage
<1>2. access # Closed
  BY <1>1 DEF Closed
<1>3. access \in PageFrame /\ access.load # NotLoading /\ access.revoking = 0
  BY <1>1, <1>2, OpenPageFits
<1>4. PICK load : load = access.load
  OBVIOUS
<1>5. load \in LoadFrame /\ HasRead(load)
  BY <1>1, <1>2, <1>3, <1>4 DEF PageFrame, LoadFits
<1>6. PICK more : more = OnePageOn(load)
  OBVIOUS
<1>7. access' = [access EXCEPT !.load = more]
  BY <1>4, <1>6 DEF ReadPage
<1>8. \A a \in access.answered : IsTrue(a)
  BY <1>1, <1>2, OpenPageFits
<1>9. more \in LoadFrame /\ HasRead(more)
  BY <1>1, <1>4, <1>5, <1>6, <1>8, OnePageMore
<1>10. more # NotLoading
  BY <1>9, NothingToLoad
<1>11. /\ access' \in PageFrame /\ access'.state = "loading" /\ access'.load = more
       /\ access'.creating = access.creating /\ access'.revoking = access.revoking
       /\ access'.answered = access.answered /\ access'.shown = access.shown
  BY <1>1, <1>3, <1>7, <1>9 DEF PageFrame
<1>12. ClientsFit' /\ RowsAreKept
  BY <1>1, NothingWritten
<1>13. AccessFits'
  BY <1>1, <1>2, <1>3, <1>10, <1>11, <1>12, PageIsToldTheSame
<1>14. HasRead(access.load)'
  BY <1>9, <1>11 DEF HasRead, OneRowEach, IdsShown, NeverActive
<1> QED
  BY <1>12, <1>13, <1>14 DEF AccessInv, LoadFits

\* The rows of a load that are not shown.
LEMMA NewRowsAreListable ==
  ASSUME NEW loaded \in Seq(ListedRow), OneRowEach(loaded), NEW ids,
         NEW S, S = {x \in ToSet(loaded) : x.id \notin ids}
  PROVE  Listable(S) /\ S \subseteq ListedRow
<1>1. DOMAIN loaded = 1 .. Len(loaded) /\ Len(loaded) \in Nat
  OBVIOUS
<1>2. IsFiniteSet(DOMAIN loaded)
  BY <1>1, FS_Interval
<1>3. loaded \in Surjection(DOMAIN loaded, ToSet(loaded))
  <2>1. loaded \in [DOMAIN loaded -> ToSet(loaded)]
    BY DEF ToSet
  <2> QED
    BY <2>1 DEF ToSet, Surjection
<1>4. IsFiniteSet(ToSet(loaded)) /\ S \in SUBSET ToSet(loaded)
  BY <1>2, <1>3, FS_Surjection
<1>5. IsFiniteSet(S)
  BY <1>4, FS_Subset
<1>6. \A x \in S : x \in ListedRow /\ \E i \in DOMAIN loaded : loaded[i] = x
  BY <1>4 DEF ToSet
<1>7. \A x \in S : x.id \in Nat
  BY <1>6 DEF ListedRow
<1>8. \A x, y \in S : x.id = y.id => x = y
  BY <1>6 DEF OneRowEach
<1> QED
  BY <1>5, <1>6, <1>7, <1>8 DEF Listable

\* What the list tells of an answered client, it tells after the rows of an
\* overtaken load were put behind it.
LEMMA MergedTellsAll ==
  ASSUME NEW loaded \in Seq(ListedRow), OneRowEach(loaded), NEW current \in Seq(ListedRow),
         NEW items, items = Merged(loaded, current, TRUE)
  PROVE  /\ items \in Seq(ListedRow)
         /\ \A a \in Nat \X BOOLEAN : IsTold(current, a) => IsTold(items, a)
<1>1. PICK S, rest : /\ S = {x \in ToSet(loaded) : x.id \notin IdsShown(current)}
                     /\ rest = NewestFirst(S)
  OBVIOUS
<1>2. rest \in Seq(ListedRow) /\ \A i \in DOMAIN rest : rest[i].id \notin IdsShown(current)
  BY <1>1, NewRowsAreListable, NewestFirstIsAList
<1>3. items = current \o rest
  BY Zenon, <1>1 DEF Merged
<1>4. /\ items \in Seq(ListedRow)
      /\ \A i \in DOMAIN current : i \in DOMAIN items /\ items[i] = current[i]
      /\ \A i \in DOMAIN items : \/ i \in DOMAIN current
                              \/ \E k \in DOMAIN rest : items[i] = rest[k]
  <2>1. Joins(items, current, rest)
    BY Zenon, <1>2, <1>3, TwoLists
  <2> QED
    BY <2>1 DEF Joins
<1>5. ASSUME NEW a \in Nat \X BOOLEAN, IsTold(current, a)
      PROVE  IsTold(items, a)
  <2>1. a[1] \in IdsShown(current) /\ (a[2] => NeverActive(current, a[1]))
    BY <1>5 DEF IsTold
  <2>2. a[1] \in IdsShown(items)
    BY <1>4, <2>1 DEF IdsShown
  <2>3. ASSUME a[2], NEW i \in DOMAIN items, items[i].id = a[1] PROVE items[i].revoked
    <3>1. \A k \in DOMAIN rest : items[i] # rest[k]
      BY <1>2, <2>1, <2>3
    <3>2. i \in DOMAIN current
      BY <1>4, <2>3, <3>1
    <3> QED
      BY <1>4, <2>1, <2>3, <3>2 DEF NeverActive
  <2> QED
    BY <2>2, <2>3 DEF IsTold, NeverActive
<1> QED
  BY <1>4, <1>5

LEMMA ShowKeepsPage ==
  ASSUME AccessInv, ShowLoad
  PROVE  AccessInv'
<1>1. /\ ClientsFit /\ AccessFits /\ LoadFits /\ UNCHANGED clients
      /\ access.state = "loading" /\ access.load.read
  BY DEF AccessInv, ShowLoad
<1>2. access # Closed
  BY <1>1 DEF Closed
<1>3. /\ access \in PageFrame /\ access.load # NotLoading /\ access.revoking = 0
      /\ access.creating # 0 => access.creating \in DOMAIN clients
      /\ \A a \in access.answered : IsTrue(a) /\ IsTold(access.shown, a)
  BY <1>1, <1>2, OpenPageFits
<1>4. PICK load, current : load = access.load /\ current = access.shown
  OBVIOUS
<1>5. load \in LoadFrame /\ HasRead(load) /\ current \in Seq(ListedRow)
      /\ access.answered \subseteq Nat \X BOOLEAN
  BY <1>1, <1>2, <1>3, <1>4 DEF PageFrame, LoadFits
<1>6. PICK loaded : loaded = load.items
  OBVIOUS
<1>7. /\ loaded \in Seq(ListedRow) /\ OneRowEach(loaded) /\ load.cursor = 0
      /\ ~ load.behind => \A a \in access.answered :
           /\ a[1] < load.cursor \/ a[1] \in IdsShown(loaded)
           /\ a[2] => NeverActive(loaded, a[1])
  BY <1>1, <1>4, <1>5, <1>6 DEF LoadFrame, HasRead
<1>8. PICK items : items = Merged(loaded, current, load.behind)
  OBVIOUS
<1>9. items \in Seq(ListedRow) /\ \A a \in access.answered : IsTold(items, a)
  <2>1. CASE load.behind
    <3>1. items = Merged(loaded, current, TRUE)
      BY Zenon, <1>8, <2>1 DEF Merged
    <3>2. items \in Seq(ListedRow) /\ \A a \in Nat \X BOOLEAN : IsTold(current, a) => IsTold(items, a)
      BY <1>5, <1>7, <3>1, MergedTellsAll
    <3> QED
      BY <1>3, <1>4, <1>5, <3>2
  <2>2. CASE ~ load.behind
    <3>1. items = loaded
      BY <1>8, <2>2 DEF Merged
    <3>2. \A a \in access.answered : ~ (a[1] < 0)
      BY <1>5
    <3> QED
      BY <1>7, <2>2, <3>1, <3>2 DEF IsTold
  <2> QED
    BY <2>1, <2>2
<1>10. access' = [access EXCEPT !.state = "ready", !.load = NotLoading, !.shown = items]
  BY <1>4, <1>6, <1>8 DEF ShowLoad
<1>11. /\ access' \in PageFrame /\ access'.state = "ready" /\ access'.load = NotLoading
       /\ access'.creating = access.creating /\ access'.revoking = 0
       /\ access'.answered = access.answered /\ access'.shown = items
  <2>1. PICK none : none = NotLoading
    OBVIOUS
  <2>2. access' = [access EXCEPT !.state = "ready", !.load = none, !.shown = items]
    BY <1>10, <2>1
  <2> QED
    BY <1>3, <1>9, <2>1, <2>2 DEF PageFrame
<1>12. ClientsFit' /\ RowsAreKept /\ NotLoading' = NotLoading
  BY <1>1, NothingWritten DEF NotLoading
<1>13. \A a \in access'.answered : IsTrue(a)' /\ IsTold(access.shown, a)'
  <2>1. \A a \in access.answered : IsTrue(a)' /\ IsTold(items, a)
    BY <1>3, <1>5, <1>9, <1>12, AnswersStayTrue
  <2> QED
    BY <1>11, <2>1 DEF IsTold, IdsShown, NeverActive
<1>14. AccessFits'
  BY <1>1, <1>3, <1>11, <1>12, <1>13 DEF AccessFits
<1> QED
  BY <1>11, <1>12, <1>14 DEF AccessInv, LoadFits

-----------------------------------------------------------------------------
(* The owner's mutations and their answers.                                 *)

\* A step that changes neither the load nor what was answered.
LEMMA LoadStands ==
  ASSUME LoadFits, access # Closed, access'.state = access.state, access'.load = access.load,
         access'.answered = access.answered
  PROVE  LoadFits'
<1>1. access.state = "loading" => HasRead(access.load)
  BY DEF LoadFits
<1> QED
  BY <1>1 DEF LoadFits, HasRead, OneRowEach, IdsShown, NeverActive

LEMMA SubmitKeepsPage ==
  ASSUME AccessInv, NEW scopes \in Grants, SubmitCreate(scopes)
  PROVE  AccessInv'
<1>1. /\ ClientsFit /\ AccessFits /\ LoadFits /\ access # Closed
      /\ CreateControlClient(scopes) /\ access' = [access EXCEPT !.creating = Len(clients')]
  BY DEF AccessInv, SubmitCreate
<1>2. /\ ClientsFit' /\ RowsAreKept /\ Len(clients') \in DOMAIN clients'
  BY <1>1, RowIsAdded
<1>3. PICK c : c = Len(clients')
  OBVIOUS
<1>4. c \in Nat /\ c \in DOMAIN clients'
  BY <1>2, <1>3 DEF ClientsFit
<1>5. access \in PageFrame
  BY <1>1, OpenPageFits
<1>6. /\ access' \in PageFrame /\ access'.state = access.state /\ access'.load = access.load
      /\ access'.creating = c /\ access'.revoking = access.revoking
      /\ access'.answered = access.answered /\ access'.shown = access.shown
  <2>1. access' = [access EXCEPT !.creating = c]
    BY <1>1, <1>3
  <2> QED
    BY <1>4, <1>5, <2>1 DEF PageFrame
<1>7. access'.revoking # 0 => /\ access'.state = "ready" /\ IsTrue(<<access.revoking, TRUE>>)'
                              /\ access'.revoking \in IdsShown(access.shown)'
  <2>1. PICK v : v = access.revoking
    OBVIOUS
  <2>2. v # 0 => /\ access.state = "ready" /\ IsTrue(<<v, TRUE>>)' /\ v \in IdsShown(access.shown)
    BY <1>1, <1>2, <1>5, <2>1, OpenPageFits, AnswersStayTrue DEF PageFrame
  <2> QED
    BY <1>6, <2>1, <2>2 DEF IsTrue, IdsShown
<1>8. \A a \in access'.answered : IsTrue(a)' /\ IsTold(access.shown, a)'
  <2>1. \A a \in access.answered : IsTrue(a)' /\ IsTold(access.shown, a)
    BY <1>1, <1>2, <1>5, OpenPageFits, AnswersStayTrue DEF PageFrame
  <2> QED
    BY <1>6, <2>1 DEF IsTold, IdsShown, NeverActive
<1>9. AccessFits'
  <2>1. access'.state = "loading" <=> access'.load # NotLoading
    BY <1>1, <1>6, OpenPageFits
  <2>2. NotLoading' = NotLoading
    BY DEF NotLoading
  <2> QED
    BY <1>4, <1>6, <1>7, <1>8, <2>1, <2>2 DEF AccessFits
<1>10. LoadFits'
  BY <1>1, <1>6, LoadStands
<1> QED
  BY <1>2, <1>9, <1>10 DEF AccessInv

LEMMA CreateFailureKeepsPage ==
  ASSUME AccessInv, CreateFails
  PROVE  AccessInv'
<1>1. /\ ClientsFit /\ AccessFits /\ LoadFits /\ access # Closed /\ UNCHANGED clients
      /\ access' = [access EXCEPT !.creating = 0]
  BY DEF AccessInv, CreateFails
<1>2. access \in PageFrame /\ (access.state = "loading" <=> access.load # NotLoading)
      /\ (access.revoking # 0 => access.state = "ready")
  BY <1>1, OpenPageFits
<1>3. /\ access' \in PageFrame /\ access'.state = access.state /\ access'.load = access.load
      /\ access'.creating = 0 /\ access'.revoking = access.revoking
      /\ access'.answered = access.answered /\ access'.shown = access.shown
  BY <1>1, <1>2 DEF PageFrame
<1>4. ClientsFit' /\ RowsAreKept
  BY <1>1, NothingWritten
<1>5. AccessFits'
  BY <1>1, <1>2, <1>3, <1>4, PageIsToldTheSame
<1>6. LoadFits'
  BY <1>1, <1>3, LoadStands
<1> QED
  BY <1>4, <1>5, <1>6 DEF AccessInv

\* A load that an answer overtook.
LEMMA OvertakenLoad ==
  ASSUME AccessInv, access # Closed
  PROVE  /\ Overtaken \in {NotLoading} \cup LoadFrame
         /\ Overtaken = NotLoading <=> access.load = NotLoading
         /\ access.state = "loading" => /\ Overtaken.behind
                                        /\ Overtaken.read <=> Overtaken.cursor = 0
                                        /\ \A i \in DOMAIN Overtaken.items :
                                             Overtaken.items[i].id >= Overtaken.cursor
                                        /\ OneRowEach(Overtaken.items)
<1>1. PICK load : load = access.load
  OBVIOUS
<1>2. /\ load \in {NotLoading} \cup LoadFrame
      /\ access.state = "loading" <=> load # NotLoading
      /\ access.state = "loading" => HasRead(load)
  BY <1>1, OpenPageFits DEF AccessInv, PageFrame, LoadFits
<1>3. CASE load = NotLoading
  <2>1. Overtaken = load
    BY <1>1, <1>3, NothingToLoad DEF Overtaken
  <2> QED
    BY <1>1, <1>2, <1>3, <2>1
<1>4. CASE load \in LoadFrame
  <2>1. Overtaken = [load EXCEPT !.behind = TRUE]
    BY <1>1, <1>4, NothingToLoad DEF Overtaken
  <2>2. PICK more : more = Overtaken
    OBVIOUS
  <2>3. /\ more \in LoadFrame /\ more.behind = TRUE /\ more.items = load.items
        /\ more.cursor = load.cursor /\ more.read = load.read
    BY <1>4, <2>1, <2>2 DEF LoadFrame
  <2>4. more # NotLoading /\ load # NotLoading
    BY <1>4, <2>3, NothingToLoad
  <2>5. access.state = "loading" => /\ load.read <=> load.cursor = 0
                                    /\ \A i \in DOMAIN load.items : load.items[i].id >= load.cursor
                                    /\ OneRowEach(load.items)
    BY <1>2 DEF HasRead
  <2>6. access.state = "loading" => /\ more.read <=> more.cursor = 0
                                    /\ \A i \in DOMAIN more.items : more.items[i].id >= more.cursor
                                    /\ OneRowEach(more.items)
    BY <2>3, <2>5
  <2> QED
    BY <1>1, <2>2, <2>3, <2>4, <2>6
<1> QED
  BY <1>2, <1>3, <1>4

\* The rest of a page that an answer changes.
LEMMA AnsweredPage ==
  ASSUME AccessInv, access # Closed, UNCHANGED clients, access' \in PageFrame,
         access'.state = access.state, access'.load = Overtaken,
         access'.creating \in {0, access.creating}, access'.revoking \in {0, access.revoking},
         IdsShown(access.shown) \subseteq IdsShown(access'.shown),
         \A a \in access'.answered : IsTrue(a) /\ IsTold(access'.shown, a)
  PROVE  AccessInv'
<1>1. ClientsFit' /\ RowsAreKept
  BY NothingWritten DEF AccessInv
<1>2. /\ access.state = "loading" <=> access.load # NotLoading
      /\ access.creating # 0 => access.creating \in DOMAIN clients
      /\ access.revoking # 0 => /\ access.state = "ready" /\ IsTrue(<<access.revoking, TRUE>>)
                                /\ access.revoking \in IdsShown(access.shown)
  BY OpenPageFits DEF AccessInv
<1>3. access'.revoking # 0 => /\ access'.state = "ready" /\ IsTrue(<<access.revoking, TRUE>>)'
                              /\ access'.revoking \in IdsShown(access.shown)'
  <2>1. access'.revoking # 0 => /\ access'.revoking = access.revoking /\ access'.state = "ready"
                                /\ access.revoking \in IdsShown(access'.shown)
                                /\ access.revoking \in DOMAIN clients
                                /\ clients[access.revoking].revoked
    BY <1>2 DEF IsTrue
  <2> QED
    BY <2>1 DEF IsTrue, IdsShown
<1>4. \A a \in access'.answered : IsTrue(a)' /\ IsTold(access.shown, a)'
  BY DEF IsTrue, IsTold, IdsShown, NeverActive
<1>5. AccessFits'
  <2>1. access'.state = "loading" <=> access'.load # NotLoading
    BY <1>2, OvertakenLoad
  <2>2. NotLoading' = NotLoading
    BY DEF NotLoading
  <2>3. access'.creating # 0 => access'.creating \in DOMAIN clients'
    BY <1>2
  <2> QED
    BY <1>3, <1>4, <2>1, <2>2, <2>3 DEF AccessFits
<1>6. access'.state = "loading" => HasRead(access.load)'
  <2>1. PICK load : load = Overtaken
    OBVIOUS
  <2>2. access'.state = "loading" => /\ load.behind
                                     /\ load.read <=> load.cursor = 0
                                     /\ \A i \in DOMAIN load.items : load.items[i].id >= load.cursor
                                     /\ OneRowEach(load.items)
    BY <2>1, OvertakenLoad
  <2>3. access'.load = load
    BY <2>1
  <2> QED
    BY <2>2, <2>3 DEF HasRead, OneRowEach
<1> QED
  BY <1>1, <1>5, <1>6 DEF AccessInv, LoadFits

LEMMA CreationIsTold ==
  ASSUME AccessInv, CreateAnswers
  PROVE  AccessInv'
<1>1. AccessFits /\ access # Closed /\ access.creating # 0 /\ UNCHANGED clients
  BY DEF AccessInv, CreateAnswers
<1>2. PICK c, row, shown, load, answered :
        /\ c = access.creating /\ row = [id |-> c, revoked |-> FALSE] /\ load = Overtaken
        /\ shown = <<row>> \o access.shown
        /\ answered = (access.answered \ {<<c, TRUE>>}) \cup {<<c, FALSE>>}
  OBVIOUS
<1>3. access' = [access EXCEPT !.creating = 0, !.shown = shown, !.load = load, !.answered = answered]
  BY Zenon, <1>2 DEF CreateAnswers
<1>4. /\ access \in PageFrame /\ c \in DOMAIN clients
      /\ \A a \in access.answered : IsTrue(a) /\ IsTold(access.shown, a)
  BY <1>1, <1>2, OpenPageFits
<1>5. PICK old : old = access.shown
  OBVIOUS
<1>6. /\ c \in Nat /\ row \in ListedRow /\ old \in Seq(ListedRow) /\ <<row>> \in Seq(ListedRow)
      /\ access.answered \subseteq Nat \X BOOLEAN /\ row.id = c
      /\ load \in {NotLoading} \cup LoadFrame
  BY <1>1, <1>2, <1>4, <1>5, OvertakenLoad DEF PageFrame, ListedRow
<1>7. Joins(shown, <<row>>, old)
  BY Zenon, <1>2, <1>5, <1>6, TwoLists
<1>8. /\ shown \in Seq(ListedRow)
      /\ \E k \in DOMAIN shown : shown[k] = row
      /\ \A i \in DOMAIN old : \E k \in DOMAIN shown : shown[k] = old[i]
      /\ \A i \in DOMAIN shown : shown[i] = row \/ \E k \in DOMAIN old : shown[i] = old[k]
  <2>1. DOMAIN <<row>> = {1} /\ <<row>>[1] = row
    OBVIOUS
  <2>2. /\ shown \in Seq(ListedRow)
        /\ \A i \in DOMAIN <<row>> : i \in DOMAIN shown /\ shown[i] = <<row>>[i]
        /\ \A i \in DOMAIN old : \E k \in DOMAIN shown : shown[k] = old[i]
        /\ \A i \in DOMAIN shown : i \in DOMAIN <<row>> \/ \E k \in DOMAIN old : shown[i] = old[k]
    BY <1>7 DEF Joins
  <2> QED
    BY <2>1, <2>2
<1>9. answered \subseteq Nat \X BOOLEAN
  <2>1. <<c, FALSE>> \in Nat \X BOOLEAN
    BY <1>6
  <2> QED
    BY <1>2, <1>6, <2>1
<1>10. /\ access' \in PageFrame /\ access'.state = access.state /\ access'.load = load
       /\ access'.creating = 0 /\ access'.revoking = access.revoking
       /\ access'.shown = shown /\ access'.answered = answered
  BY <1>3, <1>4, <1>6, <1>8, <1>9 DEF PageFrame
<1>11. IdsShown(old) \subseteq IdsShown(shown) /\ c \in IdsShown(shown)
  BY <1>6, <1>8 DEF IdsShown
<1>12. ASSUME NEW a \in answered PROVE IsTrue(a) /\ IsTold(shown, a)
  <2>1. CASE a = <<c, FALSE>>
    BY <1>4, <1>11, <2>1 DEF IsTrue, IsTold
  <2>2. CASE a \in access.answered /\ a # <<c, TRUE>>
    <3>1. IsTrue(a) /\ a[1] \in IdsShown(old) /\ (a[2] => NeverActive(old, a[1]))
      BY <1>4, <1>5, <2>2 DEF IsTold
    <3>2. a[2] => a[1] # c
      <4>1. PICK d \in Nat, told \in BOOLEAN : a = <<d, told>>
        BY <1>6, <2>2
      <4> QED
        BY <2>2, <4>1
    <3>3. ASSUME a[2], NEW i \in DOMAIN shown, shown[i].id = a[1] PROVE shown[i].revoked
      <4>1. shown[i] # row
        BY <1>6, <3>2, <3>3
      <4>2. PICK k \in DOMAIN old : shown[i] = old[k]
        BY <1>8, <4>1
      <4> QED
        BY <3>1, <3>3, <4>2 DEF NeverActive
    <3> QED
      BY <1>11, <3>1, <3>3 DEF IsTold, NeverActive
  <2> QED
    BY <1>2, <2>1, <2>2
<1> QED
  BY <1>1, <1>2, <1>5, <1>10, <1>11, <1>12, AnsweredPage

LEMMA ConfirmKeepsPage ==
  ASSUME AccessInv, NEW c \in DOMAIN clients, ConfirmRevoke(c)
  PROVE  AccessInv'
<1>1. /\ ClientsFit /\ AccessFits /\ LoadFits /\ access.state = "ready"
      /\ RevokeControlClient(c) /\ access' = [access EXCEPT !.revoking = c]
      /\ \E i \in DOMAIN access.shown : access.shown[i] = [id |-> c, revoked |-> FALSE]
  BY DEF AccessInv, ConfirmRevoke
<1>2. access # Closed
  BY <1>1 DEF Closed
<1>3. ClientsFit' /\ RowsAreKept /\ DOMAIN clients' = DOMAIN clients /\ clients'[c].revoked
  BY <1>1, RowIsRevoked
<1>4. access \in PageFrame /\ c \in Nat
  BY <1>1, <1>2, OpenPageFits DEF ClientsFit
<1>5. /\ access' \in PageFrame /\ access'.state = "ready" /\ access'.load = access.load
      /\ access'.creating = access.creating /\ access'.revoking = c
      /\ access'.answered = access.answered /\ access'.shown = access.shown
  BY <1>1, <1>4 DEF PageFrame
<1>6. c \in IdsShown(access.shown)
  BY <1>1 DEF IdsShown
<1>7. IsTrue(<<access.revoking, TRUE>>)' /\ access'.revoking \in IdsShown(access.shown)'
  BY <1>3, <1>5, <1>6 DEF IsTrue, IdsShown
<1>8. \A a \in access'.answered : IsTrue(a)' /\ IsTold(access.shown, a)'
  <2>1. \A a \in access.answered : IsTrue(a)' /\ IsTold(access.shown, a)
    BY <1>1, <1>2, <1>3, <1>4, OpenPageFits, AnswersStayTrue DEF PageFrame
  <2> QED
    BY <1>5, <2>1 DEF IsTold, IdsShown, NeverActive
<1>9. AccessFits'
  <2>1. access'.state = "loading" <=> access'.load # NotLoading
    BY <1>1, <1>2, <1>5, OpenPageFits
  <2>2. NotLoading' = NotLoading
    BY DEF NotLoading
  <2>3. access'.creating # 0 => access'.creating \in DOMAIN clients'
    BY <1>1, <1>2, <1>3, <1>5, OpenPageFits
  <2> QED
    BY <1>5, <1>7, <1>8, <2>1, <2>2, <2>3 DEF AccessFits
<1>10. LoadFits'
  BY <1>5 DEF LoadFits
<1> QED
  BY <1>3, <1>9, <1>10 DEF AccessInv

LEMMA RevokeFailureKeepsPage ==
  ASSUME AccessInv, RevokeFails
  PROVE  AccessInv'
<1>1. /\ ClientsFit /\ AccessFits /\ LoadFits /\ access # Closed /\ access.revoking # 0
      /\ UNCHANGED clients /\ access' = [access EXCEPT !.revoking = 0]
  BY DEF AccessInv, RevokeFails
<1>2. /\ access \in PageFrame /\ access.state = "ready"
      /\ access.load = NotLoading
      /\ \A a \in access.answered : IsTrue(a) /\ IsTold(access.shown, a)
  BY <1>1, OpenPageFits
<1>3. /\ access' \in PageFrame /\ access'.state = access.state /\ access'.load = access.load
      /\ access'.creating = access.creating /\ access'.revoking = 0
      /\ access'.answered = access.answered /\ access'.shown = access.shown
  BY <1>1, <1>2 DEF PageFrame
<1>4. access'.load = Overtaken
  BY <1>1, <1>2, <1>3, OvertakenLoad
<1> QED
  BY <1>1, <1>2, <1>3, <1>4, AnsweredPage

LEMMA RevocationIsTold ==
  ASSUME AccessInv, RevokeAnswers
  PROVE  AccessInv'
<1>1. AccessFits /\ access # Closed /\ access.revoking # 0 /\ UNCHANGED clients
  BY DEF AccessInv, RevokeAnswers
<1>2. PICK c, old : c = access.revoking /\ old = access.shown
  OBVIOUS
<1>3. /\ access \in PageFrame /\ IsTrue(<<c, TRUE>>) /\ c \in IdsShown(old)
      /\ \A a \in access.answered : IsTrue(a) /\ IsTold(old, a)
  BY <1>1, <1>2, OpenPageFits
<1>4. PICK shown, load, answered :
        /\ shown = [i \in DOMAIN old |-> IF old[i].id = c THEN [old[i] EXCEPT !.revoked = TRUE]
                                         ELSE old[i]]
        /\ load = Overtaken
        /\ answered = (access.answered \ {<<c, FALSE>>}) \cup {<<c, TRUE>>}
  OBVIOUS
<1>5. access' = [access EXCEPT !.revoking = 0, !.load = load, !.shown = shown, !.answered = answered]
  BY Zenon, <1>2, <1>4 DEF RevokeAnswers
<1>6. /\ old \in Seq(ListedRow) /\ access.answered \subseteq Nat \X BOOLEAN
      /\ c \in Nat /\ load \in {NotLoading} \cup LoadFrame
  BY <1>1, <1>2, <1>3, <1>4, OvertakenLoad DEF PageFrame
<1>7. ASSUME NEW i \in DOMAIN old
      PROVE  /\ shown[i] \in ListedRow /\ shown[i].id = old[i].id
             /\ old[i].revoked \/ old[i].id = c => shown[i].revoked
  <2>1. PICK row : row = old[i]
    OBVIOUS
  <2>2. row \in ListedRow
    BY <1>6, <2>1
  <2>3. shown[i] = IF row.id = c THEN [row EXCEPT !.revoked = TRUE] ELSE row
    BY <1>4, <2>1
  <2> QED
    BY <2>1, <2>2, <2>3 DEF ListedRow
<1>8. DOMAIN shown = DOMAIN old /\ shown \in Seq(ListedRow)
  <2>1. PICK n : n = Len(old)
    OBVIOUS
  <2>2. n \in Nat /\ DOMAIN old = 1 .. n
    BY <1>6, <2>1
  <2>3. DOMAIN shown = 1 .. n /\ shown = [i \in 1 .. n |-> shown[i]]
    BY <1>4, <2>2
  <2>4. \A i \in 1 .. n : shown[i] \in ListedRow
    BY <1>7, <2>2
  <2> QED
    BY <2>2, <2>3, <2>4
<1>9. answered \subseteq Nat \X BOOLEAN
  <2>1. <<c, TRUE>> \in Nat \X BOOLEAN
    BY <1>6
  <2> QED
    BY <1>4, <1>6, <2>1
<1>10. /\ access' \in PageFrame /\ access'.state = access.state /\ access'.load = load
       /\ access'.creating = access.creating /\ access'.revoking = 0
       /\ access'.shown = shown /\ access'.answered = answered
  BY <1>3, <1>5, <1>6, <1>8, <1>9 DEF PageFrame
<1>11. IdsShown(old) \subseteq IdsShown(shown)
  BY <1>7, <1>8 DEF IdsShown
<1>12. NeverActive(shown, c)
  BY <1>7, <1>8 DEF NeverActive
<1>13. ASSUME NEW a \in answered PROVE IsTrue(a) /\ IsTold(shown, a)
  <2>1. CASE a = <<c, TRUE>>
    BY <1>3, <1>11, <1>12, <2>1 DEF IsTold
  <2>2. CASE a \in access.answered
    <3>1. IsTrue(a) /\ a[1] \in IdsShown(old) /\ (a[2] => NeverActive(old, a[1]))
      BY <1>3, <2>2 DEF IsTold
    <3>2. a[2] => NeverActive(shown, a[1])
      BY <1>7, <1>8, <3>1 DEF NeverActive
    <3> QED
      BY <1>11, <3>1, <3>2 DEF IsTold
  <2> QED
    BY <1>4, <2>1, <2>2
<1> QED
  BY <1>1, <1>2, <1>4, <1>10, <1>11, <1>13, AnsweredPage

LEMMA PageStep ==
  ASSUME DoorInv, AccessInv, [ClientsNext]_clientsVars
  PROVE  AccessInv'
<1>1. ClientsFit' /\ RowsAreKept
  BY RequestStep DEF DoorInv
<1>2. CASE UNCHANGED access
  BY <1>1, <1>2, PageIsLeftAlone
<1>3. CASE UNCHANGED clientsVars
  BY <1>2, <1>3 DEF clientsVars
<1>4. CASE EndpointNext
  <2>1. UNCHANGED access
    BY Zenon, <1>4 DEF EndpointNext, CreateElsewhere, RevokeElsewhere, HourPasses, SelectClient, TouchClient,
       ReselectClient, DispatchCall, TurnAway, ClaimOperation, EndRequest, PerformOperation
  <2> QED
    BY <1>2, <2>1
<1>5. CASE AccessNext
  <2>1. ASSUME NEW scopes \in Grants, CreateElsewhere(scopes) PROVE AccessInv'
    BY <1>2, <2>1 DEF CreateElsewhere
  <2>2. ASSUME NEW c \in DOMAIN clients, RevokeElsewhere(c) PROVE AccessInv'
    BY <1>2, <2>2 DEF RevokeElsewhere
  <2> QED
    BY Zenon, <1>5, <2>1, <2>2, SubmitKeepsPage, ConfirmKeepsPage, OpenKeepsPage, LeaveKeepsPage,
       RetryKeepsPage, ReadKeepsPage, ShowKeepsPage, FailureKeepsPage, CreationIsTold,
       CreateFailureKeepsPage, RevocationIsTold, RevokeFailureKeepsPage DEF AccessNext
<1> QED
  BY <1>3, <1>4, <1>5 DEF ClientsNext

LEMMA ClientsInvariant == ClientsSpec => [](DoorInv /\ AccessInv)
<1>1. ClientsInit => DoorInv /\ AccessInv
  <2> SUFFICES ASSUME ClientsInit PROVE DoorInv /\ AccessInv
    OBVIOUS
  <2>1. access = Closed
    BY DEF ClientsInit
  <2> QED
    BY <2>1, ClientsBegin DEF AccessInv, AccessFits, LoadFits
<1>2. DoorInv /\ AccessInv /\ [ClientsNext]_clientsVars => (DoorInv /\ AccessInv)'
  BY RequestStep, PageStep
<1> QED
  BY <1>1, <1>2, PTL DEF ClientsSpec

(* Whatever load was under way, page by page, while other clients came and  *)
(* went, the list shows every client whose creation the owner was told of,  *)
(* and none as active whose revocation was (access-settings-content.tsx,    *)
(* mergeClientsAfterStaleLoad).                                             *)
THEOREM TheOwnerSeesWhatWasTold == ClientsSpec => []AccessKeepsAnswers
<1>1. AccessInv => AccessKeepsAnswers
  <2> SUFFICES ASSUME AccessInv, access.state = "ready" PROVE AccessKeepsAnswers
    BY DEF AccessKeepsAnswers
  <2>1. access # Closed
    BY DEF Closed
  <2>2. \A a \in access.answered : IsTold(access.shown, a)
    BY <2>1, OpenPageFits DEF AccessInv
  <2> QED
    BY <2>2 DEF AccessKeepsAnswers, IsTold, NeverActive
<1> QED
  BY <1>1, ClientsInvariant, PTL

-----------------------------------------------------------------------------
(* Lists read page by page (Paging).  What was told lies before the cursor, *)
(* and what was not told yet lies behind it, or in a millisecond that a     *)
(* cursor cut short.                                                        *)

Walk == [pc : {"none", "first", "more", "end", "refused"}, cursor : Nat, at : Nat,
         cut : SUBSET Nat, told : Seq(RowIds), there : SUBSET RowIds]

PagingTypes ==
  /\ list \in Lists /\ table \in [RowIds -> 0 .. Gone] /\ walk \in Walk
  /\ walk.there \subseteq Here
  /\ list = "messages" => \A i \in Here : table[i] = Millisecond(table[i])
  /\ walk.pc \in {"none", "first"} => walk.cursor = 0 /\ walk.told = <<>>

Lossy == list \notin {"clients", "messages", "routines"}
Reads == walk.pc \in {"first", "more"}

\* Rows that the next page may tell.
Ahead(i) ==
  IF list = "routines" THEN i > walk.cursor
  ELSE walk.pc = "first" \/ Behind(i, walk.at, walk.cursor)

ToldOnce ==
  \A i, j \in DOMAIN walk.told :
    i # j /\ walk.told[i] = walk.told[j] => walk.told[i] \notin walk.there

ToldIsPast ==
  Reads => \A i \in DOMAIN walk.told : walk.told[i] \in walk.there => ~ Ahead(walk.told[i])

NoneLeftOut ==
  walk.pc \notin {"none", "refused"} =>
    \A i \in walk.there :
      \/ \E n \in DOMAIN walk.told : walk.told[n] = i
      \/ Reads /\ Ahead(i)
      \/ Lossy /\ Millisecond(table[i]) \in walk.cut

PagingInv == PagingTypes /\ ToldOnce /\ ToldIsPast /\ NoneLeftOut

\* The milliseconds: every instant from a millisecond to one that is told as
\* this millisecond is told as it, too.
LEMMA MillisecondFacts ==
  ASSUME NEW t \in Nat
  PROVE  /\ Millisecond(t) \in Nat /\ Millisecond(t) <= t
         /\ \A s \in Nat : Millisecond(t) <= s /\ s <= t => Millisecond(s) = Millisecond(t)
<1>0. Fine \in Nat \ {0}
  BY PagingAssumption
<1> DEFINE q == t \div Fine
           r == t % Fine
<1>1. q \in Nat /\ r \in 0 .. Fine - 1 /\ t = Fine * q + r
  BY <1>0
<1>2. Millisecond(t) = Fine * q
  BY <1>0, <1>1 DEF Millisecond
<1>3. ASSUME NEW s \in Nat, Fine * q <= s, s <= t PROVE Millisecond(s) = Fine * q
  <2> DEFINE p == s \div Fine
             u == s % Fine
  <2>1. p \in Nat /\ u \in 0 .. Fine - 1 /\ s = Fine * p + u
    BY <1>0
  <2>2. p = q
    <3> HIDE DEF p, u, q, r
    <3>1. CASE p < q
      <4>1. Fine * (p + 1) <= Fine * q
        BY <1>0, <1>1, <2>1, <3>1
      <4>2. Fine * (p + 1) = Fine * p + Fine
        BY <1>0, <2>1
      <4> QED BY <1>0, <1>1, <1>3, <2>1, <4>1, <4>2
    <3>2. CASE q < p
      <4>1. Fine * (q + 1) <= Fine * p
        BY <1>0, <1>1, <2>1, <3>2
      <4>2. Fine * (q + 1) = Fine * q + Fine
        BY <1>0, <1>1
      <4> QED BY <1>0, <1>1, <1>3, <2>1, <4>1, <4>2
    <3> QED BY <1>1, <2>1, <3>1, <3>2
  <2> QED BY <1>0, <2>1, <2>2 DEF Millisecond
<1>4. Fine * q \in Nat /\ Fine * q <= t
  BY <1>0, <1>1
<1> QED BY <1>2, <1>3, <1>4

LEMMA RowsHere ==
  ASSUME PagingTypes
  PROVE  /\ RowIds \subseteq Nat \ {0} /\ Gone \in Nat /\ Limit \in Nat \ {0}
         /\ \A i \in RowIds : table[i] \in Nat /\ Millisecond(table[i]) \in Nat
         /\ \A S \in SUBSET RowIds : IsFiniteSet(S)
         /\ walk.there \subseteq Here /\ Here \subseteq RowIds
<1>1. RowIds \subseteq Nat \ {0} /\ Gone \in Nat /\ Limit \in Nat \ {0} /\ IsFiniteSet(RowIds)
  BY PagingAssumption DEF Gone
<1>2. \A i \in RowIds : table[i] \in Nat
  BY <1>1 DEF PagingTypes
<1>3. \A S \in SUBSET RowIds : IsFiniteSet(S)
  BY <1>1, FS_Subset
<1> QED BY <1>1, <1>2, <1>3, MillisecondFacts DEF PagingTypes, Here

\* The rows in the order of a page: every row once, each before those it precedes.
LEMMA LatestFirstFacts ==
  ASSUME PagingTypes, NEW S \in SUBSET RowIds
  PROVE  /\ Cardinality(S) \in Nat /\ LatestFirst(S) \in [1 .. Cardinality(S) -> S]
         /\ \A n, m \in 1 .. Cardinality(S) : n < m => Newer(LatestFirst(S)[n], LatestFirst(S)[m])
         /\ \A i \in S : \E n \in 1 .. Cardinality(S) : LatestFirst(S)[n] = i
<1> DEFINE R == {ij \in S \X S : Newer(ij[1], ij[2])}
<1>1. \A i, j \in S : <<i, j>> \in R <=> Newer(i, j)
  OBVIOUS
<1>2. \A i \in S : i \in Nat /\ table[i] \in Nat
  BY RowsHere
<1>3. \A i, j \in S : Newer(i, j) <=> table[i] > table[j] \/ (table[i] = table[j] /\ i > j)
  BY DEF Newer
<1>4. LatestFirst(S) = InOrder(S, R)
  BY DEF LatestFirst
<1> HIDE DEF R
<1>5. \A i \in S : <<i, i>> \notin R
  BY <1>1, <1>2, <1>3
<1>6. \A i, j, k \in S : <<i, j>> \in R /\ <<j, k>> \in R => <<i, k>> \in R
  BY <1>1, <1>2, <1>3
<1>7. ASSUME NEW i \in S, NEW j \in S PROVE i = j \/ <<i, j>> \in R \/ <<j, i>> \in R
  <2>1. i = j \/ (table[i] > table[j] \/ (table[i] = table[j] /\ i > j))
              \/ (table[j] > table[i] \/ (table[j] = table[i] /\ j > i))
    BY <1>2
  <2> QED BY <1>1, <1>3, <2>1
<1>8. Ordered(S, R)
  BY <1>5, <1>6, <1>7, RowsHere DEF Ordered
<1>9. /\ Cardinality(S) \in Nat /\ InOrder(S, R) \in [1 .. Cardinality(S) -> S]
      /\ \A n, m \in 1 .. Cardinality(S) : n < m => <<InOrder(S, R)[n], InOrder(S, R)[m]>> \in R
      /\ \A i \in S : \E n \in 1 .. Cardinality(S) : InOrder(S, R)[n] = i
  BY <1>8, InOrderFacts
<1> QED BY <1>1, <1>4, <1>9

LEMMA ByIdFacts ==
  ASSUME PagingTypes, NEW S \in SUBSET RowIds
  PROVE  /\ Cardinality(S) \in Nat /\ ById(S) \in [1 .. Cardinality(S) -> S]
         /\ \A n, m \in 1 .. Cardinality(S) : n < m => ById(S)[n] < ById(S)[m]
         /\ \A i \in S : \E n \in 1 .. Cardinality(S) : ById(S)[n] = i
<1> DEFINE R == {ij \in S \X S : ij[1] < ij[2]}
<1>1. \A i, j \in S : <<i, j>> \in R <=> i < j
  OBVIOUS
<1>2. \A i \in S : i \in Nat
  BY RowsHere
<1>3. ById(S) = InOrder(S, R)
  BY DEF ById
<1> HIDE DEF R
<1>4. \A i \in S : <<i, i>> \notin R
  BY <1>1, <1>2
<1>5. \A i, j, k \in S : <<i, j>> \in R /\ <<j, k>> \in R => <<i, k>> \in R
  BY <1>1, <1>2
<1>6. ASSUME NEW i \in S, NEW j \in S PROVE i = j \/ <<i, j>> \in R \/ <<j, i>> \in R
  <2>1. i = j \/ i < j \/ j < i
    BY <1>2
  <2> QED BY <1>1, <2>1
<1>7. Ordered(S, R)
  BY <1>4, <1>5, <1>6, RowsHere DEF Ordered
<1>8. /\ Cardinality(S) \in Nat /\ InOrder(S, R) \in [1 .. Cardinality(S) -> S]
      /\ \A n, m \in 1 .. Cardinality(S) : n < m => <<InOrder(S, R)[n], InOrder(S, R)[m]>> \in R
      /\ \A i \in S : \E n \in 1 .. Cardinality(S) : InOrder(S, R)[n] = i
  BY <1>7, InOrderFacts
<1> QED BY <1>1, <1>3, <1>8

\* What a page of k rows leaves in the hands of the reader.
LEMMA PageRead ==
  ASSUME PagingTypes, NEW N \in Nat, NEW order \in [1 .. N -> Here],
         NEW cursorTime, \A i \in Here : cursorTime[i] \in Nat, ReadPageOf(order, cursorTime)
  PROVE  /\ walk' \in Walk /\ walk'.there = walk.there
         /\ walk'.pc = IF N > Limit THEN "more" ELSE "end"
         /\ \E k \in 0 .. N :
              /\ k = IF N < Limit THEN N ELSE Limit
              /\ Len(walk.told) \in Nat /\ Len(walk'.told) = Len(walk.told) + k
              /\ \A n \in 1 .. Len(walk.told) : walk'.told[n] = walk.told[n]
              /\ \A n \in 1 .. k : walk'.told[Len(walk.told) + n] = order[n]
              /\ walk.cut \subseteq walk'.cut
              /\ N > 0 => /\ k > 0 /\ walk'.cursor = order[k] /\ walk'.at = cursorTime[order[k]]
                          /\ cursorTime[order[k]] # table[order[k]] =>
                               cursorTime[order[k]] \in walk'.cut
<1> DEFINE k == IF N < Limit THEN N ELSE Limit
           page == SubSeq(order, 1, k)
           told == walk.told \o page
           pc == IF N > Limit THEN "more" ELSE "end"
           cursor == IF page = <<>> THEN 0 ELSE Last(page)
           at == IF page = <<>> THEN 0 ELSE cursorTime[Last(page)]
           cut == IF page = <<>> \/ cursorTime[Last(page)] = table[Last(page)] THEN walk.cut
                  ELSE walk.cut \cup {cursorTime[Last(page)]}
<1>0. /\ Limit \in Nat \ {0} /\ RowIds \subseteq Nat \ {0} /\ Here \subseteq RowIds
      /\ walk \in Walk /\ walk.told \in Seq(RowIds) /\ walk.cut \in SUBSET Nat
  BY RowsHere DEF PagingTypes, Walk
<1>1. k \in 0 .. N /\ (N > 0 => k > 0) /\ k \in Nat
  BY <1>0
<1>2. order \in Seq(RowIds) /\ Len(order) = N
  <2>1. order \in [1 .. N -> RowIds]
    BY <1>0
  <2> QED BY <2>1, LenProperties DEF Seq
<1>3. page \in Seq(RowIds) /\ Len(page) = k /\ \A n \in 1 .. k : page[n] = order[n]
  <2> HIDE DEF k
  <2> QED BY <1>1, <1>2, SubSeqProperties
<1>4. walk' = [walk EXCEPT !.told = told, !.pc = pc, !.cursor = cursor, !.at = at, !.cut = cut]
  BY <1>2 DEF ReadPageOf
<1>5. page = <<>> <=> k = 0
  <2> HIDE DEF page, k
  <2> QED BY <1>1, <1>3, EmptySeq
<1> HIDE DEF k, page
<1>6. N > 0 => page # <<>> /\ Last(page) = order[k] /\ order[k] \in Here
  BY <1>1, <1>3, <1>5 DEF Last
<1>7. page # <<>> => N > 0
  BY <1>1, <1>5
<1>8. /\ cursor \in Nat /\ at \in Nat /\ cut \in SUBSET Nat /\ pc \in {"more", "end"}
      /\ walk.cut \subseteq cut
  BY <1>0, <1>6, <1>7
<1>9. /\ N > 0 => /\ k > 0 /\ cursor = order[k] /\ at = cursorTime[order[k]]
                  /\ cursorTime[order[k]] # table[order[k]] => cursorTime[order[k]] \in cut
  BY <1>1, <1>6
<1>10. /\ told \in Seq(RowIds) /\ Len(walk.told) \in Nat /\ Len(told) = Len(walk.told) + k
       /\ \A n \in 1 .. Len(walk.told) : told[n] = walk.told[n]
       /\ \A n \in 1 .. k : told[Len(walk.told) + n] = order[n]
  <2>1. PICK w \in Seq(RowIds) : w = walk.told
    BY <1>0
  <2>2. page \in Seq(RowIds)
    BY <1>3
  <2>3. /\ w \o page \in Seq(RowIds) /\ Len(w) \in Nat /\ Len(w \o page) = Len(w) + Len(page)
        /\ \A n \in 1 .. Len(w) : (w \o page)[n] = w[n]
        /\ \A n \in 1 .. Len(page) : (w \o page)[Len(w) + n] = page[n]
    BY <2>2
  <2> QED BY <1>3, <2>1, <2>3
<1> HIDE DEF told, pc, cursor, at, cut
<1>11. /\ walk' \in Walk /\ walk'.told = told /\ walk'.pc = pc /\ walk'.cursor = cursor
       /\ walk'.at = at /\ walk'.cut = cut /\ walk'.there = walk.there
  <2>1. PICK w \in Walk : w = walk
    BY <1>0
  <2> DEFINE v == [w EXCEPT !.told = told, !.pc = pc, !.cursor = cursor, !.at = at, !.cut = cut]
  <2>2. /\ v \in Walk /\ v.told = told /\ v.pc = pc /\ v.cursor = cursor
        /\ v.at = at /\ v.cut = cut /\ v.there = w.there
    BY <1>8, <1>10 DEF Walk
  <2>3. walk' = v
    BY <1>4, <2>1
  <2> HIDE DEF v
  <2> QED BY <2>1, <2>2, <2>3
<1>12. pc = IF N > Limit THEN "more" ELSE "end"
  BY DEF pc
<1>13. k = IF N < Limit THEN N ELSE Limit
  BY DEF k
<1> QED BY <1>1, <1>8, <1>9, <1>10, <1>11, <1>12, <1>13

\* The rows behind a cursor that was made from the row y.
After(i, y, time) == IF list = "routines" THEN i > y ELSE Behind(i, time, y)

LEMMA PageKeeps ==
  ASSUME PagingInv, Reads, NEW N \in Nat, NEW order \in [1 .. N -> Here],
         NEW cursorTime, \A i \in Here : cursorTime[i] \in Nat, ReadPageOf(order, cursorTime),
         \A n, m \in 1 .. N : order[n] = order[m] => n = m,
         \A n \in 1 .. N : Ahead(order[n]),
         \A i \in Here : Ahead(i) => \E n \in 1 .. N : order[n] = i,
         \A n, k \in 1 .. N : n <= k => ~ After(order[n], order[k], cursorTime[order[k]]),
         \A k \in 1 .. N, i \in Here : ~ Ahead(i) => ~ After(i, order[k], cursorTime[order[k]]),
         \A n, k \in 1 .. N : k < n =>
           \/ After(order[n], order[k], cursorTime[order[k]])
           \/ /\ Lossy /\ cursorTime[order[k]] # table[order[k]]
              /\ Millisecond(table[order[n]]) = cursorTime[order[k]]
  PROVE  PagingInv'
<1>0. PagingTypes /\ walk.there \subseteq Here /\ Limit \in Nat \ {0} /\ UNCHANGED <<list, table>>
  BY RowsHere DEF PagingInv, ReadPageOf
<1>1. /\ walk' \in Walk /\ walk'.there = walk.there
      /\ walk'.pc = IF N > Limit THEN "more" ELSE "end"
  BY <1>0, PageRead
<1>2. PICK k \in 0 .. N :
        /\ k = IF N < Limit THEN N ELSE Limit
        /\ Len(walk.told) \in Nat /\ Len(walk'.told) = Len(walk.told) + k
        /\ \A n \in 1 .. Len(walk.told) : walk'.told[n] = walk.told[n]
        /\ \A n \in 1 .. k : walk'.told[Len(walk.told) + n] = order[n]
        /\ walk.cut \subseteq walk'.cut
        /\ N > 0 => /\ k > 0 /\ walk'.cursor = order[k] /\ walk'.at = cursorTime[order[k]]
                    /\ cursorTime[order[k]] # table[order[k]] => cursorTime[order[k]] \in walk'.cut
  BY <1>0, PageRead
<1> DEFINE L == Len(walk.told)
<1>3. /\ DOMAIN walk.told = 1 .. L /\ DOMAIN walk'.told = 1 .. L + k /\ L \in Nat /\ k \in Nat
  BY <1>0, <1>1, <1>2 DEF PagingTypes, Walk
<1> HIDE DEF L
\* A row that is told is an old one, or one of this page.
<1>4. \A n \in DOMAIN walk'.told :
        \/ n \in 1 .. L /\ walk'.told[n] = walk.told[n]
        \/ \E m \in 1 .. k : n = L + m /\ walk'.told[n] = order[m] /\ m \in 1 .. N
  <2> TAKE n \in DOMAIN walk'.told
  <2>1. CASE n \in 1 .. L
    BY <1>2, <2>1 DEF L
  <2>2. CASE n \notin 1 .. L
    <3>1. n \in 1 .. L + k
      BY <1>3
    <3>2. PICK m \in 1 .. k : m = n - L
      BY <1>3, <2>2, <3>1
    <3>3. n = L + m /\ m \in 1 .. N
      BY <1>3, <3>1, <3>2
    <3> QED BY <1>2, <3>2, <3>3 DEF L
  <2> QED BY <2>1, <2>2
\* An old one that is still there is not ahead.
<1>5. \A n \in 1 .. L : walk.told[n] \in walk.there => ~ Ahead(walk.told[n]) /\ walk.told[n] \in Here
  BY <1>0, <1>3 DEF PagingInv, ToldIsPast
<1>6. PagingTypes'
  BY <1>0, <1>1 DEF PagingTypes, Here, Millisecond, Gone
<1>7. ToldOnce'
  <2> SUFFICES ASSUME NEW i \in DOMAIN walk'.told, NEW j \in DOMAIN walk'.told,
                      i # j, walk'.told[i] = walk'.told[j], walk'.told[i] \in walk'.there
               PROVE  FALSE
    BY DEF ToldOnce
  <2>1. walk'.told[i] \in walk.there
    BY <1>1
  <2>2. CASE i \in 1 .. L /\ j \in 1 .. L
    <3>1. walk'.told[i] = walk.told[i] /\ walk'.told[j] = walk.told[j]
      BY <1>2, <2>2 DEF L
    <3> QED BY <1>3, <2>1, <2>2, <3>1 DEF PagingInv, ToldOnce
  <2>3. CASE i \in 1 .. L /\ j \notin 1 .. L
    <3>1. walk'.told[i] = walk.told[i] /\ \E m \in 1 .. N : walk'.told[j] = order[m]
      BY <1>2, <1>4, <2>3 DEF L
    <3> QED BY <1>5, <2>1, <2>3, <3>1
  <2>4. CASE i \notin 1 .. L /\ j \in 1 .. L
    <3>1. walk'.told[j] = walk.told[j] /\ \E m \in 1 .. N : walk'.told[i] = order[m]
      BY <1>2, <1>4, <2>4 DEF L
    <3> QED BY <1>5, <2>1, <2>4, <3>1
  <2>5. CASE i \notin 1 .. L /\ j \notin 1 .. L
    <3>1. PICK m \in 1 .. N : i = L + m /\ walk'.told[i] = order[m]
      BY <1>4, <2>5
    <3>2. PICK o \in 1 .. N : j = L + o /\ walk'.told[j] = order[o]
      BY <1>4, <2>5
    <3>3. m = o
      BY <3>1, <3>2
    <3> QED BY <3>1, <3>2, <3>3
  <2> QED BY <2>2, <2>3, <2>4, <2>5
<1>8. N > Limit => /\ k \in 1 .. N /\ N > 0
                   /\ \A i : Ahead(i)' <=> After(i, order[k], cursorTime[order[k]])
  <2> SUFFICES ASSUME N > Limit
               PROVE  /\ k \in 1 .. N /\ N > 0
                      /\ \A i : Ahead(i)' <=> After(i, order[k], cursorTime[order[k]])
    OBVIOUS
  <2>1. k \in 1 .. N /\ N > 0
    BY <1>0, <1>2
  <2>2. walk'.pc = "more" /\ walk'.cursor = order[k] /\ walk'.at = cursorTime[order[k]]
    BY <1>1, <1>2, <2>1
  <2> QED BY <1>0, <2>1, <2>2 DEF Ahead, After, Behind
<1>9. ToldIsPast'
  <2> SUFFICES ASSUME Reads', NEW n \in DOMAIN walk'.told, walk'.told[n] \in walk'.there,
                      NEW y, y = walk'.told[n]
               PROVE  ~ Ahead(y)'
    BY DEF ToldIsPast, Ahead
  <2>1. N > Limit
    BY <1>1 DEF Reads
  <2>2. CASE n \in 1 .. L
    <3>1. PICK x \in Here : x = walk'.told[n] /\ ~ Ahead(x)
      BY <1>1, <1>2, <1>5, <2>2 DEF L
    <3>2. ~ After(x, order[k], cursorTime[order[k]])
      BY <1>8, <2>1, <3>1
    <3> QED BY <1>8, <2>1, <3>1, <3>2
  <2>3. CASE n \notin 1 .. L
    <3>1. PICK m \in 1 .. k : walk'.told[n] = order[m] /\ m \in 1 .. N
      BY <1>4, <2>3
    <3>2. ~ After(order[m], order[k], cursorTime[order[k]])
      BY <1>8, <2>1, <3>1
    <3> QED BY <1>8, <2>1, <3>1, <3>2
  <2> QED BY <2>2, <2>3
<1>10. NoneLeftOut'
  <2> SUFFICES ASSUME NEW i \in walk.there
               PROVE  \/ \E n \in DOMAIN walk'.told : walk'.told[n] = i
                      \/ Reads' /\ Ahead(i)'
                      \/ Lossy /\ Millisecond(table[i]) \in walk'.cut
    BY <1>0, <1>1 DEF NoneLeftOut, Lossy, Millisecond
  <2>1. \/ \E n \in DOMAIN walk.told : walk.told[n] = i
        \/ Ahead(i)
        \/ Lossy /\ Millisecond(table[i]) \in walk.cut
    BY DEF PagingInv, NoneLeftOut, Reads
  <2>2. CASE \E n \in DOMAIN walk.told : walk.told[n] = i
    <3>1. PICK n \in 1 .. L : walk.told[n] = i
      BY <1>3, <2>2
    <3>2. n \in DOMAIN walk'.told /\ walk'.told[n] = i
      BY <1>2, <1>3, <3>1 DEF L
    <3> QED BY <3>2
  <2>3. CASE Lossy /\ Millisecond(table[i]) \in walk.cut
    BY <1>2, <2>3
  <2>4. CASE Ahead(i)
    <3>1. PICK n \in 1 .. N : order[n] = i
      BY <1>0, <2>4
    <3>2. CASE n <= k
      <4>1. n \in 1 .. k /\ L + n \in DOMAIN walk'.told
        BY <1>3, <3>2
      <4> QED BY <1>2, <3>1, <4>1 DEF L
    <3>3. CASE k < n
      <4>1. N > Limit /\ k \in 1 .. N
        BY <1>0, <1>2, <3>3
      <4>2. Reads'
        BY <1>1, <4>1 DEF Reads
      <4>3. \/ After(i, order[k], cursorTime[order[k]])
            \/ /\ Lossy /\ cursorTime[order[k]] # table[order[k]]
               /\ Millisecond(table[i]) = cursorTime[order[k]]
        BY <3>1, <3>3, <4>1
      <4> QED BY <1>2, <1>8, <4>1, <4>2, <4>3
    <3> QED BY <1>3, <3>2, <3>3
  <2> QED BY <2>1, <2>2, <2>3, <2>4
<1> QED BY <1>6, <1>7, <1>9, <1>10 DEF PagingInv

\* A page by time: the cursor is the last row, told in microseconds or cut
\* short to its millisecond.
LEMMA TimePage ==
  ASSUME PagingInv, Reads, list # "routines", NEW cursorTime, \A i \in Here : cursorTime[i] \in Nat,
         \A i \in Here : \/ cursorTime[i] = table[i]
                         \/ Lossy /\ cursorTime[i] = Millisecond(table[i]),
         ReadPageOf(LatestFirst(RowsBehind), cursorTime)
  PROVE  PagingInv'
<1> DEFINE N == Cardinality(RowsBehind)
           order == LatestFirst(RowsBehind)
<1>1. /\ PagingTypes /\ Here \subseteq RowIds
      /\ \A i \in RowIds : i \in Nat /\ table[i] \in Nat
  BY RowsHere DEF PagingInv
<1>2. RowsBehind \in SUBSET RowIds /\ RowsBehind \subseteq Here
      /\ \A i \in Here : i \in RowsBehind <=> Ahead(i)
  BY <1>1 DEF RowsBehind, Ahead
<1>3. /\ N \in Nat /\ order \in [1 .. N -> RowsBehind]
      /\ \A n, m \in 1 .. N : n < m => Newer(order[n], order[m])
      /\ \A i \in RowsBehind : \E n \in 1 .. N : order[n] = i
  BY <1>1, <1>2, LatestFirstFacts
<1> HIDE DEF N, order
<1>4. order \in [1 .. N -> Here] /\ \A n \in 1 .. N : order[n] \in Here /\ Ahead(order[n])
  BY <1>2, <1>3
<1>5. \A i, j : Newer(i, j) <=> table[i] > table[j] \/ (table[i] = table[j] /\ i > j)
  BY DEF Newer
<1>6. \A i, y, time : After(i, y, time) <=> table[i] < time \/ (table[i] = time /\ i < y)
  BY DEF After, Behind
<1>7. \A i \in Here : cursorTime[i] \in Nat /\ cursorTime[i] <= table[i]
  BY <1>1, MillisecondFacts
\* A row that comes no later than y is not behind the cursor made from y.
<1>8. \A x, y \in Here : x = y \/ Newer(x, y) => ~ After(x, y, cursorTime[y])
  BY <1>1, <1>5, <1>6, <1>7
<1>9. ASSUME NEW x \in Here, NEW y \in Here, Newer(y, x)
      PROVE  \/ After(x, y, cursorTime[y])
             \/ /\ Lossy /\ cursorTime[y] # table[y]
                /\ Millisecond(table[x]) = cursorTime[y]
  <2>1. /\ x \in Nat /\ y \in Nat /\ table[x] \in Nat /\ table[y] \in Nat /\ table[x] <= table[y]
        /\ (table[y] = table[x] => x < y) /\ cursorTime[y] \in Nat
    BY <1>1, <1>5, <1>7, <1>9
  <2>2. CASE cursorTime[y] = table[y]
    BY <1>6, <2>1, <2>2
  <2>3. CASE cursorTime[y] # table[y]
    <3>1. Lossy /\ cursorTime[y] = Millisecond(table[y])
      BY <2>3
    <3>2. CASE table[x] < cursorTime[y]
      BY <1>6, <3>2
    <3>3. CASE ~ (table[x] < cursorTime[y])
      <4>1. Millisecond(table[y]) <= table[x]
        BY <2>1, <3>1, <3>3
      <4>2. Millisecond(table[x]) = Millisecond(table[y])
        BY <2>1, <4>1, MillisecondFacts
      <4> QED BY <2>3, <3>1, <4>2
    <3> QED BY <3>2, <3>3
  <2> QED BY <2>2, <2>3
<1>10. \A n, m \in 1 .. N : order[n] = order[m] => n = m
  <2> SUFFICES ASSUME NEW n \in 1 .. N, NEW m \in 1 .. N, order[n] = order[m], n < m PROVE FALSE
    BY <1>3
  <2>1. PICK x \in Here : x = order[n]
    BY <1>4
  <2>2. Newer(x, x)
    BY <1>3, <2>1
  <2> QED BY <1>1, <1>5, <2>2
<1>11. ASSUME NEW n \in 1 .. N, NEW k \in 1 .. N, n <= k
       PROVE  ~ After(order[n], order[k], cursorTime[order[k]])
  <2>1. order[n] = order[k] \/ Newer(order[n], order[k])
    BY <1>3, <1>11
  <2> QED BY <1>4, <1>8, <2>1
<1>12. ASSUME NEW k \in 1 .. N, NEW x \in Here, ~ Ahead(x)
       PROVE  ~ After(x, order[k], cursorTime[order[k]])
  <2>1. PICK y \in Here : y = order[k] /\ Ahead(y)
    BY <1>4
  <2>2. walk.pc # "first" /\ Behind(y, walk.at, walk.cursor) /\ ~ Behind(x, walk.at, walk.cursor)
    BY <1>12, <2>1 DEF Ahead
  <2>3. /\ table[y] < walk.at \/ (table[y] = walk.at /\ y < walk.cursor)
        /\ ~ (table[x] < walk.at \/ (table[x] = walk.at /\ x < walk.cursor))
    BY <2>2 DEF Behind
  <2>4. walk.at \in Nat /\ walk.cursor \in Nat /\ table[x] \in Nat /\ table[y] \in Nat
        /\ x \in Nat /\ y \in Nat
    BY <1>1 DEF PagingTypes, Walk
  <2>5. Newer(x, y)
    BY <1>5, <2>3, <2>4
  <2> QED BY <1>8, <2>1, <2>5
<1>13. ASSUME NEW n \in 1 .. N, NEW k \in 1 .. N, k < n
       PROVE  \/ After(order[n], order[k], cursorTime[order[k]])
              \/ /\ Lossy /\ cursorTime[order[k]] # table[order[k]]
                 /\ Millisecond(table[order[n]]) = cursorTime[order[k]]
  BY <1>3, <1>4, <1>9, <1>13
<1>14. \A i \in Here : Ahead(i) => \E n \in 1 .. N : order[n] = i
  BY <1>2, <1>3
<1>15. ReadPageOf(order, cursorTime)
  BY DEF order
<1> QED BY <1>3, <1>4, <1>10, <1>11, <1>12, <1>13, <1>14, <1>15, PageKeeps

\* A page by id: the cursor is the last routine.
LEMMA RoutinesPage ==
  ASSUME PagingInv, Reads, list = "routines",
         ReadPageOf(ById({i \in Here : i > walk.cursor}), [i \in Here |-> 0])
  PROVE  PagingInv'
<1> DEFINE S == {i \in Here : i > walk.cursor}
           N == Cardinality(S)
           order == ById(S)
           cursorTime == [i \in Here |-> 0]
<1>1. /\ PagingTypes /\ Here \subseteq RowIds /\ \A i \in RowIds : i \in Nat
      /\ walk.cursor \in Nat
  BY RowsHere DEF PagingInv, PagingTypes, Walk
<1>2. S \in SUBSET RowIds /\ S \subseteq Here /\ \A i \in Here : i \in S <=> Ahead(i)
  BY <1>1 DEF Ahead
<1> HIDE DEF S
<1>3. /\ N \in Nat /\ order \in [1 .. N -> S]
      /\ \A n, m \in 1 .. N : n < m => order[n] < order[m]
      /\ \A i \in S : \E n \in 1 .. N : order[n] = i
  BY <1>1, <1>2, ByIdFacts
<1> HIDE DEF N, order
<1>4. order \in [1 .. N -> Here]
      /\ \A n \in 1 .. N : order[n] \in Here /\ order[n] \in Nat /\ Ahead(order[n])
  BY <1>1, <1>2, <1>3
<1>5. (\A i \in Here : cursorTime[i] \in Nat) /\ ReadPageOf(order, cursorTime)
  BY DEF order, S
<1> HIDE DEF cursorTime
<1>6. \A i, y, time : After(i, y, time) <=> i > y
  BY DEF After
<1>7. \A n, m \in 1 .. N : order[n] = order[m] => n = m
  <2> SUFFICES ASSUME NEW n \in 1 .. N, NEW m \in 1 .. N, order[n] = order[m], n < m PROVE FALSE
    BY <1>3
  <2>1. order[n] < order[m] /\ order[n] \in Nat
    BY <1>3, <1>4
  <2> QED BY <2>1
<1>8. ASSUME NEW n \in 1 .. N, NEW k \in 1 .. N, n <= k
      PROVE  ~ After(order[n], order[k], cursorTime[order[k]])
  <2>1. n = k \/ order[n] < order[k]
    BY <1>3, <1>8
  <2>2. order[n] \in Nat /\ order[k] \in Nat
    BY <1>4
  <2> QED BY <1>6, <2>1, <2>2
<1>9. ASSUME NEW k \in 1 .. N, NEW x \in Here, ~ Ahead(x)
      PROVE  ~ After(x, order[k], cursorTime[order[k]])
  <2>1. PICK y \in Here : y = order[k] /\ Ahead(y)
    BY <1>4
  <2>2. y > walk.cursor /\ ~ (x > walk.cursor)
    BY <1>9, <2>1 DEF Ahead
  <2> QED BY <1>1, <1>6, <2>1, <2>2
<1>10. ASSUME NEW n \in 1 .. N, NEW k \in 1 .. N, k < n
       PROVE  After(order[n], order[k], cursorTime[order[k]])
  <2>1. order[k] < order[n] /\ order[n] \in Nat /\ order[k] \in Nat
    BY <1>3, <1>4, <1>10
  <2> QED BY <1>6, <2>1
<1>11. \A i \in Here : Ahead(i) => \E n \in 1 .. N : order[n] = i
  BY <1>2, <1>3
<1> QED BY <1>3, <1>4, <1>5, <1>7, <1>8, <1>9, <1>10, <1>11, PageKeeps

LEMMA PagesAreRead ==
  ASSUME PagingInv, NEW l \in Lists, ByMilliseconds(l), l \notin {"clients", "routines"}
  PROVE  PagingInv'
<1> DEFINE cursorTime == [i \in Here |-> Millisecond(table[i])]
<1>1. Reads /\ list = l /\ ReadPageOf(LatestFirst(RowsBehind), cursorTime)
  BY DEF ByMilliseconds, Reading, Reads
<1>2. \A i \in Here : /\ Millisecond(table[i]) \in Nat
                      /\ \/ Millisecond(table[i]) = table[i] \/ Lossy
  BY <1>1, RowsHere DEF PagingInv, PagingTypes, Lossy
<1>3. /\ \A i \in Here : cursorTime[i] \in Nat
      /\ \A i \in Here : \/ cursorTime[i] = table[i]
                         \/ Lossy /\ cursorTime[i] = Millisecond(table[i])
  BY <1>2
<1> HIDE DEF cursorTime
<1> QED BY <1>1, <1>3, TimePage

LEMMA RowsComeAndGo ==
  ASSUME PagingInv, NEW i \in RowIds,
         RowLeaves(i) \/ \E time \in 0 .. MaxTime : InsertRow(i, time)
  PROVE  PagingInv'
<1>1. /\ PagingTypes /\ list' = list /\ walk \in Walk
  BY DEF PagingInv, PagingTypes, RowLeaves, InsertRow
<1>2. PICK time \in 0 .. Gone : /\ table' = [table EXCEPT ![i] = time]
                                /\ time # Gone /\ list = "messages" => time = Millisecond(time)
  BY PagingAssumption DEF RowLeaves, InsertRow, Gone
<1>3. /\ walk' \in Walk /\ walk'.pc = walk.pc /\ walk'.cursor = walk.cursor /\ walk'.at = walk.at
      /\ walk'.cut = walk.cut /\ walk'.told = walk.told /\ walk'.there = walk.there \ {i}
  <2>1. CASE RowLeaves(i)
    <3>1. walk' = [walk EXCEPT !.there = walk.there \ {i}]
      BY <2>1 DEF RowLeaves
    <3> QED BY <1>1, <3>1 DEF Walk
  <2>2. CASE \E t \in 0 .. MaxTime : InsertRow(i, t)
    <3>1. walk' = walk /\ i \notin walk.there
      BY <2>2 DEF InsertRow
    <3> QED BY <1>1, <3>1
  <2> QED BY <2>1, <2>2
\* The dates of the rows that stay are what they were.
<1>4. table' \in [RowIds -> 0 .. Gone] /\ \A j \in RowIds \ {i} : table'[j] = table[j]
  BY <1>1, <1>2 DEF PagingTypes
<1>5. walk.there \subseteq Here /\ walk'.there \subseteq RowIds \ {i} /\ walk'.there \subseteq Here'
  BY <1>1, <1>3, <1>4 DEF PagingTypes, Here, Gone
<1>6. PagingTypes'
  <2>1. ASSUME list = "messages", NEW j \in Here' PROVE table'[j] = Millisecond(table'[j])
    <3>1. CASE j = i
      BY <1>1, <1>2, <2>1, <3>1 DEF Here, PagingTypes, Gone
    <3>2. CASE j # i
      <4>1. j \in Here /\ table'[j] = table[j]
        BY <1>4, <3>2, <2>1 DEF Here, Gone
      <4> QED BY <1>1, <2>1, <4>1 DEF PagingTypes
    <3> QED BY <3>1, <3>2
  <2>2. (\A j \in Here : table[j] = Millisecond(table[j]))' \/ list # "messages"
    BY <2>1 DEF Millisecond
  <2> QED BY <1>1, <1>3, <1>4, <1>5, <2>2 DEF PagingTypes, Gone
<1>7. \A x \in walk'.there : x \in walk.there /\ (Ahead(x)' <=> Ahead(x)) /\ table'[x] = table[x]
  BY <1>1, <1>3, <1>4, <1>5 DEF Ahead, Behind
<1>8. ToldOnce'
  BY <1>3, <1>7 DEF PagingInv, ToldOnce
<1>9. ToldIsPast'
  <2> SUFFICES ASSUME Reads', NEW n \in DOMAIN walk'.told, walk'.told[n] \in walk'.there,
                      NEW y, y = walk'.told[n]
               PROVE  ~ Ahead(y)'
    BY DEF ToldIsPast, Ahead
  <2>1. Reads /\ n \in DOMAIN walk.told /\ walk.told[n] = y /\ y \in walk'.there
    BY <1>3 DEF Reads
  <2>2. ~ Ahead(y)
    BY <1>7, <2>1 DEF PagingInv, ToldIsPast
  <2> QED BY <1>7, <2>1, <2>2
<1>10. NoneLeftOut'
  <2> SUFFICES ASSUME walk.pc \notin {"none", "refused"}, NEW x \in walk'.there
               PROVE  \/ \E n \in DOMAIN walk.told : walk.told[n] = x
                      \/ Reads /\ Ahead(x)'
                      \/ Lossy /\ Millisecond(table'[x]) \in walk.cut
    BY <1>1, <1>3 DEF NoneLeftOut, Lossy, Reads, Millisecond
  <2> QED BY <1>7 DEF PagingInv, NoneLeftOut
<1> QED BY <1>6, <1>8, <1>9, <1>10 DEF PagingInv

(* Whatever rows come and go between the pages, a reader who follows the     *)
(* cursors is told every row that stays, once, but for those in a            *)
(* millisecond that a cursor has cut short (the list functions of the        *)
(* repositories).                                                            *)
THEOREM WalksTellEveryRow == PagingSpec => [](PagingTypeOK /\ WalkTellsEveryRow)
<1>1. PagingInit => PagingInv
  <2> SUFFICES ASSUME PagingInit PROVE PagingInv
    OBVIOUS
  <2>1. walk = NoWalk /\ NoWalk \in Walk /\ NoWalk.pc = "none" /\ NoWalk.told = <<>>
        /\ NoWalk.cursor = 0 /\ NoWalk.there = {}
    BY DEF PagingInit, NoWalk, Walk
  <2>2. PagingTypes
    BY <2>1 DEF PagingInit, PagingTypes
  <2>3. ToldOnce /\ ToldIsPast /\ NoneLeftOut
    BY <2>1 DEF ToldOnce, ToldIsPast, NoneLeftOut, Reads
  <2> QED BY <2>2, <2>3 DEF PagingInv
<1>2. PagingInv /\ [PagingNext]_pagingVars => PagingInv'
  <2> SUFFICES ASSUME PagingInv, [PagingNext]_pagingVars PROVE PagingInv'
    OBVIOUS
  <2>0. PagingTypes /\ walk \in Walk /\ Here \subseteq RowIds /\ \A i \in RowIds : table[i] \in Nat
    BY RowsHere DEF PagingInv, PagingTypes
  <2>1. CASE UNCHANGED pagingVars
    BY <2>1 DEF pagingVars, PagingInv, PagingTypes, ToldOnce, ToldIsPast, NoneLeftOut, Reads, Ahead,
       Behind, Lossy, Here, Millisecond, Gone
  <2>2. ASSUME StartWalk PROVE PagingInv'
    <3>1. /\ UNCHANGED <<list, table>> /\ walk' \in Walk /\ walk'.pc = "first" /\ walk'.told = <<>>
          /\ walk'.cursor = 0 /\ walk'.there = Here
      <4>0. NoWalk \in Walk /\ NoWalk.told = <<>> /\ NoWalk.cursor = 0
        BY DEF NoWalk, Walk
      <4>1. PICK n \in Walk : n = NoWalk /\ n.told = <<>> /\ n.cursor = 0
        BY <4>0
      <4>2. PICK here \in SUBSET RowIds : here = Here
        BY <2>0
      <4> DEFINE w == [n EXCEPT !.pc = "first", !.there = here]
      <4>3. w \in Walk /\ w.pc = "first" /\ w.told = n.told /\ w.cursor = n.cursor /\ w.there = here
        BY DEF Walk
      <4>4. walk' = w /\ UNCHANGED <<list, table>>
        BY <2>2, <4>1, <4>2 DEF StartWalk
      <4> HIDE DEF w
      <4> QED BY <4>1, <4>2, <4>3, <4>4
    <3>2. PagingTypes'
      BY <2>0, <3>1 DEF PagingTypes, Here, Millisecond, Gone
    <3>3. ToldOnce' /\ ToldIsPast'
      BY <3>1 DEF ToldOnce, ToldIsPast
    <3>4. \A i \in Here : Ahead(i)'
      <4>1. \A i \in Here : i > 0
        BY <2>0, PagingAssumption
      <4> QED BY <3>1, <4>1 DEF Ahead
    <3>5. NoneLeftOut'
      BY <3>1, <3>4 DEF NoneLeftOut, Reads
    <3> QED BY <3>2, <3>3, <3>5 DEF PagingInv
  <2>3. ASSUME ListControlClients PROVE PagingInv'
    <3>1. Reads /\ list = "clients" /\ ReadPageOf(LatestFirst(RowsBehind), table)
      BY <2>3 DEF ListControlClients, Reading, Reads
    <3>2. \A i \in Here : table[i] \in Nat
      BY <2>0
    <3> QED BY <3>1, <3>2, TimePage
  <2>4. ASSUME ListRoutinesPage PROVE PagingInv'
    <3>1. list = "routines" /\ Reads
      BY <2>4 DEF ListRoutinesPage, Reading, Reads
    <3>2. CASE walk' = [walk EXCEPT !.pc = "refused"] /\ UNCHANGED <<list, table>>
      <4>1. /\ walk' \in Walk /\ walk'.pc = "refused" /\ walk'.told = walk.told
            /\ walk'.there = walk.there
        BY <2>0, <3>2 DEF Walk
      <4>2. PagingTypes'
        BY <2>0, <3>1, <3>2, <4>1 DEF PagingTypes, Here, Millisecond, Gone
      <4>3. ToldOnce' /\ ToldIsPast' /\ NoneLeftOut'
        BY <4>1 DEF PagingInv, ToldOnce, ToldIsPast, NoneLeftOut, Reads
      <4> QED BY <4>2, <4>3 DEF PagingInv
    <3>3. CASE ReadPageOf(ById({i \in Here : i > walk.cursor}), [i \in Here |-> 0])
      BY <3>1, <3>3, RoutinesPage
    <3> QED BY <2>4, <3>2, <3>3 DEF ListRoutinesPage
  <2>5. ASSUME NEW l \in Lists \ {"clients", "routines"}, ByMilliseconds(l) PROVE PagingInv'
    BY <2>5, PagesAreRead
  <2>6. CASE PagingNext
    BY <2>2, <2>3, <2>4, <2>5, <2>6, RowsComeAndGo DEF PagingNext, ListControlAuditEvents,
       ListPersonasPage, ListJobsPage, ListPending, ListPendingToolCallsPage, ListMessagesPageByJob,
       ListNotificationsPage, Lists
  <2> QED BY <2>1, <2>6
<1>3. PagingInv => PagingTypeOK /\ WalkTellsEveryRow
  <2> SUFFICES ASSUME PagingInv PROVE PagingTypeOK /\ WalkTellsEveryRow
    OBVIOUS
  <2>1. PagingTypeOK
    BY DEF PagingInv, PagingTypes, PagingTypeOK, Walk
  <2>2. ASSUME walk.pc = "end", NEW i \in walk.there \ ToSet(walk.told)
        PROVE  list \notin {"clients", "messages", "routines"} /\ Millisecond(table[i]) \in walk.cut
    <3>1. ~ \E n \in DOMAIN walk.told : walk.told[n] = i
      BY DEF ToSet
    <3> QED BY <2>2, <3>1 DEF PagingInv, NoneLeftOut, Reads, Lossy
  <2> QED BY <2>1, <2>2 DEF WalkTellsEveryRow, PagingInv, ToldOnce
<1> QED BY <1>1, <1>2, <1>3, PTL DEF PagingSpec

-----------------------------------------------------------------------------
(* The types of the clients (ControlClients).  A client has one audit row   *)
(* of a revocation when it is revoked and none before; and what a request   *)
(* claims is an operation of its client.                                    *)

CountedOnce ==
  \A c \in DOMAIN clients : clients[c].revocations = IF clients[c].revoked THEN 1 ELSE 0

\* What a request still needs of its call, wherever it stands.
RequestFits(f) ==
  /\ f.pc \in {"touch", "reselect", "admitted", "claim"} =>
       f.client \in 1 .. MaxClients /\ f.call \in Calls
  /\ f.pc = "claim" => f.call.tool \in Mutations /\ f.key \in Int
  /\ f.pc = "perform" => f.operation \in Operation

OperationsFit == operations \subseteq Operation /\ minted \in 0 .. MaxMinted

RequestsFit == \A r \in Inbound : RequestFits(inbound[r])

AuditInv == CountedOnce /\ OperationsFit /\ RequestsFit

LEMMA OneRowChanges ==
  ASSUME ClientsFit, CountedOnce, NEW c \in DOMAIN clients, NEW row,
         row.revocations = IF row.revoked THEN 1 ELSE 0, clients' = [clients EXCEPT ![c] = row]
  PROVE  CountedOnce'
<1>1. clients \in Seq(KeptClient)
  BY DEF ClientsFit
<1> QED
  BY <1>1 DEF CountedOnce

\* A row is used or added, or the one statement that revokes it also counts.
LEMMA RevocationIsCounted ==
  ASSUME ClientsFit, CountedOnce,
         \/ \E c \in DOMAIN clients : \/ RevokeControlClient(c)
                                      \/ \E used : clients' = [clients EXCEPT ![c].used = used]
         \/ \E scopes \in Grants : CreateControlClient(scopes)
  PROVE  CountedOnce'
<1>1. clients \in Seq(KeptClient) /\ \A c \in DOMAIN clients : clients[c] \in KeptClient
  BY DEF ClientsFit
<1>2. ASSUME NEW c \in DOMAIN clients, RevokeControlClient(c), Active(c) PROVE CountedOnce'
  <2>1. PICK old : old = clients[c]
    OBVIOUS
  <2>2. PICK mid : mid = [old EXCEPT !.revoked = TRUE]
    OBVIOUS
  <2>3. PICK row : row = [mid EXCEPT !.revocations = mid.revocations + 1]
    OBVIOUS
  <2>4. old \in KeptClient /\ ~ old.revoked /\ old.revocations = 0
    BY <1>1, <1>2, <2>1 DEF Active, CountedOnce
  <2>5. mid \in KeptClient /\ mid.revoked /\ mid.revocations = 0
    BY <2>2, <2>4 DEF KeptClient
  <2>6. row.revoked /\ row.revocations = 1
    BY <2>3, <2>5 DEF KeptClient
  <2>7. clients' = [clients EXCEPT ![c] = row]
    BY <1>1, <1>2, <2>1, <2>2, <2>3, <2>4, <2>5 DEF RevokeControlClient
  <2> QED
    BY <2>6, <2>7, OneRowChanges
<1>3. ASSUME NEW c \in DOMAIN clients, RevokeControlClient(c), ~ Active(c) PROVE CountedOnce'
  BY <1>3 DEF RevokeControlClient, CountedOnce
<1>4. ASSUME NEW c \in DOMAIN clients, NEW used, clients' = [clients EXCEPT ![c].used = used]
      PROVE  CountedOnce'
  <2>1. PICK row : row = [clients[c] EXCEPT !.used = used]
    OBVIOUS
  <2>2. row.revoked = clients[c].revoked /\ row.revocations = clients[c].revocations
    BY <1>1, <2>1 DEF KeptClient
  <2> QED
    BY <1>4, <2>1, <2>2, OneRowChanges DEF CountedOnce
<1>5. ASSUME NEW scopes \in Grants, CreateControlClient(scopes) PROVE CountedOnce'
  <2>1. PICK row : row = [scopes |-> scopes, revoked |-> FALSE, used |-> "never", revocations |-> 0]
    OBVIOUS
  <2>2. clients' = Append(clients, row) /\ ~ row.revoked /\ row.revocations = 0
    BY <1>5, <2>1 DEF CreateControlClient
  <2>3. \A c \in DOMAIN clients' : clients'[c] = row \/ (c \in DOMAIN clients /\ clients'[c] = clients[c])
    <3>1. row \in KeptClient
      BY <2>1 DEF KeptClient
    <3>2. PICK n : n = Len(clients)
      OBVIOUS
    <3>3. /\ n \in Nat /\ DOMAIN clients = 1 .. n
          /\ DOMAIN clients' = 1 .. n + 1 /\ clients'[n + 1] = row
          /\ \A c \in 1 .. n : clients'[c] = clients[c]
      BY <1>1, <2>2, <3>1, <3>2
    <3>4. \A c \in 1 .. n + 1 : c \in 1 .. n \/ c = n + 1
      BY <3>3
    <3>5. ASSUME NEW c \in DOMAIN clients'
          PROVE  clients'[c] = row \/ (c \in DOMAIN clients /\ clients'[c] = clients[c])
      <4>1. c \in 1 .. n + 1
        BY <3>3
      <4>2. CASE c = n + 1
        BY <3>3, <4>2
      <4>3. CASE c \in 1 .. n
        BY <3>3, <4>3
      <4> QED
        BY <3>4, <4>1, <4>2, <4>3
    <3> QED
      BY <3>5
  <2> QED
    BY <2>2, <2>3 DEF CountedOnce
<1> QED
  BY <1>2, <1>3, <1>4, <1>5

LEMMA RequestsStayFit ==
  ASSUME DoorInv, RequestsFit, NEW r \in Inbound, NEW frame, Step(r, frame), RequestFits(frame)
  PROVE  RequestsFit'
<1>1. inbound' = [inbound EXCEPT ![r] = frame] /\ inbound = [x \in Inbound |-> inbound[x]]
  BY DEF Step, DoorInv
<1>2. inbound'[r] = frame /\ \A x \in Inbound \ {r} : inbound'[x] = inbound[x]
  BY <1>1
<1> QED
  BY <1>2 DEF RequestsFit, RequestFits

LEMMA RestingFits == RequestFits(Resting)
BY DEF RequestFits, Resting

\* A request at the door.
LEMMA DoorKeepsRequests ==
  ASSUME DoorInv, RequestsFit, NEW r \in Inbound,
         \/ \E c \in DOMAIN clients, call \in Calls : SelectClient(r, c, call)
         \/ TouchClient(r) \/ ReselectClient(r) \/ TurnAway(r) \/ EndRequest(r)
  PROVE  RequestsFit'
<1>1. ASSUME NEW c \in DOMAIN clients, NEW call \in Calls, SelectClient(r, c, call)
      PROVE  RequestsFit'
  <2>1. PICK scopes, pc : scopes = clients[c].scopes
                          /\ pc = IF clients[c].used = "recent" THEN "admitted" ELSE "touch"
    OBVIOUS
  <2>2. PICK frame : frame = [pc |-> pc, client |-> c, scopes |-> scopes, call |-> call]
    OBVIOUS
  <2>3. Step(r, frame)
    BY <1>1, <2>1, <2>2, Zenon DEF SelectClient, Arriving
  <2>4. c \in 1 .. MaxClients
    <3>1. clients \in Seq(KeptClient) /\ Len(clients) <= MaxClients /\ MaxClients \in Nat
      BY ClientsAssumption DEF DoorInv, ClientsFit
    <3> QED
      BY <3>1
  <2>5. RequestFits(frame)
    BY <2>1, <2>2, <2>4 DEF RequestFits
  <2> QED
    BY <2>3, <2>5, RequestsStayFit
<1>2. ASSUME NEW pc \in {"reselect", "admitted"}, inbound[r].pc \in {"touch", "reselect"},
             Step(r, [inbound[r] EXCEPT !.pc = pc])
      PROVE  RequestsFit'
  <2>1. PICK old, frame : old = inbound[r] /\ frame = [old EXCEPT !.pc = pc]
    OBVIOUS
  <2>2. old \in AtTheDoor /\ RequestFits(old)
    BY <1>2, <2>1 DEF DoorInv, RequestsFit
  <2>3. RequestFits(frame)
    BY <1>2, <2>1, <2>2 DEF RequestFits, AtTheDoor
  <2>4. Step(r, frame)
    BY <1>2, <2>1
  <2> QED
    BY <2>3, <2>4, RequestsStayFit
<1>3. Step(r, Resting) => RequestsFit'
  BY RestingFits, RequestsStayFit
<1>4. CASE TouchClient(r)
  <2>1. inbound[r].pc = "touch" /\ \E pc \in {"reselect", "admitted"} : Step(r, [inbound[r] EXCEPT !.pc = pc])
    BY <1>4, Zenon DEF TouchClient
  <2> QED
    BY <1>2, <2>1
<1>5. CASE ReselectClient(r)
  <2>1. /\ inbound[r].pc = "reselect"
        /\ Step(r, Resting) \/ Step(r, [inbound[r] EXCEPT !.pc = "admitted"])
    BY <1>5, Zenon DEF ReselectClient
  <2> QED
    BY <1>2, <1>3, <2>1
<1>6. CASE TurnAway(r) \/ EndRequest(r)
  BY <1>3, <1>6 DEF TurnAway, EndRequest
<1> QED
  BY <1>1, <1>4, <1>5, <1>6

\* A call that was let in, with its key, given or minted.
LEMMA DispatchFits ==
  ASSUME DoorInv, AuditInv, NEW r \in Inbound, DispatchCall(r)
  PROVE  OperationsFit' /\ RequestsFit'
<1>1. inbound[r].pc = "admitted" /\ RequestFits(inbound[r])
  BY DEF DispatchCall, AuditInv, RequestsFit
<1>2. PICK client, call, key : /\ client = inbound[r].client /\ call = inbound[r].call
                               /\ key = MutationIdempotencyKey(call)
  OBVIOUS
<1>3. client \in 1 .. MaxClients /\ call \in Calls /\ call.key \in Nat
  BY <1>1, <1>2, ClientsAssumption DEF RequestFits
<1>4. minted \in 0 .. MaxMinted /\ MaxMinted \in Nat
  BY ClientsAssumption DEF AuditInv, OperationsFit
<1>5. key \in Int
  BY <1>2, <1>3, <1>4 DEF MutationIdempotencyKey
<1>6. operations \subseteq Operation /\ UNCHANGED operations
  BY DEF AuditInv, OperationsFit, DispatchCall
<1>7. CASE Step(r, Resting) /\ UNCHANGED minted
  BY <1>4, <1>6, <1>7, RestingFits, RequestsStayFit DEF OperationsFit, AuditInv
<1>8. CASE call.tool \in Mutations /\ minted < MaxMinted /\ minted' \in {minted, minted + 1}
           /\ Step(r, [pc |-> "claim", client |-> client, call |-> call, key |-> key])
  <2>1. PICK frame : frame = [pc |-> "claim", client |-> client, call |-> call, key |-> key]
    OBVIOUS
  <2>2. RequestFits(frame) /\ Step(r, frame)
    BY <1>3, <1>5, <1>8, <2>1 DEF RequestFits
  <2>3. minted' \in 0 .. MaxMinted
    BY <1>4, <1>8
  <2> QED
    BY <1>6, <2>2, <2>3, RequestsStayFit DEF OperationsFit, AuditInv
<1> QED
  BY <1>2, <1>7, <1>8 DEF DispatchCall

\* The row of an operation, claimed and then performed.
LEMMA OperationsStayFit ==
  ASSUME DoorInv, AuditInv, NEW r \in Inbound,
         ClaimOperation(r) \/ \E status \in {"completed", "failed"} : PerformOperation(r, status)
  PROVE  OperationsFit' /\ RequestsFit'
<1>1. RequestFits(inbound[r]) /\ operations \subseteq Operation /\ minted \in 0 .. MaxMinted
      /\ minted' = minted
  BY DEF AuditInv, RequestsFit, OperationsFit, ClaimOperation, PerformOperation
<1>2. ASSUME NEW outcome, Answered(r, outcome) PROVE RequestsFit'
  <2>1. PICK call : call = inbound[r].call
    OBVIOUS
  <2>2. PICK frame : frame = [pc |-> "answered", call |-> call, outcome |-> outcome]
    OBVIOUS
  <2>3. RequestFits(frame) /\ Step(r, frame)
    BY <1>2, <2>1, <2>2 DEF RequestFits, Answered
  <2> QED
    BY <2>3, RequestsStayFit DEF AuditInv
<1>3. CASE ClaimOperation(r)
  <2>1. PICK client, call, key : client = inbound[r].client /\ call = inbound[r].call /\ key = inbound[r].key
    OBVIOUS
  <2>2. PICK new : new = [client |-> client, tool |-> call.tool, key |-> key,
                          args |-> call.args, status |-> "in_progress"]
    OBVIOUS
  <2>3. new \in Operation
    <3>1. client \in 1 .. MaxClients /\ call \in Calls /\ call.tool \in Mutations /\ key \in Int
      BY <1>1, <1>3, <2>1 DEF RequestFits, ClaimOperation
    <3>2. PICK tool, args : tool = call.tool /\ args = call.args
      OBVIOUS
    <3>3. args \in Nat /\ tool \in Mutations
      BY <3>1, <3>2, CallsAssumption
    <3>4. new = [client |-> client, tool |-> tool, key |-> key, args |-> args, status |-> "in_progress"]
      BY <2>2, <3>2
    <3> QED
      BY <3>1, <3>3, <3>4 DEF Operation
  <2>4. \/ /\ operations' = operations \cup {new}
           /\ Step(r, [pc |-> "perform", call |-> call, operation |-> new])
        \/ (\E outcome : Answered(r, outcome)) /\ UNCHANGED operations
    BY <1>3, <2>1, <2>2, Zenon DEF ClaimOperation
  <2>5. CASE /\ operations' = operations \cup {new}
             /\ Step(r, [pc |-> "perform", call |-> call, operation |-> new])
    <3>1. PICK frame : frame = [pc |-> "perform", call |-> call, operation |-> new]
      OBVIOUS
    <3>2. RequestFits(frame) /\ Step(r, frame)
      BY <2>3, <2>5, <3>1 DEF RequestFits
    <3> QED
      BY <1>1, <2>3, <2>5, <3>2, RequestsStayFit DEF AuditInv, OperationsFit
  <2>6. CASE (\E outcome : Answered(r, outcome)) /\ UNCHANGED operations
    BY <1>1, <1>2, <2>6 DEF OperationsFit
  <2> QED
    BY <2>4, <2>5, <2>6
<1>4. ASSUME NEW status \in {"completed", "failed"}, PerformOperation(r, status)
      PROVE  OperationsFit' /\ RequestsFit'
  <2>1. PICK o, done : o = inbound[r].operation /\ done = [o EXCEPT !.status = status]
    OBVIOUS
  <2>2. o \in Operation
    BY <1>1, <1>4, <2>1 DEF RequestFits, PerformOperation
  <2>3. done \in Operation
    BY <2>1, <2>2 DEF Operation
  <2>4. operations' = (operations \ {o}) \cup {done} /\ \E outcome : Answered(r, outcome)
    BY <1>4, <2>1, Zenon DEF PerformOperation
  <2> QED
    BY <1>1, <1>2, <2>3, <2>4 DEF OperationsFit
<1> QED
  BY <1>3, <1>4

LEMMA ClientsStepCounts ==
  ASSUME DoorInv, AuditInv, ClientsNext
  PROVE  AuditInv'
<1>1. ClientsFit /\ CountedOnce /\ OperationsFit /\ RequestsFit
  BY DEF DoorInv, AuditInv
<1>2. (UNCHANGED clients => CountedOnce')
      /\ (UNCHANGED <<operations, minted>> => OperationsFit') /\ (UNCHANGED inbound => RequestsFit')
  BY <1>1 DEF CountedOnce, OperationsFit, RequestsFit, RequestFits
<1>3. ASSUME NEW r \in Inbound, NEW c \in DOMAIN clients, NEW call \in Calls, SelectClient(r, c, call)
      PROVE  AuditInv'
  <2>1. UNCHANGED <<clients, operations, minted>>
    BY <1>3 DEF SelectClient
  <2> QED
    BY <1>1, <1>2, <1>3, <2>1, DoorKeepsRequests DEF AuditInv
<1>4. ASSUME NEW r \in Inbound, TouchClient(r) PROVE AuditInv'
  <2>1. UNCHANGED <<operations, minted>>
        /\ (UNCHANGED clients \/ clients' = [clients EXCEPT ![inbound[r].client].used = "recent"])
    BY <1>4, Zenon DEF TouchClient
  <2>2. CountedOnce'
    <3>1. PICK c : c = inbound[r].client
      OBVIOUS
    <3>2. CASE c \in DOMAIN clients
      BY <1>1, <1>2, <2>1, <3>1, <3>2, RevocationIsCounted
    <3>3. CASE c \notin DOMAIN clients
      <4>1. clients' = clients
        BY <1>1, <2>1, <3>1, <3>3 DEF ClientsFit
      <4> QED
        BY <1>2, <4>1
    <3> QED
      BY <3>2, <3>3
  <2> QED
    BY <1>1, <1>2, <1>4, <2>1, <2>2, DoorKeepsRequests DEF AuditInv
<1>5. ASSUME NEW r \in Inbound, ReselectClient(r) \/ TurnAway(r) \/ EndRequest(r) PROVE AuditInv'
  <2>1. UNCHANGED <<clients, operations, minted>>
    BY <1>5 DEF ReselectClient, TurnAway, EndRequest
  <2> QED
    BY <1>1, <1>2, <1>5, <2>1, DoorKeepsRequests DEF AuditInv
<1>6. ASSUME NEW r \in Inbound, DispatchCall(r) PROVE AuditInv'
  BY <1>2, <1>6, DispatchFits DEF AuditInv, DispatchCall
<1>7. ASSUME NEW r \in Inbound,
             ClaimOperation(r) \/ \E status \in {"completed", "failed"} : PerformOperation(r, status)
      PROVE  AuditInv'
  BY <1>2, <1>7, OperationsStayFit DEF AuditInv, ClaimOperation, PerformOperation
<1>8. ASSUME NEW c \in DOMAIN clients, RevokeElsewhere(c) \/ ConfirmRevoke(c) \/ HourPasses(c)
      PROVE  AuditInv'
  BY <1>1, <1>2, <1>8, RevocationIsCounted DEF AuditInv, RevokeElsewhere, ConfirmRevoke, HourPasses
<1>9. ASSUME NEW scopes \in Grants, CreateElsewhere(scopes) \/ SubmitCreate(scopes) PROVE AuditInv'
  BY <1>1, <1>2, <1>9, RevocationIsCounted DEF AuditInv, CreateElsewhere, SubmitCreate
<1>10. CASE OpenPage \/ LeavePage \/ RetryLoad \/ ReadPage \/ ShowLoad \/ LoadFails
            \/ CreateAnswers \/ CreateFails \/ RevokeAnswers \/ RevokeFails
  <2>1. UNCHANGED <<clients, operations, minted, inbound>>
    BY Zenon, <1>10 DEF OpenPage, LeavePage, RetryLoad, ReadPage, ShowLoad, LoadFails, CreateAnswers,
       CreateFails, RevokeAnswers, RevokeFails
  <2> QED
    BY <1>2, <2>1 DEF AuditInv
<1>11. CASE EndpointNext
  BY Zenon, <1>3, <1>4, <1>5, <1>6, <1>7, <1>8, <1>9, <1>11 DEF EndpointNext
<1>12. CASE AccessNext
  BY Zenon, <1>8, <1>9, <1>10, <1>12 DEF AccessNext
<1> QED
  BY <1>11, <1>12 DEF ClientsNext

(* However requests, revocations and the page interleave, a revocation is   *)
(* written to the audit once, and every operation that was claimed is of a  *)
(* mutation and of a client that exists (client-repo.ts                     *)
(* revokeControlClient, operation-repo.ts).                                 *)
THEOREM RevocationsAreCountedOnce == ClientsSpec => []ClientsTypeOK
<1>1. ClientsInit => AuditInv
  <2> SUFFICES ASSUME ClientsInit PROVE AuditInv
    OBVIOUS
  <2>1. clients = <<>> /\ operations = {} /\ minted = 0 /\ inbound = [r \in Inbound |-> Resting]
    BY DEF ClientsInit
  <2> QED
    BY <2>1, RestingFits, ClientsAssumption DEF AuditInv, CountedOnce, OperationsFit, RequestsFit
<1>2. DoorInv /\ AuditInv /\ [ClientsNext]_clientsVars => AuditInv'
  <2>1. AuditInv /\ UNCHANGED clientsVars => AuditInv'
    BY DEF clientsVars, AuditInv, CountedOnce, OperationsFit, RequestsFit, RequestFits
  <2> QED
    BY <2>1, ClientsStepCounts
<1>3. DoorInv /\ AccessInv /\ AuditInv => ClientsTypeOK
  <2> SUFFICES ASSUME DoorInv, AccessInv, AuditInv PROVE ClientsTypeOK
    OBVIOUS
  <2>1. \A c \in DOMAIN clients : clients[c] \in ClientRow
    <3>1. ASSUME NEW c \in DOMAIN clients PROVE clients[c] \in ClientRow
      <4>1. PICK row : row = clients[c]
        OBVIOUS
      <4>2. row \in KeptClient /\ row.revocations \in 0 .. 1
        BY <4>1 DEF DoorInv, ClientsFit, AuditInv, CountedOnce
      <4> QED
        BY <4>1, <4>2, CallsAssumption DEF KeptClient, ClientRow
    <3> QED
      BY <3>1
  <2>2. clients \in Seq(ClientRow) /\ Len(clients) <= MaxClients
    <3>1. clients \in Seq(KeptClient) /\ Len(clients) <= MaxClients
      BY DEF DoorInv, ClientsFit
    <3> QED
      BY <2>1, <3>1
  <2>3. access.state \in {"closed", "loading", "ready", "error"}
    BY DEF AccessInv, AccessFits, PageFrame, Closed
  <2> QED
    BY <2>2, <2>3 DEF AuditInv, OperationsFit, ClientsTypeOK
<1> QED
  BY <1>1, <1>2, <1>3, ClientsInvariant, PTL DEF ClientsSpec
=============================================================================
