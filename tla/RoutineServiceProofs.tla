------------------------- MODULE RoutineServiceProofs -------------------------
(***************************************************************************)
(* The idempotency and audit properties of RoutineService, and that the    *)
(* tasks follow the rows, for every set of clients, keys, requests and     *)
(* routines, whatever fails.                                               *)
(*                                                                         *)
(* The argument: the call that won the claim of a key is alone with it     *)
(* until it either settled the operation or left it reconciling, and only  *)
(* a reconciling operation lets another call in, which repeats no effect.  *)
(***************************************************************************)
EXTENDS RoutineService, TLAPS

Pc(c)  == call[c].pc
Key(c) == call[c].key
Status(c) == op[Key(c)].status
Kind(c)   == Request(c).action

\* Points at which only the winner of the claim can be.
SolePoints == {"claimed", "failing", "committed", "enqueue", "mark", "failRun",
               "audit", "threw", "replacing", "marking"}

Sole(c) == Pc(c) \in SolePoints
           \/ (Pc(c) \in {"scheduled", "settling"} /\ Kind(c) = "job")

\* What the argument needs of the types: nothing about rows and tasks.
Typed ==
  /\ op \in [Keys -> [status : OperationStatus, request : Requests \cup {NoRequest}]]
  /\ audit \in [Keys -> AuditOutcome]
  /\ effect \in [Keys -> Nat]
  /\ DOMAIN call = Clients
  /\ \A c \in Clients : /\ call[c] = [pc |-> Pc(c), key |-> Key(c), read |-> call[c].read]
                        /\ Pc(c) \in Points
                        /\ Pc(c) # "idle" => Key(c) \in Keys

\* The winner of a claim is alone with its key.
Alone ==
  \A c, d \in Clients :
    Sole(c) /\ c # d /\ Pc(d) # "idle" => Key(c) # Key(d)

\* What a call knows of its operation at each point: p its point, q the
\* action, s, e and a the operation's status, effects and audit outcome.
KnowsAt(p, q, s, e, a) ==
  /\ p \in SolePoints \ {"failing"} => s = "in_progress"
  /\ p = "claimed" => e = 0
  /\ p = "failing" => \/ q = "job" /\ s \in {"in_progress", "completed"}
                      \/ e = 0 /\ s = "in_progress"
  /\ p = "committed" => q # "job" /\ a # "none" /\ (e = IF q = "run" THEN 0 ELSE 1)
  /\ p \in {"enqueue", "mark", "failRun", "failAudit"} => q = "run" /\ a # "none"
  /\ p = "enqueue" => e = 0
  /\ p = "failAudit" => s = "failed"
  /\ p \in {"threw", "replacing", "marking"} => e = 1 /\ a # "none" /\ q \notin {"job", "run"}
  /\ p \in {"markingAudit", "retrying", "retryReplacing"} =>
       s \in {"reconciling", "completed"} /\ e = 1 /\ a # "none" /\ q \notin {"job", "run"}
  /\ p = "audit" => q = "job" /\ e = 1
  /\ p = "scheduled" => /\ s \in {"in_progress", "reconciling", "completed"}
                        /\ q = "job" => s # "reconciling"
  /\ p = "settling" => s = "completed"
  /\ p \in {"scheduled", "settling"} => a # "none" /\ (q = "run" \/ e = 1)

Knows(c) == KnowsAt(Pc(c), Kind(c), Status(c), effect[Key(c)], audit[Key(c)])

CallsKnow == \A c \in Clients : Pc(c) # "idle" => Knows(c)

\* What holds of an operation whoever works on it.
SettledAs(q, s, e, a) ==
  /\ e \in {0, 1}
  /\ s = "none" => e = 0 /\ a = "none"
  /\ s = "reconciling" => e = 1 /\ a # "none" /\ q \notin {"job", "run"}
  /\ s = "completed" => a # "none" /\ (q = "run" \/ e = 1)
  /\ s = "failed" => q \in {"run", "job"} \/ e = 0
  /\ a = "succeeded" => s = "completed"
  /\ a = "failed" => s = "failed"
  /\ e = 1 /\ q # "job" => a # "none"

Settled(k) == SettledAs(Action(k), op[k].status, effect[k], audit[k])

OperationsSettled == \A k \in Keys : Settled(k)

IInv == Typed /\ Alone /\ CallsKnow /\ OperationsSettled

-----------------------------------------------------------------------------
(* One call moves to the frame n and touches at most the key k.            *)

OpType == [status : OperationStatus, request : Requests \cup {NoRequest}]

\* What the rest of the calls, and of the keys, must be left with.
Touches(c, n, k) ==
  /\ call' = [call EXCEPT ![c] = n]
  /\ n = [pc |-> n.pc, key |-> n.key, read |-> n.read]
  /\ n.pc \in Points
  /\ n.pc # "idle" => n.key = k
  /\ op' \in [Keys -> OpType] /\ audit' \in [Keys -> AuditOutcome] /\ effect' \in [Keys -> Nat]
  /\ \A j \in Keys \ {k} :
       op'[j] = op[j] /\ audit'[j] = audit[j] /\ effect'[j] = effect[j]

\* Calls that share the key k with c.
Shares(d, c, k) == d # c /\ Pc(d) # "idle" /\ Key(d) = k

Tolerated(k) ==
  /\ op'[k].request = op[k].request
  /\ effect'[k] = effect[k]
  /\ audit'[k] = audit[k] \/ audit'[k] # "none"
  /\ \/ op'[k].status = op[k].status
     \/ op[k].status \in {"in_progress", "reconciling"} /\ op'[k].status = "completed"

LEMMA StepTypes ==
  ASSUME Typed, NEW c \in Clients, NEW n, NEW k \in Keys, Touches(c, n, k)
  PROVE  /\ Typed'
         /\ call'[c] = n
         /\ \A d \in Clients \ {c} : call'[d] = call[d]
  BY DEF Typed, Touches, OpType, Pc, Key

LEMMA OthersKnow ==
  ASSUME Typed, NEW d \in Clients, NEW k \in Keys, Pc(d) # "idle",
         call'[d] = call[d], Knows(d),
         \/ op'[Key(d)] = op[Key(d)] /\ audit'[Key(d)] = audit[Key(d)]
              /\ effect'[Key(d)] = effect[Key(d)]
         \/ Key(d) = k /\ ~Sole(d) /\ Tolerated(k)
  PROVE  Knows(d)'
<1>1. Pc(d)' = Pc(d) /\ Key(d)' = Key(d)
  BY DEF Pc, Key
<1>2. Pc(d) \in Points /\ Key(d) \in Keys
  BY DEF Typed
<1>3. CASE op'[Key(d)] = op[Key(d)] /\ audit'[Key(d)] = audit[Key(d)]
             /\ effect'[Key(d)] = effect[Key(d)]
  <2>1. Status(d)' = Status(d) /\ Kind(d)' = Kind(d)
    BY <1>1, <1>3 DEF Status, Kind, Request, Key
  <2>2. QED
    BY <1>1, <1>3, <2>1 DEF Knows
<1>4. CASE Key(d) = k /\ ~Sole(d) /\ Tolerated(k)
  <2>1. Kind(d)' = Kind(d)
    BY <1>1, <1>4 DEF Kind, Request, Key, Tolerated
  <2>2. \/ Status(d)' = Status(d)
        \/ /\ Status(d) \in {"in_progress", "reconciling"}
           /\ Status(d)' = "completed"
    BY <1>1, <1>4 DEF Status, Tolerated
  <2>3. effect'[Key(d)] = effect[Key(d)]
        /\ (audit'[Key(d)] = audit[Key(d)] \/ audit'[Key(d)] # "none")
    BY <1>4 DEF Tolerated
  <2>4. Pc(d) \notin SolePoints
    BY <1>4 DEF Sole
  <2>5. QED
    BY <1>1, <1>2, <2>1, <2>2, <2>3, <2>4, <1>4 DEF Knows, KnowsAt, SolePoints, Points, Sole
<1>5. QED
  BY <1>3, <1>4

\* A step keeps the invariant when the calls that share the key tolerate it,
\* a call that becomes sole is alone, and the call and the key are left right.
LEMMA StepKeeps ==
  ASSUME IInv, NEW c \in Clients, NEW n, NEW k \in Keys, Touches(c, n, k),
         \A d \in Clients : Shares(d, c, k) => ~Sole(d) /\ Tolerated(k),
         Sole(c)' => \A d \in Clients : ~Shares(d, c, k),
         n.pc # "idle" => Knows(c)',
         Settled(k)'
  PROVE  IInv'
<1>1. /\ Typed'
      /\ call'[c] = n
      /\ \A d \in Clients \ {c} : call'[d] = call[d]
  BY StepTypes DEF IInv
<1>2. ASSUME NEW d \in Clients, d # c, Pc(d) # "idle"
      PROVE  /\ Pc(d)' = Pc(d) /\ Key(d)' = Key(d)
             /\ Key(d) \in Keys /\ Kind(d)' = Kind(d)
  <2>1. Pc(d)' = Pc(d) /\ Key(d)' = Key(d) /\ Key(d) \in Keys
    BY <1>1, <1>2 DEF Pc, Key, IInv, Typed
  <2>2. CASE Key(d) = k
    BY <2>1, <2>2, <1>2 DEF Shares, Tolerated, Kind, Request, Key
  <2>3. CASE Key(d) # k
    BY <2>1, <2>3 DEF Touches, Kind, Request, Key
  <2>4. QED
    BY <2>1, <2>2, <2>3
<1>3. Alone'
  <2>1. SUFFICES ASSUME NEW d \in Clients, NEW e \in Clients,
                        Sole(d)', d # e, Pc(e)' # "idle"
                 PROVE  Key(d)' # Key(e)'
    BY DEF Alone
  <2>2. CASE d # c /\ e # c
    <3>1. Pc(d)' = Pc(d) /\ Pc(e)' = Pc(e)
      BY <1>1, <2>2 DEF Pc
    <3>2. Pc(d) # "idle"
      BY <2>1, <3>1 DEF Sole, SolePoints
    <3>3. Sole(d) /\ Key(d)' = Key(d) /\ Key(e)' = Key(e)
      BY <1>2, <2>1, <2>2, <3>1, <3>2 DEF Sole
    <3>4. QED
      BY <2>1, <3>1, <3>3 DEF IInv, Alone
  <2>3. CASE d = c
    <3>1. Pc(c)' = n.pc /\ Key(c)' = n.key
      BY <1>1 DEF Pc, Key
    <3>2. n.pc # "idle" /\ n.key = k
      BY <2>1, <2>3, <3>1 DEF Sole, SolePoints, Touches
    <3>3. Pc(e) # "idle" /\ Key(e)' = Key(e)
      BY <1>1, <2>1, <2>3 DEF Pc, Key
    <3>4. QED
      BY <2>1, <2>3, <3>1, <3>2, <3>3 DEF Shares
  <2>4. CASE e = c
    <3>1. Pc(c)' = n.pc /\ Key(c)' = n.key /\ n.key = k
      BY <1>1, <2>1, <2>4 DEF Pc, Key, Touches
    <3>2. Pc(d) # "idle"
      BY <1>1, <2>1, <2>4 DEF Pc, Sole, SolePoints
    <3>3. Sole(d) /\ Key(d)' = Key(d)
      BY <1>2, <2>1, <2>4, <3>2 DEF Sole
    <3>4. QED
      BY <2>1, <2>4, <3>1, <3>2, <3>3 DEF Shares
  <2>5. QED
    BY <2>2, <2>3, <2>4
<1>4. CallsKnow'
  <2>1. SUFFICES ASSUME NEW d \in Clients, Pc(d)' # "idle"
                 PROVE  Knows(d)'
    BY DEF CallsKnow
  <2>2. CASE d = c
    BY <1>1, <2>1, <2>2 DEF Pc
  <2>3. CASE d # c
    <3>1. call'[d] = call[d] /\ Pc(d) # "idle"
      BY <1>1, <2>1, <2>3 DEF Pc
    <3>2. Knows(d) /\ Key(d) \in Keys
      BY <3>1 DEF IInv, CallsKnow, Typed
    <3>3. CASE Key(d) = k
      BY <2>3, <3>1, <3>2, <3>3, OthersKnow DEF Shares, IInv
    <3>4. CASE Key(d) # k
      <4>1. op'[Key(d)] = op[Key(d)] /\ audit'[Key(d)] = audit[Key(d)]
              /\ effect'[Key(d)] = effect[Key(d)]
        BY <3>2, <3>4 DEF Touches
      <4>2. QED
        BY <3>1, <3>2, <4>1, OthersKnow DEF IInv
    <3>5. QED
      BY <3>3, <3>4
  <2>4. QED
    BY <2>2, <2>3
<1>5. OperationsSettled'
  <2>1. SUFFICES ASSUME NEW j \in Keys, j # k
                 PROVE  Settled(j)'
    BY DEF OperationsSettled
  <2>2. op'[j] = op[j] /\ audit'[j] = audit[j] /\ effect'[j] = effect[j] /\ Settled(j)
    BY <2>1 DEF Touches, IInv, OperationsSettled
  <2>3. QED
    BY <2>2 DEF Settled, Action
<1>6. QED
  BY <1>1, <1>3, <1>4, <1>5 DEF IInv

-----------------------------------------------------------------------------
(* The two kinds of step of a call under way.                              *)

LEMMA AtWork ==
  ASSUME IInv, NEW c \in Clients, Pc(c) # "idle"
  PROVE  /\ Key(c) \in Keys
         /\ op[Key(c)] \in OpType /\ audit[Key(c)] \in AuditOutcome /\ effect[Key(c)] \in Nat
         /\ op[Key(c)] = [status |-> Status(c), request |-> Request(c)]
         /\ Knows(c) /\ Settled(Key(c)) /\ Action(Key(c)) = Kind(c)
<1>1. Key(c) \in Keys
  BY DEF IInv, Typed
<1>2. op[Key(c)] \in OpType /\ audit[Key(c)] \in AuditOutcome /\ effect[Key(c)] \in Nat
  BY <1>1 DEF IInv, Typed, OpType
<1>3. op[Key(c)] = [status |-> Status(c), request |-> Request(c)]
  BY <1>2 DEF OpType, Status, Request, Key
<1>4. Knows(c) /\ Settled(Key(c))
  BY <1>1 DEF IInv, CallsKnow, OperationsSettled
<1>5. QED
  BY <1>1, <1>2, <1>3, <1>4 DEF Action, Kind, Request, Key

LEMMA MoveOfRecord ==
  ASSUME NEW r, NEW a, NEW k, NEW x, NEW p, r = Frame(a, k, x)
  PROVE  [r EXCEPT !.pc = p] = Frame(p, k, x)
<1>1. [[pc |-> a, key |-> k, read |-> x] EXCEPT !.pc = p] = [pc |-> p, key |-> k, read |-> x]
  OBVIOUS
<1>2. QED
  BY <1>1 DEF Frame

LEMMA GotoMoves ==
  ASSUME Typed, NEW c \in Clients, NEW p, Goto(c, p)
  PROVE  call' = [call EXCEPT ![c] = Frame(p, Key(c), call[c].read)]
<1>1. call[c] = Frame(Pc(c), Key(c), call[c].read)
  BY DEF Typed, Frame
<1>2. [call[c] EXCEPT !.pc = p] = Frame(p, Key(c), call[c].read)
  BY <1>1, MoveOfRecord
<1>3. call' = [call EXCEPT ![c] = [call[c] EXCEPT !.pc = p]]
  BY DEF Goto
<1>4. QED
  BY <1>2, <1>3

LEMMA SoleStep ==
  ASSUME IInv, NEW c \in Clients, NEW n, NEW k \in Keys, Pc(c) # "idle", Key(c) = k, Sole(c),
         Touches(c, n, k),
         n.pc # "idle" => Knows(c)',
         Settled(k)'
  PROVE  IInv'
<1>1. \A d \in Clients : ~Shares(d, c, k)
  BY DEF IInv, Alone, Shares
<1>2. QED
  BY <1>1, StepKeeps

LEMMA SharedStep ==
  ASSUME IInv, NEW c \in Clients, NEW n, NEW k \in Keys, Pc(c) # "idle", Key(c) = k, ~Sole(c)',
         Touches(c, n, k), Tolerated(k),
         n.pc # "idle" => Knows(c)',
         Settled(k)'
  PROVE  IInv'
<1>1. \A d \in Clients : Shares(d, c, k) => ~Sole(d)
  BY DEF IInv, Alone, Shares
<1>2. QED
  BY <1>1, StepKeeps

\* The three ways rows change, with what they leave.
LEMMA StatusSet ==
  ASSUME IInv, NEW c \in Clients, NEW s \in OperationStatus, Pc(c) # "idle",
         NEW k \in Keys, Key(c) = k,
         SetStatus(k, s), UNCHANGED <<audit, effect>>
  PROVE  /\ op' \in [Keys -> OpType] /\ audit' \in [Keys -> AuditOutcome]
         /\ effect' \in [Keys -> Nat]
         /\ \A j \in Keys \ {k} : op'[j] = op[j] /\ audit'[j] = audit[j] /\ effect'[j] = effect[j]
         /\ op'[k].request = op[k].request
         /\ op'[k].status = IF Status(c) \in {"in_progress", "reconciling"}
                                   THEN s ELSE Status(c)
<1>1. op[k] = [status |-> Status(c), request |-> Request(c)]
      /\ op[k] \in OpType
  BY AtWork
<1>2. op \in [Keys -> OpType] /\ audit \in [Keys -> AuditOutcome] /\ effect \in [Keys -> Nat]
  BY DEF IInv, Typed, OpType
<1>3. CASE Status(c) \in {"in_progress", "reconciling"}
  <2>1. op' = [op EXCEPT ![k].status = s]
    BY <1>3 DEF SetStatus, Unsettled, Status
  <2>2. op'[k] = [status |-> s, request |-> Request(c)]
    BY <1>1, <1>2, <2>1
  <2>3. op' \in [Keys -> OpType]
    BY <1>1, <1>2, <2>1 DEF OpType
  <2>4. QED
    BY <1>1, <1>2, <1>3, <2>1, <2>2, <2>3
<1>4. CASE Status(c) \notin {"in_progress", "reconciling"}
  <2>1. UNCHANGED op
    BY <1>4 DEF SetStatus, Unsettled, Status
  <2>2. QED
    BY <1>1, <1>2, <1>4, <2>1
<1>5. QED
  BY <1>3, <1>4

LEMMA AuditSet ==
  ASSUME IInv, NEW c \in Clients, NEW o \in AuditOutcome, Pc(c) # "idle",
         NEW k \in Keys, Key(c) = k,
         SetAudit(k, o), UNCHANGED op,
         effect' \in [Keys -> Nat], \A j \in Keys \ {k} : effect'[j] = effect[j]
  PROVE  /\ op' \in [Keys -> OpType] /\ audit' \in [Keys -> AuditOutcome]
         /\ effect' \in [Keys -> Nat]
         /\ \A j \in Keys \ {k} : op'[j] = op[j] /\ audit'[j] = audit[j] /\ effect'[j] = effect[j]
         /\ audit'[k] = o
  BY AtWork DEF IInv, Typed, OpType, SetAudit

LEMMA EffectCounted ==
  ASSUME IInv, NEW c \in Clients, Pc(c) # "idle", NEW k \in Keys, Key(c) = k,
         CountEffect(c)
  PROVE  /\ effect' \in [Keys -> Nat]
         /\ \A j \in Keys \ {k} : effect'[j] = effect[j]
         /\ effect'[k] = effect[k] + 1
  BY AtWork DEF IInv, Typed, CountEffect, Key

-----------------------------------------------------------------------------
(* A call moves on, or returns.                                            *)

\* The rows other than those of k keep what they say; k keeps its request.
Rows1(k) ==
  /\ op' \in [Keys -> OpType] /\ audit' \in [Keys -> AuditOutcome] /\ effect' \in [Keys -> Nat]
  /\ \A j \in Keys \ {k} :
       op'[j] = op[j] /\ audit'[j] = audit[j] /\ effect'[j] = effect[j]
  /\ op'[k].request = op[k].request

LEMMA RowsUnchanged ==
  ASSUME IInv, NEW k \in Keys, UNCHANGED <<op, audit, effect>>
  PROVE  /\ Rows1(k)
         /\ op'[k] = op[k] /\ audit'[k] = audit[k] /\ effect'[k] = effect[k]
  BY DEF IInv, Typed, OpType, Rows1

\* What others at the key cannot mind.
Harmless(c, p, k) ==
  /\ p \notin SolePoints
  /\ p \in {"scheduled", "settling"} => Kind(c) # "job"
  /\ Tolerated(k)

LEMMA MoveKeeps ==
  ASSUME IInv, NEW c \in Clients, NEW k \in Keys, NEW p \in Points \ {"idle"}, NEW x,
         Pc(c) # "idle", Key(c) = k, call' = [call EXCEPT ![c] = Frame(p, Key(c), x)],
         Rows1(k), Sole(c) \/ Harmless(c, p, k),
         KnowsAt(p, Kind(c), op'[k].status, effect'[k], audit'[k]),
         SettledAs(Kind(c), op'[k].status, effect'[k], audit'[k])
  PROVE  IInv'
<1>1. PICK n : n = Frame(p, Key(c), x)
  OBVIOUS
<1>2. n = [pc |-> n.pc, key |-> n.key, read |-> n.read] /\ n.pc = p /\ n.key = k
  BY <1>1 DEF Frame
<1>3. Touches(c, n, k)
  BY <1>1, <1>2 DEF Touches, Rows1
<1>4. Pc(c)' = p /\ Key(c)' = k
  BY <1>1, <1>2 DEF IInv, Typed, Pc, Key
<1>5. Kind(c)' = Kind(c) /\ Status(c)' = op'[k].status
  BY <1>4 DEF Kind, Request, Key, Status, Rows1
<1>6. Knows(c)'
  BY <1>4, <1>5 DEF Knows
<1>7. Action(k)' = Kind(c)
  BY DEF Action, Kind, Request, Key, Rows1
<1>8. Settled(k)'
  BY <1>7 DEF Settled
<1>9. CASE Sole(c)
  BY <1>3, <1>6, <1>8, <1>9, SoleStep
<1>10. CASE Harmless(c, p, k)
  <2>1. ~Sole(c)'
    BY <1>4, <1>5, <1>10 DEF Sole, Harmless
  <2>2. QED
    BY <1>3, <1>6, <1>8, <1>10, <2>1, SharedStep DEF Harmless
<1>11. QED
  BY <1>9, <1>10

LEMMA ReturnKeeps ==
  ASSUME IInv, NEW c \in Clients, NEW k \in Keys,
         Pc(c) # "idle", Key(c) = k, Return(c),
         Rows1(k), Sole(c) \/ Tolerated(k),
         SettledAs(Kind(c), op'[k].status, effect'[k], audit'[k])
  PROVE  IInv'
<1>1. PICK n : n = Idle
  OBVIOUS
<1>2. n = [pc |-> n.pc, key |-> n.key, read |-> n.read] /\ n.pc = "idle"
  BY <1>1 DEF Idle, Frame
<1>3. Touches(c, n, k)
  BY <1>1, <1>2 DEF Touches, Rows1, Return, Points
<1>4. Pc(c)' = "idle"
  BY <1>1, <1>2 DEF IInv, Typed, Pc, Return
<1>5. ~Sole(c)'
  BY <1>4 DEF Sole, SolePoints
<1>6. Settled(k)'
  BY DEF Settled, Action, Kind, Request, Key, Rows1
<1>7. QED
  BY <1>2, <1>3, <1>5, <1>6, SoleStep, SharedStep

-----------------------------------------------------------------------------
(* The steps of a call.                                                    *)

LEMMA BeginKeeps ==
  ASSUME IInv, NEW c \in Clients, NEW k \in Keys, NEW q \in Requests, Begin(c, k, q)
  PROVE  IInv'
<1>1. Pc(c) = "idle" /\ UNCHANGED <<audit, effect>>
  BY DEF Begin, At, Pc
<1>2. op \in [Keys -> OpType] /\ audit \in [Keys -> AuditOutcome] /\ effect \in [Keys -> Nat]
      /\ Settled(k)
  BY DEF IInv, Typed, OpType, OperationsSettled
<1>3. CASE ClaimControlOperation(k, q)
             /\ call' = [call EXCEPT ![c] = Frame("claimed", k, NoRows)]
  <2>1. PICK n : n = [pc |-> "claimed", key |-> k, read |-> NoRows]
    OBVIOUS
  <2>2. call' = [call EXCEPT ![c] = n]
    BY <1>3, <2>1 DEF Frame
  <2>3. /\ op[k].status = "none"
        /\ op' = [op EXCEPT ![k] = [status |-> "in_progress", request |-> q]]
    BY <1>3 DEF ClaimControlOperation, Claimable
  <2>4. /\ op' \in [Keys -> OpType]
        /\ op'[k] = [status |-> "in_progress", request |-> q]
        /\ \A j \in Keys \ {k} : op'[j] = op[j]
    BY <1>2, <2>3 DEF OpType, OperationStatus
  <2>5. Touches(c, n, k)
    BY <1>1, <1>2, <2>1, <2>2, <2>4 DEF Touches, Points
  <2>6. effect'[k] = 0 /\ audit'[k] = "none"
    BY <1>1, <1>2, <2>3 DEF Settled, SettledAs
  <2>7. \A d \in Clients : ~Shares(d, c, k)
    <3>1. SUFFICES ASSUME NEW d \in Clients, Pc(d) # "idle", Key(d) = k PROVE FALSE
      BY DEF Shares
    <3>2. Knows(d) /\ Status(d) = "none" /\ Settled(k) /\ Action(k) = Kind(d) /\ Pc(d) \in Points
      BY <1>2, <2>3, <3>1, AtWork DEF Status, IInv, Typed
    <3>3. effect[k] = 0 /\ audit[k] = "none"
      BY <2>3, <3>2 DEF Settled, SettledAs
    <3>4. QED
      BY <3>1, <3>2, <3>3 DEF Knows, KnowsAt, SolePoints, Points
  <2>8. Knows(c)'
    <3>1. Pc(c)' = "claimed" /\ Key(c)' = k /\ Status(c)' = "in_progress"
      BY <2>1, <2>2, <2>4 DEF IInv, Typed, Pc, Key, Status
    <3>2. QED
      BY <2>6, <3>1 DEF Knows, KnowsAt
  <2>9. Settled(k)'
    BY <2>4, <2>6 DEF Settled, SettledAs
  <2>10. QED
    BY <2>5, <2>7, <2>8, <2>9, StepKeeps
<1>4. CASE ReconciliationPending(k, q) /\ UNCHANGED op
             /\ call' = [call EXCEPT ![c] = Frame("retrying", k, NoRows)]
  <2>1. PICK n : n = [pc |-> "retrying", key |-> k, read |-> NoRows]
    OBVIOUS
  <2>2. call' = [call EXCEPT ![c] = n]
    BY <1>4, <2>1 DEF Frame
  <2>3. Touches(c, n, k)
    BY <1>1, <1>2, <1>4, <2>1, <2>2 DEF Touches, Points
  <2>4. op[k].status = "reconciling" /\ Tolerated(k)
    BY <1>1, <1>4 DEF ReconciliationPending, Tolerated
  <2>5. effect[k] = 1 /\ audit[k] # "none" /\ Action(k) \notin {"job", "run"}
    BY <1>2, <2>4 DEF Settled, SettledAs
  <2>6. Pc(c)' = "retrying" /\ Key(c)' = k
    BY <2>1, <2>2 DEF IInv, Typed, Pc, Key
  <2>7. Status(c)' = "reconciling" /\ Kind(c)' = Action(k)
    BY <1>4, <2>4, <2>6 DEF Status, Kind, Request, Key, Action
  <2>8. Knows(c)' /\ ~Sole(c)'
    BY <1>1, <2>5, <2>6, <2>7 DEF Knows, KnowsAt, Sole, SolePoints
  <2>9. Settled(k)'
    BY <1>1, <1>2, <1>4 DEF Settled, Action
  <2>10. \A d \in Clients : Shares(d, c, k) => ~Sole(d)
    <3>1. SUFFICES ASSUME NEW d \in Clients, Pc(d) # "idle", Key(d) = k, Sole(d) PROVE FALSE
      BY DEF Shares
    <3>2. Knows(d) /\ Status(d) = "reconciling" /\ Kind(d) = Action(k)
      BY <2>4, <3>1, AtWork DEF Status
    <3>3. QED
      BY <2>5, <3>1, <3>2 DEF Knows, KnowsAt, Sole, SolePoints
  <2>11. QED
    BY <2>3, <2>4, <2>8, <2>9, <2>10, StepKeeps
<1>5. QED
  BY <1>3, <1>4 DEF Begin

\* A step that leaves every row it could disturb.
LEMMA GotoKeeps ==
  ASSUME IInv, NEW c \in Clients, NEW k \in Keys, NEW p \in Points \ {"idle"},
         Pc(c) # "idle", Key(c) = k, Goto(c, p), UNCHANGED <<op, audit, effect>>,
         Sole(c) \/ (p \notin SolePoints /\ (p \in {"scheduled", "settling"} => Kind(c) # "job")),
         KnowsAt(p, Kind(c), Status(c), effect[k], audit[k])
  PROVE  IInv'
<1>1. call' = [call EXCEPT ![c] = Frame(p, Key(c), call[c].read)]
  BY GotoMoves DEF IInv
<1>2. Rows1(k) /\ op'[k] = op[k] /\ audit'[k] = audit[k] /\ effect'[k] = effect[k]
  BY RowsUnchanged
<1>3. Settled(k) /\ Action(k) = Kind(c) /\ op[k].status = Status(c)
  BY AtWork DEF Status
<1>4. Sole(c) \/ Harmless(c, p, k)
  BY <1>2 DEF Harmless, Tolerated
<1>5. SettledAs(Kind(c), op'[k].status, effect'[k], audit'[k])
  BY <1>2, <1>3 DEF Settled
<1>6. KnowsAt(p, Kind(c), op'[k].status, effect'[k], audit'[k])
  BY <1>2, <1>3
<1>7. QED
  BY <1>1, <1>2, <1>4, <1>5, <1>6, MoveKeeps

LEMMA EndKeeps ==
  ASSUME IInv, NEW c \in Clients, Pc(c) # "idle", Return(c), UNCHANGED <<op, audit, effect>>
  PROVE  IInv'
<1>1. PICK k \in Keys : Key(c) = k
  BY AtWork
<1>2. Rows1(k) /\ op'[k] = op[k] /\ audit'[k] = audit[k] /\ effect'[k] = effect[k]
  BY RowsUnchanged
<1>3. Settled(k) /\ Action(k) = Kind(c)
  BY <1>1, AtWork
<1>4. SettledAs(Kind(c), op'[k].status, effect'[k], audit'[k])
  BY <1>2, <1>3 DEF Settled
<1>5. Tolerated(k)
  BY <1>2 DEF Tolerated
<1>6. QED
  BY <1>1, <1>2, <1>4, <1>5, ReturnKeeps

\* What the proof of a step of c starts from.
LEMMA Known ==
  ASSUME IInv, NEW c \in Clients, Pc(c) # "idle"
  PROVE  \E k \in Keys :
           /\ Key(c) = k
           /\ Kind(c) = Action(k) /\ Status(c) = op[k].status
           /\ KnowsAt(Pc(c), Kind(c), Status(c), effect[k], audit[k])
           /\ SettledAs(Kind(c), Status(c), effect[k], audit[k])
  BY AtWork DEF Knows, Settled, Status

LEMMA MutateKeeps ==
  ASSUME IInv, NEW c \in Clients, Mutate(c)
  PROVE  IInv'
<1>1. Pc(c) = "claimed" /\ Kind(c) # "job" /\ UNCHANGED op /\ Sole(c)
  BY DEF Mutate, At, Pc, IsJob, Kind, Sole, SolePoints
<1>2. PICK k \in Keys :
        /\ Key(c) = k
        /\ Kind(c) = Action(k) /\ Status(c) = op[k].status
        /\ KnowsAt(Pc(c), Kind(c), Status(c), effect[k], audit[k])
        /\ SettledAs(Kind(c), Status(c), effect[k], audit[k])
  BY <1>1, Known
<1>3. effect[k] = 0 /\ op[k].status = "in_progress"
  BY <1>1, <1>2 DEF KnowsAt, SolePoints
<1>4. CASE ~Applicable(Request(c))
  <2>1. Goto(c, "failing") /\ UNCHANGED <<op, audit, effect>>
    BY <1>1, <1>4 DEF Mutate
  <2>2. KnowsAt("failing", Kind(c), Status(c), effect[k], audit[k])
    BY <1>2, <1>3 DEF KnowsAt, SolePoints
  <2>3. QED
    BY <1>1, <1>2, <2>1, <2>2, GotoKeeps DEF Points
<1>5. CASE Applicable(Request(c))
  <2>1. /\ SetAudit(k, "pending")
        /\ IF Kind(c) = "run" THEN UNCHANGED effect ELSE CountEffect(c)
    BY <1>2, <1>5 DEF Mutate, AuditInTransaction, Kind, Key
  <2>2. PICK x : call' = [call EXCEPT ![c] = Frame("committed", Key(c), x)]
    BY <1>5 DEF Mutate, Key
  <2>3. /\ effect' \in [Keys -> Nat]
        /\ \A j \in Keys \ {k} : effect'[j] = effect[j]
        /\ effect'[k] = IF Kind(c) = "run" THEN 0 ELSE 1
    <3>1. CASE Kind(c) = "run"
      BY <1>3, <2>1, <3>1 DEF IInv, Typed
    <3>2. CASE Kind(c) # "run"
      BY <1>1, <1>2, <1>3, <2>1, <3>2, EffectCounted
    <3>3. QED
      BY <3>1, <3>2
  <2>4. Rows1(k) /\ audit'[k] = "pending" /\ op'[k] = op[k]
    BY <1>1, <1>2, <2>1, <2>3, AuditSet DEF Rows1, AuditOutcome
  <2>5. KnowsAt("committed", Kind(c), op'[k].status, effect'[k], audit'[k])
    BY <1>1, <1>3, <2>3, <2>4 DEF KnowsAt, SolePoints
  <2>6. SettledAs(Kind(c), op'[k].status, effect'[k], audit'[k])
    BY <1>3, <2>3, <2>4 DEF SettledAs
  <2>7. QED
    BY <1>1, <1>2, <2>2, <2>4, <2>5, <2>6, MoveKeeps DEF Points
<1>6. QED
  BY <1>4, <1>5

LEMMA CountKeeps ==
  ASSUME IInv, NEW c \in Clients, NEW p \in Points \ {"idle"},
         \/ Pc(c) = "enqueue" /\ p = "mark"
         \/ Pc(c) = "claimed" /\ Kind(c) = "job" /\ p = "audit",
         CountEffect(c), Goto(c, p), UNCHANGED <<op, audit>>
  PROVE  IInv'
<1>1. Sole(c) /\ Pc(c) # "idle"
  BY DEF Sole, SolePoints
<1>2. PICK k \in Keys :
        /\ Key(c) = k
        /\ Kind(c) = Action(k) /\ Status(c) = op[k].status
        /\ KnowsAt(Pc(c), Kind(c), Status(c), effect[k], audit[k])
        /\ SettledAs(Kind(c), Status(c), effect[k], audit[k])
  BY <1>1, Known
<1>3. effect[k] = 0 /\ op[k].status = "in_progress"
  BY <1>2 DEF KnowsAt, SolePoints
<1>4. Rows1(k) /\ effect'[k] = 1 /\ op'[k] = op[k] /\ audit'[k] = audit[k]
  BY <1>1, <1>2, <1>3, EffectCounted DEF Rows1, IInv, Typed, OpType
<1>5. call' = [call EXCEPT ![c] = Frame(p, Key(c), call[c].read)]
  BY GotoMoves DEF IInv
<1>6. KnowsAt(p, Kind(c), op'[k].status, effect'[k], audit'[k])
  BY <1>2, <1>3, <1>4 DEF KnowsAt, SolePoints
<1>7. SettledAs(Kind(c), op'[k].status, effect'[k], audit'[k])
  BY <1>2, <1>3, <1>4 DEF SettledAs, KnowsAt
<1>8. QED
  BY <1>1, <1>2, <1>4, <1>5, <1>6, <1>7, MoveKeeps

\* The points a call passes without writing to its rows.
Passes(c, p) ==
  \/ Pc(c) = "committed" /\ Kind(c) \notin {"job", "run"} /\ p \in {"scheduled", "threw"}
  \/ Pc(c) = "committed" /\ Kind(c) = "run" /\ p \in {"enqueue", "scheduled", "failRun"}
  \/ Pc(c) = "enqueue" /\ p = "failRun"
  \/ Pc(c) = "mark" /\ p \in {"scheduled", "failRun"}
  \/ Pc(c) = "claimed" /\ p = "failing"
  \/ Pc(c) \in {"audit", "scheduled", "settling"} /\ Kind(c) = "job" /\ p = "failing"
  \/ Pc(c) = "threw" /\ p \in {"replacing", "marking"}
  \/ Pc(c) = "replacing" /\ p = "marking"
  \/ Pc(c) = "retrying" /\ p = "retryReplacing"
  \/ Pc(c) = "retryReplacing" /\ p = "scheduled"

LEMMA PassingKnows ==
  ASSUME IInv, NEW c \in Clients, NEW p, Passes(c, p)
  PROVE  /\ Pc(c) # "idle" /\ p \in Points \ {"idle"}
         /\ Sole(c) \/ (p \notin SolePoints /\ (p \in {"scheduled", "settling"} => Kind(c) # "job"))
         /\ \E k \in Keys :
              /\ Key(c) = k
              /\ KnowsAt(p, Kind(c), Status(c), effect[k], audit[k])
<1>1. Pc(c) # "idle" /\ p \in Points \ {"idle"}
  BY DEF Passes, Points
<1>2. PICK k \in Keys :
        /\ Key(c) = k
        /\ Kind(c) = Action(k) /\ Status(c) = op[k].status
        /\ KnowsAt(Pc(c), Kind(c), Status(c), effect[k], audit[k])
        /\ SettledAs(Kind(c), Status(c), effect[k], audit[k])
  BY <1>1, Known
<1>3. KnowsAt(p, Kind(c), Status(c), effect[k], audit[k])
  BY <1>2 DEF Passes, KnowsAt, SolePoints, SettledAs
<1>4. Sole(c) \/ (p \notin SolePoints /\ (p \in {"scheduled", "settling"} => Kind(c) # "job"))
  BY <1>2 DEF Passes, KnowsAt, Sole, SolePoints
<1>5. QED
  BY <1>1, <1>2, <1>3, <1>4

LEMMA PassKeeps ==
  ASSUME IInv, NEW c \in Clients, NEW p, Passes(c, p), Goto(c, p), UNCHANGED <<op, audit, effect>>
  PROVE  IInv'
  BY PassingKnows, GotoKeeps

LEMMA ListKeeps ==
  ASSUME IInv, NEW c \in Clients, ListRoutines(c)
  PROVE  IInv'
<1>1. PICK p : p = IF Pc(c) = "threw" THEN "replacing" ELSE "retryReplacing"
  OBVIOUS
<1>2. Passes(c, p)
  BY <1>1 DEF ListRoutines, At, Passes, Pc
<1>3. /\ call' = [call EXCEPT ![c] = Frame(p, Key(c), row)]
      /\ UNCHANGED <<op, audit, effect>>
  BY <1>1 DEF ListRoutines, At, Pc, Key
<1>4. PICK k \in Keys : Key(c) = k /\ KnowsAt(p, Kind(c), Status(c), effect[k], audit[k])
  BY <1>2, PassingKnows
<1>5. /\ Pc(c) # "idle" /\ p \in Points \ {"idle"}
      /\ Sole(c) \/ (p \notin SolePoints /\ (p \in {"scheduled", "settling"} => Kind(c) # "job"))
  BY <1>2, PassingKnows
<1>6. Rows1(k) /\ op'[k] = op[k] /\ audit'[k] = audit[k] /\ effect'[k] = effect[k]
  BY <1>3, RowsUnchanged
<1>7. Settled(k) /\ Action(k) = Kind(c) /\ op[k].status = Status(c)
  BY <1>4, <1>5, AtWork DEF Status
<1>8. Sole(c) \/ Harmless(c, p, k)
  BY <1>5, <1>6 DEF Harmless, Tolerated
<1>9. /\ KnowsAt(p, Kind(c), op'[k].status, effect'[k], audit'[k])
      /\ SettledAs(Kind(c), op'[k].status, effect'[k], audit'[k])
  BY <1>4, <1>6, <1>7 DEF Settled
<1>10. QED
  BY <1>3, <1>4, <1>5, <1>6, <1>8, <1>9, MoveKeeps

LEMMA CompleteKeeps ==
  ASSUME IInv, NEW c \in Clients, Complete(c)
  PROVE  IInv'
<1>1. Pc(c) = "scheduled" /\ UNCHANGED <<audit, effect>> /\ Goto(c, "settling")
  BY DEF Complete, At, Pc
<1>2. PICK k \in Keys :
        /\ Key(c) = k
        /\ Kind(c) = Action(k) /\ Status(c) = op[k].status
        /\ KnowsAt(Pc(c), Kind(c), Status(c), effect[k], audit[k])
        /\ SettledAs(Kind(c), Status(c), effect[k], audit[k])
  BY <1>1, Known
<1>3. SetStatus(k, "completed")
  BY <1>2 DEF Complete, CompleteControlOperation, Key
<1>4. Rows1(k) /\ op'[k].status = "completed"
  BY <1>1, <1>2, <1>3, StatusSet DEF Rows1, OperationStatus, KnowsAt
<1>5. audit'[k] = audit[k] /\ effect'[k] = effect[k]
  BY <1>1
<1>6. Tolerated(k)
  BY <1>1, <1>2, <1>4, <1>5 DEF Tolerated, Rows1, KnowsAt
<1>7. Sole(c) \/ Harmless(c, "settling", k)
  BY <1>1, <1>6 DEF Harmless, Sole, SolePoints
<1>8. KnowsAt("settling", Kind(c), op'[k].status, effect'[k], audit'[k])
  BY <1>1, <1>2, <1>4, <1>5 DEF KnowsAt, SolePoints
<1>9. SettledAs(Kind(c), op'[k].status, effect'[k], audit'[k])
  BY <1>1, <1>2, <1>4, <1>5 DEF SettledAs, KnowsAt
<1>10. call' = [call EXCEPT ![c] = Frame("settling", Key(c), call[c].read)]
  BY <1>1, GotoMoves DEF IInv
<1>11. QED
  BY <1>1, <1>2, <1>4, <1>7, <1>8, <1>9, <1>10, MoveKeeps DEF Points

LEMMA FailKeeps ==
  ASSUME IInv, NEW c \in Clients, Fail(c)
  PROVE  IInv'
<1>1. /\ Pc(c) \in {"failing", "failRun"} /\ Pc(c) # "idle" /\ Sole(c)
      /\ UNCHANGED <<audit, effect>>
  BY DEF Fail, At, Pc, Sole, SolePoints
<1>2. PICK k \in Keys :
        /\ Key(c) = k
        /\ Kind(c) = Action(k) /\ Status(c) = op[k].status
        /\ KnowsAt(Pc(c), Kind(c), Status(c), effect[k], audit[k])
        /\ SettledAs(Kind(c), Status(c), effect[k], audit[k])
  BY <1>1, Known
<1>3. SetStatus(k, "failed")
  BY <1>2 DEF Fail, FailControlOperation, Key
<1>4. /\ Rows1(k)
      /\ op'[k].status = IF Status(c) \in {"in_progress", "reconciling"} THEN "failed" ELSE Status(c)
  BY <1>1, <1>2, <1>3, StatusSet DEF Rows1, OperationStatus
<1>5. audit'[k] = audit[k] /\ effect'[k] = effect[k]
  BY <1>1
<1>6. SettledAs(Kind(c), op'[k].status, effect'[k], audit'[k])
  BY <1>1, <1>2, <1>4, <1>5 DEF SettledAs, KnowsAt, SolePoints
<1>7. CASE Pc(c) = "failRun"
  <2>1. Goto(c, "failAudit")
    BY <1>7 DEF Fail, At, Pc
  <2>2. call' = [call EXCEPT ![c] = Frame("failAudit", Key(c), call[c].read)]
    BY <2>1, GotoMoves DEF IInv
  <2>3. KnowsAt("failAudit", Kind(c), op'[k].status, effect'[k], audit'[k])
    BY <1>2, <1>4, <1>5, <1>7 DEF KnowsAt, SolePoints
  <2>4. QED
    BY <1>1, <1>2, <1>4, <1>6, <2>2, <2>3, MoveKeeps DEF Points
<1>8. CASE Pc(c) = "failing"
  <2>1. Return(c)
    BY <1>8 DEF Fail, At, Pc
  <2>2. QED
    BY <1>1, <1>2, <1>4, <1>6, <2>1, ReturnKeeps
<1>9. QED
  BY <1>1, <1>7, <1>8

LEMMA MarkReconciliationPendingKeeps ==
  ASSUME IInv, NEW c \in Clients, MarkReconciliationPending(c)
  PROVE  IInv'
<1>1. Pc(c) = "marking" /\ Sole(c) /\ UNCHANGED <<audit, effect>> /\ Goto(c, "markingAudit")
  BY DEF MarkReconciliationPending, At, Pc, Sole, SolePoints
<1>2. PICK k \in Keys :
        /\ Key(c) = k
        /\ Kind(c) = Action(k) /\ Status(c) = op[k].status
        /\ KnowsAt(Pc(c), Kind(c), Status(c), effect[k], audit[k])
        /\ SettledAs(Kind(c), Status(c), effect[k], audit[k])
  BY <1>1, Known
<1>3. SetStatus(k, "reconciling")
  BY <1>2 DEF MarkReconciliationPending, MarkControlOperationReconciliationPending, Key
<1>4. Rows1(k) /\ op'[k].status = "reconciling"
  BY <1>1, <1>2, <1>3, StatusSet DEF Rows1, OperationStatus, KnowsAt, SolePoints
<1>5. audit'[k] = audit[k] /\ effect'[k] = effect[k]
  BY <1>1
<1>6. KnowsAt("markingAudit", Kind(c), op'[k].status, effect'[k], audit'[k])
  BY <1>1, <1>2, <1>4, <1>5 DEF KnowsAt, SolePoints
<1>7. SettledAs(Kind(c), op'[k].status, effect'[k], audit'[k])
  BY <1>1, <1>2, <1>4, <1>5 DEF SettledAs, KnowsAt, SolePoints
<1>8. call' = [call EXCEPT ![c] = Frame("markingAudit", Key(c), call[c].read)]
  BY <1>1, GotoMoves DEF IInv
<1>9. QED
  BY <1>1, <1>2, <1>4, <1>6, <1>7, <1>8, MoveKeeps DEF Points

\* The statements that write the audit row.
LEMMA AuditStep ==
  ASSUME IInv, NEW c \in Clients, Pc(c) # "idle", NEW o \in AuditOutcome \ {"none"},
         SetAudit(Key(c), o), UNCHANGED <<op, effect>>
  PROVE  \E k \in Keys :
           /\ Key(c) = k
           /\ KnowsAt(Pc(c), Kind(c), Status(c), effect[k], audit[k])
           /\ SettledAs(Kind(c), Status(c), effect[k], audit[k])
           /\ Rows1(k) /\ Tolerated(k)
           /\ op'[k].status = Status(c) /\ effect'[k] = effect[k] /\ audit'[k] = o
<1>1. PICK k \in Keys :
        /\ Key(c) = k
        /\ Kind(c) = Action(k) /\ Status(c) = op[k].status
        /\ KnowsAt(Pc(c), Kind(c), Status(c), effect[k], audit[k])
        /\ SettledAs(Kind(c), Status(c), effect[k], audit[k])
  BY Known
<1>2. SetAudit(k, o)
  BY <1>1
<1>3. effect' \in [Keys -> Nat] /\ \A j \in Keys \ {k} : effect'[j] = effect[j]
  BY DEF IInv, Typed
<1>4. Rows1(k) /\ audit'[k] = o /\ op'[k] = op[k] /\ effect'[k] = effect[k]
  BY <1>1, <1>2, <1>3, AuditSet DEF Rows1
<1>5. QED
  BY <1>1, <1>4 DEF Tolerated

LEMMA AuditJobOperationKeeps ==
  ASSUME IInv, NEW c \in Clients, AuditJobOperation(c)
  PROVE  IInv'
<1>1. /\ Pc(c) = "audit" /\ Sole(c) /\ UNCHANGED <<op, effect>>
      /\ SetAudit(Key(c), "pending") /\ Goto(c, "scheduled")
  BY DEF AuditJobOperation, At, Pc, Key, Sole, SolePoints
<1>2. PICK k \in Keys :
        /\ Key(c) = k
        /\ KnowsAt(Pc(c), Kind(c), Status(c), effect[k], audit[k])
        /\ SettledAs(Kind(c), Status(c), effect[k], audit[k])
        /\ Rows1(k) /\ Tolerated(k)
        /\ op'[k].status = Status(c) /\ effect'[k] = effect[k] /\ audit'[k] = "pending"
  BY <1>1, AuditStep DEF AuditOutcome
<1>3. call' = [call EXCEPT ![c] = Frame("scheduled", Key(c), call[c].read)]
  BY <1>1, GotoMoves DEF IInv
<1>4. /\ KnowsAt("scheduled", Kind(c), op'[k].status, effect'[k], audit'[k])
      /\ SettledAs(Kind(c), op'[k].status, effect'[k], audit'[k])
  BY <1>1, <1>2 DEF KnowsAt, SettledAs, SolePoints
<1>5. QED
  BY <1>1, <1>2, <1>3, <1>4, MoveKeeps DEF Points

\* The audit row a call writes last tells what the operation says.
LEMMA LastAuditKeeps ==
  ASSUME IInv, NEW c \in Clients, NEW o \in AuditOutcome,
         \/ Pc(c) = "settling" /\ o = "succeeded"
         \/ Pc(c) = "failAudit" /\ o = "failed"
         \/ Pc(c) = "markingAudit" /\ o = "reconciling",
         SetAudit(Key(c), o), Return(c), UNCHANGED <<op, effect>>
  PROVE  IInv'
<1>1. Pc(c) # "idle" /\ o # "none"
  OBVIOUS
<1>2. PICK k \in Keys :
        /\ Key(c) = k
        /\ KnowsAt(Pc(c), Kind(c), Status(c), effect[k], audit[k])
        /\ SettledAs(Kind(c), Status(c), effect[k], audit[k])
        /\ Rows1(k) /\ Tolerated(k)
        /\ op'[k].status = Status(c) /\ effect'[k] = effect[k] /\ audit'[k] = o
  BY <1>1, AuditStep
<1>3. SettledAs(Kind(c), op'[k].status, effect'[k], audit'[k])
  BY <1>2 DEF KnowsAt, SettledAs
<1>4. QED
  BY <1>1, <1>2, <1>3, ReturnKeeps

LEMMA DbErrorKeeps ==
  ASSUME IInv, NEW c \in Clients, DbError(c)
  PROVE  IInv'
<1>1. UNCHANGED <<op, audit, effect>>
  BY DEF DbError
<1>2. CASE Return(c) /\ Pc(c) # "idle"
  BY <1>1, <1>2, EndKeeps
<1>3. CASE \E p \in Points : Passes(c, p) /\ Goto(c, p)
  BY <1>1, <1>3, PassKeeps
<1>4. (Return(c) /\ Pc(c) # "idle") \/ \E p \in Points : Passes(c, p) /\ Goto(c, p)
  <2>1. CASE At(c, "claimed") /\ Goto(c, "failing")
    <3>1. Passes(c, "failing") /\ "failing" \in Points
      BY <2>1 DEF At, Pc, Passes, Points
    <3>2. QED
      BY <2>1, <3>1
  <2>2. CASE call[c].pc \in {"audit", "scheduled", "settling"} /\ IsJob(c) /\ Goto(c, "failing")
    <3>1. Passes(c, "failing") /\ "failing" \in Points
      BY <2>2 DEF Pc, Kind, IsJob, Passes, Points
    <3>2. QED
      BY <2>2, <3>1
  <2>3. CASE \/ At(c, "committed") /\ Request(c).action = "run" /\ Goto(c, "failRun")
             \/ call[c].pc \in {"enqueue", "mark"} /\ Goto(c, "failRun")
    <3>1. Passes(c, "failRun") /\ "failRun" \in Points /\ Goto(c, "failRun")
      BY <2>3 DEF At, Pc, Kind, Passes, Points
    <3>2. QED
      BY <3>1
  <2>4. CASE At(c, "threw") /\ Goto(c, "marking")
    <3>1. Passes(c, "marking") /\ "marking" \in Points
      BY <2>4 DEF At, Pc, Passes, Points
    <3>2. QED
      BY <2>4, <3>1
  <2>5. CASE \/ call[c].pc \in {"scheduled", "settling"} /\ ~IsJob(c) /\ Return(c)
             \/ call[c].pc \in {"failing", "failRun", "failAudit", "marking", "markingAudit",
                                "retrying"} /\ Return(c)
    BY <2>5 DEF Pc
  <2>6. QED
    BY <2>1, <2>2, <2>3, <2>4, <2>5 DEF DbError
<1>5. QED
  BY <1>2, <1>3, <1>4

-----------------------------------------------------------------------------
(* The steps together.                                                     *)

LEMMA CallKeeps ==
  ASSUME IInv, NEW c \in Clients, Step(c)
  PROVE  IInv'
<1>1. ASSUME NEW k \in Keys, NEW q \in Requests, Begin(c, k, q) PROVE IInv'
  BY <1>1, BeginKeeps
<1>2. ASSUME NEW p, Passes(c, p), Goto(c, p), UNCHANGED <<op, audit, effect>> PROVE IInv'
  BY <1>2, PassKeeps
<1>3. CASE Schedule(c)
  BY <1>2, <1>3 DEF Schedule, At, Pc, Kind, Passes
<1>4. CASE RunNow(c)
  BY <1>2, <1>4 DEF RunNow, At, Pc, Kind, Passes
<1>5. CASE QueueRun(c)
  <2>1. Pc(c) = "enqueue" /\ UNCHANGED <<op, audit>>
    BY <1>5 DEF QueueRun, At, Pc
  <2>2. CASE CountEffect(c) /\ Goto(c, "mark")
    BY <2>1, <2>2, CountKeeps DEF Points
  <2>3. CASE Goto(c, "failRun") /\ UNCHANGED effect
    BY <1>2, <2>1, <2>3 DEF Passes
  <2>4. QED
    BY <1>5, <2>2, <2>3 DEF QueueRun
<1>6. CASE MarkFired(c)
  BY <1>2, <1>6 DEF MarkFired, At, Pc, Passes
<1>7. CASE RunJobOperation(c)
  <2>1. Pc(c) = "claimed" /\ Kind(c) = "job" /\ UNCHANGED <<op, audit>>
    BY <1>7 DEF RunJobOperation, At, Pc, IsJob, Kind
  <2>2. CASE CountEffect(c) /\ Goto(c, "audit")
    BY <2>1, <2>2, CountKeeps DEF Points
  <2>3. CASE Goto(c, "failing") /\ UNCHANGED effect
    BY <1>2, <2>1, <2>3 DEF Passes
  <2>4. QED
    BY <1>7, <2>2, <2>3 DEF RunJobOperation
<1>8. CASE Reconcile(c)
  BY <1>2, <1>8 DEF Reconcile, At, Pc, Passes
<1>9. CASE ReconcileFails(c)
  <2>1. CASE At(c, "replacing") /\ Goto(c, "marking")
    BY <1>2, <1>9, <2>1 DEF ReconcileFails, At, Pc, Passes
  <2>2. CASE At(c, "retryReplacing") /\ Return(c)
    BY <1>9, <2>2, EndKeeps DEF ReconcileFails, At, Pc
  <2>3. QED
    BY <1>9, <2>1, <2>2 DEF ReconcileFails
<1>10. CASE Settle(c)
  BY <1>10, LastAuditKeeps DEF Settle, At, Pc, Key, AuditOutcome
<1>11. CASE FailAudit(c)
  BY <1>11, LastAuditKeeps DEF FailAudit, At, Pc, Key, AuditOutcome
<1>12. CASE MarkAudit(c)
  BY <1>12, LastAuditKeeps DEF MarkAudit, At, Pc, Key, AuditOutcome
<1>13. QED
  BY <1>1, <1>3, <1>4, <1>5, <1>6, <1>7, <1>8, <1>9, <1>10, <1>11, <1>12,
     MutateKeeps, CompleteKeeps, AuditJobOperationKeeps, FailKeeps, ListKeeps,
     MarkReconciliationPendingKeeps, DbErrorKeeps DEF Step

\* After a crash no call is left: what is settled stays so.
LEMMA CrashKeeps ==
  ASSUME IInv, Crash
  PROVE  IInv'
<1>1. UNCHANGED <<op, audit, effect>> /\ call' = [c \in Clients |-> Idle]
  BY DEF Crash
<1>2. ASSUME NEW c \in Clients PROVE Pc(c)' = "idle" /\ call'[c] = Frame("idle", "none", NoRows)
  BY <1>1 DEF Pc, Idle, Frame
<1>3. Typed'
  BY <1>1, <1>2 DEF IInv, Typed, Pc, Key, Frame, Points
<1>4. Alone' /\ CallsKnow'
  BY <1>2 DEF Alone, CallsKnow
<1>5. OperationsSettled'
  BY <1>1 DEF IInv, OperationsSettled, Settled, Action
<1>6. QED
  BY <1>3, <1>4, <1>5 DEF IInv

LEMMA CallsUnchanged ==
  ASSUME IInv, UNCHANGED <<op, audit, effect, call>>
  PROVE  IInv'
<1>1. Typed'
  BY DEF IInv, Typed, Pc, Key
<1>2. Alone' /\ CallsKnow'
  BY DEF IInv, Alone, CallsKnow, Sole, Knows, Pc, Key, Kind, Status, Request
<1>3. OperationsSettled'
  BY DEF IInv, OperationsSettled, Settled, Action
<1>4. QED
  BY <1>1, <1>2, <1>3 DEF IInv

LEMMA InitHolds == ServiceInit => IInv
<1>1. SUFFICES ASSUME ServiceInit PROVE IInv
  OBVIOUS
<1>2. \A c \in Clients : Pc(c) = "idle" /\ call[c] = Frame("idle", "none", NoRows)
  BY <1>1 DEF ServiceInit, Pc, Idle, Frame
<1>3. Typed
  BY <1>1, <1>2 DEF ServiceInit, OperationsInit, Typed, OperationStatus, AuditOutcome, Pc, Key,
                    Frame, Points
<1>4. Alone /\ CallsKnow
  BY <1>2 DEF Alone, CallsKnow
<1>5. OperationsSettled
  <2>1. SUFFICES ASSUME NEW k \in Keys PROVE Settled(k)
    BY DEF OperationsSettled
  <2>2. op[k].status = "none" /\ effect[k] = 0 /\ audit[k] = "none"
    BY <1>1 DEF ServiceInit, OperationsInit
  <2>3. QED
    BY <2>2 DEF Settled, SettledAs
<1>6. QED
  BY <1>3, <1>4, <1>5 DEF IInv

\* The inductive invariant, and with it the three properties.
THEOREM Invariant == ServiceSpec => []IInv
<1>1. IInv /\ [ServiceNext]_vars => IInv'
  <2>1. SUFFICES ASSUME IInv, [ServiceNext]_vars PROVE IInv'
    OBVIOUS
  <2>2. CASE \E c \in Clients : Step(c)
    BY <2>1, <2>2, CallKeeps
  <2>3. CASE BootList \/ BootRegister
    BY <2>1, <2>3, CallsUnchanged DEF BootList, BootRegister
  <2>4. CASE Crash
    BY <2>1, <2>4, CrashKeeps
  <2>5. CASE UNCHANGED vars
    BY <2>1, <2>5, CallsUnchanged DEF vars, serviceVars
  <2>6. QED
    BY <2>1, <2>2, <2>3, <2>4, <2>5 DEF ServiceNext
<1>2. QED
  BY <1>1, InitHolds, PTL DEF ServiceSpec

(* However many clients repeat however many keys, whatever fails and        *)
(* whenever the process dies: no key commits its mutation, or queues its    *)
(* run, twice (claimControlOperation, mutateRoutine, JobService.mutate).    *)
THEOREM EffectsOnce == ServiceSpec => []OneEffectPerKey
<1>1. IInv => OneEffectPerKey
  <2>1. SUFFICES ASSUME IInv, NEW k \in Keys PROVE effect[k] <= 1
    BY DEF OneEffectPerKey
  <2>2. effect[k] \in {0, 1}
    BY <2>1 DEF IInv, OperationsSettled, Settled, SettledAs
  <2>3. QED
    BY <2>2
<1>2. QED
  BY <1>1, Invariant, PTL

(* A completed operation did its work and a failed routine mutation changed *)
(* nothing, for every interleaving of claims, failures and reconciliations. *)
THEOREM StatusIsTrue == ServiceSpec => []StatusTellsTheEffect
<1>1. IInv => StatusTellsTheEffect
  BY DEF IInv, OperationsSettled, Settled, SettledAs, StatusTellsTheEffect
<1>2. QED
  BY <1>1, Invariant, PTL

(* No routine changes without an audit row, and the row never contradicts   *)
(* the operation it belongs to.                                             *)
THEOREM AuditIsTrue == ServiceSpec => []AuditTellsTheOutcome
<1>1. IInv => AuditTellsTheOutcome
  BY DEF IInv, OperationsSettled, Settled, SettledAs, AuditTellsTheOutcome
<1>2. QED
  BY <1>1, Invariant, PTL

-----------------------------------------------------------------------------
(* The tasks.  While no two calls raced, at most one call is between the    *)
(* rows and the tasks they decide; its target is the one routine whose task *)
(* may differ from its row, and only a call that lists the rows can clear a *)
(* failure that is owed.                                                    *)

\* A call that has committed a row and not yet scheduled it.
Committed(c) == At(c, "committed") /\ Request(c).action \notin {"job", "run"}

\* A key that was claimed keeps its request.
RequestsKnown == \A k \in Keys : op[k].status # "none" => op[k].request \in Requests

RowTypes ==
  /\ row \in Rows /\ rows \in Rows
  /\ \A c \in Clients : call[c].read \in Rows
  /\ task \in [Routines -> Task] /\ started \in BOOLEAN
  /\ boot \in {"starting", "listed", "up"} /\ drift \in {"none", "owed", "raced"}
  /\ RequestsKnown

\* What a call between rows and tasks still holds.
ReadIsCurrent(c) ==
  /\ Committed(c) =>
       /\ call[c].read[Target(c)] = row[Target(c)] /\ row[Target(c)] # Absent
       /\ Request(c).action \in Creations =>
            task[Target(c)] = NoTask /\ Exists(row[Target(c)])
       /\ Request(c).action = "create_paused" => ~row[Target(c)].enabled
       /\ Request(c).action = "delete" => row[Target(c)] = Deleted
  /\ At(c, "replacing") \/ At(c, "retryReplacing") => call[c].read = row

TaskIsCurrent(r) == task[r] = TasksOf(row)[r]

Unraced ==
  /\ ~Overlap
  /\ stray = {}
  /\ \A r \in Routines : row[r] = Absent => task[r] = NoTask
  /\ \A c \in Clients : ReadIsCurrent(c)
  /\ boot # "up" => \A r \in Routines : task[r] = NoTask
  /\ boot = "listed" => rows = row
  /\ boot = "up" /\ drift = "none" =>
       /\ started
       /\ \A r \in Routines :
            TaskIsCurrent(r) \/ \E c \in Clients : Committed(c) /\ Target(c) = r

TInv == IInv /\ RowTypes /\ (drift # "raced" => Unraced)

-----------------------------------------------------------------------------
(* What a step of one call leaves to the others.                           *)

LEMMA RowsDiffer ==
  /\ \A x \in Row : x # Absent /\ x # Deleted /\ Exists(x)
  /\ Absent # Deleted /\ ~Exists(Absent) /\ ~Exists(Deleted)
<1>1. \A x \in Row : DOMAIN x = {"enabled", "cron"}
  BY DEF Row
<1>2. DOMAIN Absent = {"there"} /\ DOMAIN Deleted = {"there"}
  BY DEF Absent, Deleted
<1>3. Absent.there = "absent" /\ Deleted.there = "deleted"
  BY DEF Absent, Deleted
<1>4. \A x \in Row : x # Absent /\ x # Deleted
  BY <1>1, <1>2
<1>5. QED
  BY <1>3, <1>4 DEF Exists

LEMMA OperationStep ==
  ASSUME IInv, NEW c \in Clients, Step(c)
  PROVE  \/ UNCHANGED op
         \/ \E k \in Keys, s \in OperationStatus \ {"none"} : SetStatus(k, s)
         \/ \E k \in Keys, q \in Requests : ClaimControlOperation(k, q)
<1>1. Pc(c) # "idle" => call[c].key \in Keys
  BY AtWork DEF Key
<1>2. ASSUME NEW k \in Keys, NEW q \in Requests, Begin(c, k, q)
      PROVE  UNCHANGED op \/ ClaimControlOperation(k, q)
  BY <1>2 DEF Begin
<1>3. CASE Complete(c) \/ Fail(c) \/ MarkReconciliationPending(c)
  BY <1>1, <1>3 DEF Complete, Fail, MarkReconciliationPending, At, Pc, OperationStatus,
     CompleteControlOperation, FailControlOperation, MarkControlOperationReconciliationPending
<1>4. CASE Mutate(c) \/ Schedule(c) \/ Settle(c) \/ RunNow(c) \/ QueueRun(c) \/ MarkFired(c)
  BY <1>4 DEF Mutate, Schedule, Settle, RunNow, QueueRun, MarkFired
<1>5. CASE \/ RunJobOperation(c) \/ AuditJobOperation(c) \/ FailAudit(c) \/ ListRoutines(c)
           \/ Reconcile(c) \/ ReconcileFails(c) \/ MarkAudit(c) \/ DbError(c)
  BY <1>5 DEF RunJobOperation, AuditJobOperation, FailAudit, ListRoutines, Reconcile,
              ReconcileFails, MarkAudit, DbError
<1>6. QED
  BY <1>2, <1>3, <1>4, <1>5 DEF Step

LEMMA RequestsStay ==
  ASSUME IInv, RequestsKnown, NEW c \in Clients, Step(c)
  PROVE  /\ RequestsKnown'
         /\ \A k \in Keys : op[k].status # "none" => op'[k].request = op[k].request
<1>1. op \in [Keys -> OpType]
  BY DEF IInv, Typed, OpType
<1>2. CASE UNCHANGED op
  BY <1>2 DEF RequestsKnown
<1>3. ASSUME NEW j \in Keys, NEW s \in OperationStatus \ {"none"}, SetStatus(j, s)
      PROVE  /\ RequestsKnown'
             /\ \A k \in Keys : op[k].status # "none" => op'[k].request = op[k].request
  <2>1. CASE Unsettled(j)
    <3>1. op' = [op EXCEPT ![j].status = s]
      BY <1>3, <2>1 DEF SetStatus
    <3>2. \A k \in Keys : op'[k].request = op[k].request
      BY <1>1, <3>1 DEF OpType
    <3>3. \A k \in Keys : op'[k].status # "none" => op[k].status # "none"
      BY <1>1, <2>1, <3>1 DEF Unsettled
    <3>4. QED
      BY <3>2, <3>3 DEF RequestsKnown
  <2>2. CASE ~Unsettled(j)
    BY <1>3, <2>2 DEF SetStatus, RequestsKnown
  <2>3. QED
    BY <2>1, <2>2
<1>4. ASSUME NEW j \in Keys, NEW q \in Requests, ClaimControlOperation(j, q)
      PROVE  /\ RequestsKnown'
             /\ \A k \in Keys : op[k].status # "none" => op'[k].request = op[k].request
  <2>1. op[j].status = "none"
        /\ op' = [op EXCEPT ![j] = [status |-> "in_progress", request |-> q]]
    BY <1>4 DEF ClaimControlOperation, Claimable
  <2>2. op'[j].request = q /\ \A k \in Keys \ {j} : op'[k] = op[k]
    BY <1>1, <2>1
  <2>3. QED
    BY <2>1, <2>2 DEF RequestsKnown
<1>5. QED
  BY <1>2, <1>3, <1>4, OperationStep

LEMMA CallStep ==
  ASSUME IInv, NEW c \in Clients, Step(c), NEW d \in Clients \ {c}
  PROVE  call'[d] = call[d]
<1>1. DOMAIN call = Clients
  BY DEF IInv, Typed
<1>2. ASSUME NEW k \in Keys, NEW q \in Requests, Begin(c, k, q)
      PROVE  call'[d] = call[d]
  BY <1>1, <1>2 DEF Begin
<1>3. CASE Mutate(c) \/ Schedule(c) \/ Settle(c) \/ RunNow(c) \/ QueueRun(c) \/ MarkFired(c)
  BY <1>1, <1>3 DEF Mutate, Schedule, Settle, RunNow, QueueRun, MarkFired, Goto, Return
<1>4. CASE \/ RunJobOperation(c) \/ AuditJobOperation(c) \/ FailAudit(c) \/ ListRoutines(c)
           \/ Reconcile(c) \/ ReconcileFails(c) \/ MarkAudit(c) \/ DbError(c)
  BY <1>1, <1>4 DEF RunJobOperation, AuditJobOperation, FailAudit, ListRoutines, Reconcile,
              ReconcileFails, MarkAudit, DbError, Goto, Return
<1>5. CASE Complete(c) \/ Fail(c) \/ MarkReconciliationPending(c)
  BY <1>1, <1>5 DEF Complete, Fail, MarkReconciliationPending, Goto, Return
<1>6. QED
  BY <1>2, <1>3, <1>4, <1>5 DEF Step

\* A call under way has a request, and keeps it.
LEMMA RequestOf ==
  ASSUME IInv, RequestsKnown, NEW c \in Clients, Pc(c) # "idle"
  PROVE  Key(c) \in Keys /\ Status(c) # "none" /\ Request(c) \in Requests
<1>1. Key(c) \in Keys /\ Knows(c) /\ Pc(c) \in Points
  BY AtWork DEF IInv, Typed
<1>2. Status(c) # "none"
  BY <1>1 DEF Knows, KnowsAt, SolePoints, Points
<1>3. QED
  BY <1>1, <1>2 DEF RequestsKnown, Status, Request, Key

LEMMA OthersStay ==
  ASSUME IInv, RequestsKnown, NEW c \in Clients, Step(c), NEW d \in Clients \ {c}
  PROVE  /\ call'[d] = call[d]
         /\ Scheduling(d)' = Scheduling(d) /\ Committed(d)' = Committed(d)
         /\ Pc(d) # "idle" => Request(d)' = Request(d)
<1>1. call'[d] = call[d]
  BY CallStep
<1>2. Pc(d) # "idle" => Request(d)' = Request(d)
  <2>1. SUFFICES ASSUME Pc(d) # "idle" PROVE Request(d)' = Request(d)
    OBVIOUS
  <2>2. Key(d) \in Keys /\ op[Key(d)].status # "none"
    BY <2>1, RequestOf DEF Status
  <2>3. QED
    BY <1>1, <2>2, RequestsStay DEF Request, Key
<1>3. QED
  BY <1>1, <1>2 DEF Scheduling, Committed, At, Pc

LEMMA Moved ==
  ASSUME IInv, NEW c \in Clients, NEW p, NEW k, NEW x, call' = [call EXCEPT ![c] = Frame(p, k, x)]
  PROVE  call'[c] = Frame(p, k, x) /\ Pc(c)' = p /\ Key(c)' = k /\ call'[c].read = x
<1>1. call'[c] = Frame(p, k, x)
  BY DEF IInv, Typed
<1>2. QED
  BY <1>1 DEF Frame, Pc, Key

\* A call that goes on or returns, and is between rows and tasks no more.
LEMMA Leaves ==
  ASSUME IInv, RowTypes, NEW c \in Clients,
         \/ Return(c)
         \/ \E p \in Points \ {"replacing", "retryReplacing", "committed"} : Goto(c, p)
  PROVE  ~Scheduling(c)' /\ call'[c].read \in Rows
<1>1. ASSUME NEW p, NEW k, NEW x \in Rows, p \notin {"replacing", "retryReplacing", "committed"},
             call' = [call EXCEPT ![c] = Frame(p, k, x)]
      PROVE  ~Scheduling(c)' /\ call'[c].read \in Rows
  <2>1. Pc(c)' = p /\ call'[c].read = x
    BY <1>1, Moved
  <2>2. QED
    BY <1>1, <2>1 DEF Scheduling, At, Pc
<1>2. CASE Return(c)
  <2>1. NoRows \in Rows
    BY DEF NoRows, Rows
  <2>2. PICK p, k : p = "idle" /\ k = "none"
    OBVIOUS
  <2>3. call' = [call EXCEPT ![c] = Frame(p, k, NoRows)]
    BY <1>2, <2>2 DEF Return, Idle
  <2>4. p \notin {"replacing", "retryReplacing", "committed"}
    BY <2>2
  <2>5. QED
    BY <1>1, <2>1, <2>3, <2>4
<1>3. ASSUME NEW p \in Points \ {"replacing", "retryReplacing", "committed"}, Goto(c, p)
      PROVE  ~Scheduling(c)' /\ call'[c].read \in Rows
  <2>1. call' = [call EXCEPT ![c] = Frame(p, Key(c), call[c].read)] /\ call[c].read \in Rows
    BY <1>3, GotoMoves DEF IInv, RowTypes
  <2>2. QED
    BY <1>1, <1>3, <2>1
<1>4. QED
  BY <1>2, <1>3

LEMMA TypesKeep ==
  ASSUME IInv, RowTypes, NEW c \in Clients, Step(c), call'[c].read \in Rows,
         row' \in Rows, rows' \in Rows, task' \in [Routines -> Task], started' \in BOOLEAN,
         boot' \in {"starting", "listed", "up"}, drift' \in {"none", "owed", "raced"}
  PROVE  RowTypes'
<1>1. \A d \in Clients : call'[d].read \in Rows
  BY CallStep DEF RowTypes
<1>2. RequestsKnown'
  BY RequestsStay DEF RowTypes
<1>3. QED
  BY <1>1, <1>2 DEF RowTypes

\* A step of a call that is not between rows and tasks, before or after.
LEMMA QuietKeeps ==
  ASSUME TInv, NEW c \in Clients, Step(c), UNCHANGED <<schedulerVars, row, boot, rows, drift>>,
         ~Scheduling(c), ~Scheduling(c)', call'[c].read \in Rows
  PROVE  RowTypes' /\ (drift' # "raced" => Unraced')
<1>1. RowTypes'
  BY TypesKeep DEF TInv, RowTypes, schedulerVars
<1>2. SUFFICES ASSUME drift # "raced" PROVE Unraced'
  BY <1>1
<1>3. Unraced /\ IInv /\ RequestsKnown
  BY <1>2 DEF TInv, RowTypes
<1>4. \A d \in Clients : Scheduling(d)' => d # c /\ Scheduling(d)
  BY <1>3, OthersStay
<1>5. ~Overlap'
  BY <1>3, <1>4 DEF Unraced, Overlap
<1>6. ~Committed(c) /\ ~Committed(c)'
  BY DEF Committed, Scheduling
<1>7. ASSUME NEW d \in Clients \ {c}
      PROVE  /\ ReadIsCurrent(d)'
             /\ Committed(d) => Committed(d)' /\ Target(d)' = Target(d)
  <2>1. call'[d] = call[d] /\ Committed(d)' = Committed(d)
    BY <1>3, OthersStay
  <2>2. Committed(d) => Request(d)' = Request(d)
    BY <1>3, OthersStay DEF Committed, At, Pc
  <2>3. Committed(d) => Target(d)' = Target(d)
    BY <2>2 DEF Target
  <2>4. ReadIsCurrent(d)
    BY <1>3 DEF Unraced
  <2>5. task' = task /\ row' = row
    BY DEF schedulerVars
  <2>6. Committed(d)' =>
       /\ call'[d].read[Target(d)'] = row'[Target(d)'] /\ row'[Target(d)'] # Absent
       /\ Request(d)'.action \in Creations =>
            task'[Target(d)'] = NoTask /\ Exists(row'[Target(d)'])
       /\ Request(d)'.action = "create_paused" => ~row'[Target(d)'].enabled
       /\ Request(d)'.action = "delete" => row'[Target(d)'] = Deleted
    BY <2>1, <2>2, <2>3, <2>4, <2>5 DEF ReadIsCurrent
  <2>7. (At(d, "replacing") \/ At(d, "retryReplacing"))' => call'[d].read = row'
    BY <2>1, <2>4, <2>5 DEF ReadIsCurrent, At
  <2>8. QED
    BY <2>1, <2>3, <2>6, <2>7 DEF ReadIsCurrent
<1>8. ReadIsCurrent(c)'
  BY <1>6 DEF ReadIsCurrent, Scheduling
<1>9. ASSUME NEW r \in Routines, TaskIsCurrent(r) \/ \E d \in Clients : Committed(d) /\ Target(d) = r
      PROVE  (TaskIsCurrent(r) \/ \E d \in Clients : Committed(d) /\ Target(d) = r)'
  <2>1. CASE TaskIsCurrent(r)
    BY <2>1 DEF TaskIsCurrent, schedulerVars
  <2>2. ASSUME NEW d \in Clients, Committed(d), Target(d) = r
        PROVE  (\E e \in Clients : Committed(e) /\ Target(e) = r)'
    BY <1>6, <1>7, <2>2
  <2>3. QED
    BY <1>9, <2>1, <2>2
<1>10. stray' = {} /\ (\A r \in Routines : row'[r] = Absent => task'[r] = NoTask)
       /\ (boot' # "up" => \A r \in Routines : task'[r] = NoTask)
       /\ (boot' = "listed" => rows' = row')
  BY <1>3 DEF Unraced, schedulerVars
<1>11. boot' = "up" /\ drift' = "none" =>
       /\ started'
       /\ \A r \in Routines :
            (TaskIsCurrent(r) \/ \E d \in Clients : Committed(d) /\ Target(d) = r)'
  BY <1>3, <1>9 DEF Unraced, schedulerVars
<1>12. QED
  BY <1>5, <1>7, <1>8, <1>10, <1>11 DEF Unraced

LEMMA QuietSteps ==
  ASSUME TInv, NEW c \in Clients, Step(c), ~Schedule(c), ~ListRoutines(c), ~Mutate(c),
         ~Reconcile(c), ~ReconcileFails(c)
  PROVE  RowTypes' /\ (drift' # "raced" => Unraced')
<1>1. IInv /\ RowTypes
  BY DEF TInv
<1>2. ASSUME NEW k \in Keys, NEW q \in Requests, Begin(c, k, q)
      PROVE  /\ ~Scheduling(c) /\ ~Scheduling(c)' /\ call'[c].read \in Rows
             /\ UNCHANGED <<schedulerVars, row, boot, rows, drift>>
  <2>1. PICK p : p \in {"claimed", "retrying"} /\ call' = [call EXCEPT ![c] = Frame(p, k, NoRows)]
    BY <1>2 DEF Begin
  <2>2. Pc(c)' = p /\ call'[c].read = NoRows
    BY <1>1, <2>1, Moved
  <2>3. NoRows \in Rows
    BY DEF NoRows, Rows
  <2>4. ~Scheduling(c)
    BY <1>2 DEF Begin, Scheduling, At
  <2>5. UNCHANGED <<schedulerVars, row, boot, rows, drift>>
    BY <1>2 DEF Begin
  <2>6. QED
    BY <2>1, <2>2, <2>3, <2>4, <2>5 DEF Scheduling, At, Pc
<1>3. ASSUME \/ Settle(c) \/ RunNow(c) \/ QueueRun(c) \/ MarkFired(c) \/ Complete(c)
             \/ RunJobOperation(c) \/ AuditJobOperation(c) \/ Fail(c) \/ FailAudit(c)
             \/ MarkReconciliationPending(c) \/ MarkAudit(c) \/ DbError(c)
      PROVE  /\ ~Scheduling(c) /\ UNCHANGED <<schedulerVars, row, boot, rows, drift>>
             /\ Return(c) \/ \E p \in Points \ {"replacing", "retryReplacing", "committed"} : Goto(c, p)
  <2>1. CASE Settle(c) \/ RunNow(c) \/ QueueRun(c)
    BY <2>1 DEF Settle, RunNow, QueueRun, Scheduling, At, Points
  <2>2. CASE MarkFired(c) \/ Complete(c) \/ RunJobOperation(c) \/ AuditJobOperation(c)
    BY <2>2 DEF MarkFired, Complete, RunJobOperation, AuditJobOperation, Scheduling, At, Points
  <2>3. CASE Fail(c) \/ FailAudit(c) \/ MarkReconciliationPending(c) \/ MarkAudit(c)
    BY <2>3 DEF Fail, FailAudit, MarkReconciliationPending, MarkAudit, Scheduling, At, Points
  <2>4. CASE DbError(c)
    BY <2>4 DEF DbError, Scheduling, At, Points
  <2>5. QED
    BY <1>3, <2>1, <2>2, <2>3, <2>4
<1>4. QED
  BY <1>1, <1>2, <1>3, Leaves, QuietKeeps DEF Step

-----------------------------------------------------------------------------
(* The scheduler's operators, one routine at a time.                       *)

TaskOf(x) == IF WantsTask(x) THEN [cron |-> x.cron, ticks |-> TRUE] ELSE NoTask

LEMMA Wanted ==
  ASSUME NEW x \in Row \cup {Absent, Deleted}, WantsTask(x)
  PROVE  x \in Row /\ x.cron \in Crons
  BY DEF WantsTask, Exists, Row

LEMMA TasksOfAt ==
  ASSUME NEW rs \in Rows
  PROVE  /\ TasksOf(rs) \in [Routines -> Task]
         /\ \A r \in Routines : TasksOf(rs)[r] = TaskOf(rs[r])
<1>1. \A r \in Routines : rs[r] \in Row \cup {Absent, Deleted}
  BY DEF Rows
<1>2. \A r \in Routines : TaskOf(rs[r]) \in Task
  BY <1>1, Wanted DEF TaskOf, Task
<1>3. TasksOf(rs) = [r \in Routines |-> TaskOf(rs[r])]
  BY DEF TasksOf, TaskOf
<1>4. QED
  BY <1>2, <1>3

LEMMA TicksOfRecord ==
  ASSUME NEW x \in [cron : Crons, ticks : BOOLEAN], NEW b
  PROVE  [x EXCEPT !.ticks = b] = [cron |-> x.cron, ticks |-> b]
  OBVIOUS

LEMMA TickingAt ==
  ASSUME NEW ts \in [Routines -> Task]
  PROVE  /\ AllTicking(ts) \in [Routines -> Task]
         /\ \A r \in Routines :
              AllTicking(ts)[r] = IF ts[r] = NoTask THEN NoTask
                                  ELSE [cron |-> ts[r].cron, ticks |-> TRUE]
<1>1. ASSUME NEW r \in Routines
      PROVE  /\ AllTicking(ts)[r] = IF ts[r] = NoTask THEN NoTask
                                    ELSE [cron |-> ts[r].cron, ticks |-> TRUE]
             /\ AllTicking(ts)[r] \in Task
  <2>1. CASE ts[r] = NoTask
    BY <2>1 DEF AllTicking, Task
  <2>2. CASE ts[r] # NoTask
    <3>1. ts[r] \in [cron : Crons, ticks : BOOLEAN]
      BY <2>2 DEF Task
    <3>2. [ts[r] EXCEPT !.ticks = TRUE] = [cron |-> ts[r].cron, ticks |-> TRUE]
      BY <3>1, TicksOfRecord
    <3>3. QED
      BY <2>2, <3>1, <3>2 DEF AllTicking, Task
  <2>3. QED
    BY <2>1, <2>2
<1>2. AllTicking(ts) = [r \in Routines |-> AllTicking(ts)[r]]
  BY DEF AllTicking
<1>3. QED
  BY <1>1, <1>2

LEMMA RegisteredAt ==
  ASSUME NEW ts \in [Routines -> Task], NEW t \in Routines, NEW b \in BOOLEAN,
         NEW x \in Row \cup {Absent, Deleted}
  PROVE  /\ Registered(ts, t, x, b) \in [Routines -> Task]
         /\ \A r \in Routines :
              Registered(ts, t, x, b)[r] =
                IF r = t /\ WantsTask(x) THEN [cron |-> x.cron, ticks |-> b] ELSE ts[r]
<1>1. CASE WantsTask(x)
  <2>1. Registered(ts, t, x, b) = [ts EXCEPT ![t] = [cron |-> x.cron, ticks |-> b]]
    BY <1>1 DEF Registered
  <2>2. [cron |-> x.cron, ticks |-> b] \in Task
    BY <1>1, Wanted DEF Task
  <2>3. QED
    BY <1>1, <2>1, <2>2
<1>2. CASE ~WantsTask(x)
  BY <1>2 DEF Registered
<1>3. QED
  BY <1>1, <1>2

-----------------------------------------------------------------------------
(* The calls between rows and tasks.                                       *)

\* Without a race the one that schedules is alone, in a process that is up.
LEMMA SchedulesAlone ==
  ASSUME TInv, drift # "raced", NEW c \in Clients, Step(c), boot' = boot,
         Scheduling(c) \/ (Scheduling(c)' /\ ~Overlap')
  PROVE  /\ boot = "up"
         /\ \A d \in Clients \ {c} : ~Scheduling(d) /\ ~Scheduling(d)'
<1>1. Unraced /\ IInv /\ RequestsKnown
  BY DEF TInv, RowTypes
<1>2. CASE Scheduling(c)
  BY <1>1, <1>2, OthersStay DEF Unraced, Overlap
<1>3. CASE Scheduling(c)' /\ ~Overlap'
  BY <1>1, <1>3, OthersStay DEF Overlap
<1>4. QED
  BY <1>2, <1>3

\* When it is done with the tasks, no call is left between rows and tasks.
LEMMA ScheduledKeeps ==
  ASSUME TInv, drift # "raced", NEW c \in Clients, Step(c), Scheduling(c), ~Scheduling(c)',
         UNCHANGED <<row, boot, rows>>, stray' = {},
         \A r \in Routines : row[r] = Absent => task'[r] = NoTask,
         drift' = "none" => started' /\ \A r \in Routines : task'[r] = TaskOf(row[r])
  PROVE  Unraced'
<1>1. boot = "up" /\ \A d \in Clients : ~Scheduling(d)'
  BY SchedulesAlone
<1>2. ~Overlap'
  BY <1>1 DEF Overlap
<1>3. \A d \in Clients : ReadIsCurrent(d)'
  <2>1. SUFFICES ASSUME NEW d \in Clients PROVE ReadIsCurrent(d)'
    OBVIOUS
  <2>2. ~Scheduling(d)'
    BY <1>1
  <2>3. QED
    BY <2>2 DEF ReadIsCurrent, Scheduling, Committed
<1>4. row \in Rows /\ row' = row
  BY DEF TInv, RowTypes
<1>5. drift' = "none" => started' /\ \A r \in Routines : TaskIsCurrent(r)'
  BY <1>4, TasksOfAt DEF TaskIsCurrent
<1>6. QED
  BY <1>1, <1>2, <1>3, <1>4, <1>5 DEF Unraced

LEMMA ReconcileKeepsTasks ==
  ASSUME TInv, NEW c \in Clients, Step(c), Reconcile(c)
  PROVE  RowTypes' /\ (drift' # "raced" => Unraced')
<1>1. IInv /\ RowTypes
  BY DEF TInv
<1>2. /\ Scheduling(c) /\ (At(c, "replacing") \/ At(c, "retryReplacing"))
      /\ \E p \in Points \ {"replacing", "retryReplacing", "committed"} : Goto(c, p)
      /\ UNCHANGED <<row, boot, rows, stray>>
      /\ task' = TasksOf(call[c].read) /\ started' = TRUE
      /\ drift' = IF drift = "owed" THEN "none" ELSE drift
  BY DEF Reconcile, Scheduling, At, Points, ReplaceAll
<1>3. ~Scheduling(c)' /\ call'[c].read \in Rows
  BY <1>1, <1>2, Leaves
<1>4. call[c].read \in Rows
  BY <1>1 DEF RowTypes
<1>5. task' \in [Routines -> Task] /\ \A r \in Routines : task'[r] = TaskOf(call[c].read[r])
  BY <1>2, <1>4, TasksOfAt
<1>6. RowTypes'
  BY <1>1, <1>2, <1>3, <1>5, TypesKeep DEF RowTypes
<1>7. ASSUME drift # "raced" PROVE Unraced'
  <2>1. call[c].read = row /\ stray = {}
    BY <1>2, <1>7 DEF TInv, Unraced, ReadIsCurrent
  <2>2. \A r \in Routines : row[r] = Absent => task'[r] = NoTask
    BY <1>5, <2>1, RowsDiffer DEF TaskOf, WantsTask
  <2>3. drift' = "none" => started' /\ \A r \in Routines : task'[r] = TaskOf(row[r])
    BY <1>2, <1>5, <2>1
  <2>4. UNCHANGED <<row, boot, rows>> /\ stray' = {} /\ Scheduling(c)
    BY <1>2, <2>1
  <2>5. QED
    BY <1>3, <1>7, <2>2, <2>3, <2>4, ScheduledKeeps
<1>8. QED
  BY <1>2, <1>6, <1>7

LEMMA ReconcileFailsKeepsTasks ==
  ASSUME TInv, NEW c \in Clients, Step(c), ReconcileFails(c)
  PROVE  RowTypes' /\ (drift' # "raced" => Unraced')
<1>1. IInv /\ RowTypes
  BY DEF TInv
<1>2. /\ Scheduling(c)
      /\ Return(c) \/ \E p \in Points \ {"replacing", "retryReplacing", "committed"} : Goto(c, p)
      /\ UNCHANGED <<row, boot, rows, stray>>
      /\ started' = FALSE
      /\ drift' = IF drift = "raced" THEN "raced" ELSE "owed"
  BY DEF ReconcileFails, Scheduling, At, Points, ReplaceAllFails, NoteFailure
<1>3. ~Scheduling(c)' /\ call'[c].read \in Rows
  BY <1>1, <1>2, Leaves
<1>4. PICK S \in SUBSET {r \in Routines : task[r] # NoTask} :
        task' = [r \in Routines |-> IF r \in S THEN [task[r] EXCEPT !.ticks = FALSE] ELSE task[r]]
  BY DEF ReconcileFails, ReplaceAllFails
<1>5. ASSUME NEW r \in Routines
      PROVE  task'[r] \in Task /\ (task[r] = NoTask => task'[r] = NoTask)
  <2>1. task[r] \in Task
    BY <1>1 DEF RowTypes
  <2>2. CASE r \in S
    <3>1. task[r] \in [cron : Crons, ticks : BOOLEAN] /\ task[r] # NoTask
      BY <2>1, <2>2 DEF Task
    <3>2. [task[r] EXCEPT !.ticks = FALSE] \in Task
      BY <3>1 DEF Task
    <3>3. QED
      BY <1>4, <2>2, <3>1, <3>2
  <2>3. CASE r \notin S
    BY <1>4, <2>1, <2>3
  <2>4. QED
    BY <2>2, <2>3
<1>6. RowTypes'
  <2>1. task' \in [Routines -> Task]
    BY <1>4, <1>5
  <2>2. QED
    BY <1>1, <1>2, <1>3, <2>1, TypesKeep DEF RowTypes
<1>7. ASSUME drift # "raced" PROVE Unraced'
  <2>1. stray = {} /\ \A r \in Routines : row[r] = Absent => task'[r] = NoTask
    BY <1>5, <1>7 DEF TInv, Unraced
  <2>2. QED
    BY <1>2, <1>3, <1>7, <2>1, ScheduledKeeps
<1>8. QED
  BY <1>2, <1>6, <1>7

LEMMA ScheduleKeepsTasks ==
  ASSUME TInv, NEW c \in Clients, Step(c), Schedule(c)
  PROVE  RowTypes' /\ (drift' # "raced" => Unraced')
<1> DEFINE t == Target(c)
           x == call[c].read[t]
           a == Request(c).action
<1>1. IInv /\ RowTypes /\ RequestsKnown
  BY DEF TInv, RowTypes
<1>2. /\ Committed(c) /\ Scheduling(c) /\ UNCHANGED <<row, boot, rows>>
      /\ \E p \in Points \ {"replacing", "retryReplacing", "committed"} : Goto(c, p)
  BY DEF Schedule, Scheduling, Committed, At, Points
<1>3. ~Scheduling(c)' /\ call'[c].read \in Rows
  BY <1>1, <1>2, Leaves
<1>4. t \in Routines /\ x \in Row \cup {Absent, Deleted}
  <2>1. Request(c) \in Requests /\ Pc(c) # "idle"
    BY <1>1, <1>2, RequestOf DEF Committed, At, Pc
  <2>2. Request(c) \in [action : Actions, routine : Routines, cron : Crons]
    BY <2>1, RequestAssumption
  <2>3. t \in Routines
    BY <2>2 DEF Target
  <2>4. call[c].read \in Rows
    BY <1>1 DEF RowTypes
  <2>5. QED
    BY <2>3, <2>4 DEF Rows
<1>5. task \in [Routines -> Task] /\ started \in BOOLEAN /\ row \in Rows
  BY <1>1 DEF RowTypes
<1> HIDE DEF t, x, a
<1>6. ASSUME drift # "raced"
      PROVE  /\ x = row[t] /\ row[t] # Absent /\ stray = {} /\ boot = "up"
             /\ a \in Creations => task[t] = NoTask
             /\ a = "create_paused" => ~x.enabled
             /\ a = "delete" => x = Deleted
             /\ \A r \in Routines : row[r] = Absent => task[r] = NoTask
             /\ drift = "none" => started /\ \A r \in Routines \ {t} : task[r] = TaskOf(row[r])
  <2>1. Unraced
    BY <1>6 DEF TInv
  <2>2. boot = "up" /\ \A d \in Clients \ {c} : ~Scheduling(d)
    BY <1>2, <1>6, SchedulesAlone
  <2>3. ReadIsCurrent(c)
    BY <2>1 DEF Unraced
  <2>4. x = row[t] /\ row[t] # Absent /\ (a \in Creations => task[t] = NoTask)
    BY <1>2, <2>3 DEF ReadIsCurrent, t, x, a
  <2>5. (a = "create_paused" => ~row[t].enabled) /\ (a = "delete" => row[t] = Deleted)
    BY <1>2, <2>3 DEF ReadIsCurrent, t, a
  <2>6. ASSUME drift = "none", NEW r \in Routines \ {t} PROVE task[r] = TaskOf(row[r])
    <3>1. TaskIsCurrent(r) \/ \E d \in Clients : Committed(d) /\ Target(d) = r
      BY <2>1, <2>2, <2>6 DEF Unraced
    <3>2. ASSUME NEW d \in Clients, Committed(d), Target(d) = r PROVE FALSE
      BY <2>2, <2>6, <3>2 DEF Committed, Scheduling, t
    <3>3. TaskIsCurrent(r)
      BY <3>1, <3>2
    <3>4. QED
      BY <1>5, <3>3, TasksOfAt DEF TaskIsCurrent
  <2>7. QED
    BY <2>1, <2>2, <2>4, <2>5, <2>6 DEF Unraced
<1>7. CASE UNCHANGED schedulerVars /\ NoteFailure
  <2>1. drift' = (IF drift = "raced" THEN "raced" ELSE "owed") /\ task' = task /\ stray' = stray
        /\ started' = started
    BY <1>7 DEF NoteFailure, schedulerVars
  <2>2. RowTypes'
    BY <1>1, <1>2, <1>3, <2>1, TypesKeep DEF RowTypes
  <2>3. QED
    BY <1>2, <1>3, <1>6, <2>1, <2>2, ScheduledKeeps
<1>8. CASE /\ UNCHANGED drift
           /\ CASE a = "create" -> Register(t, x)
                [] a = "create_paused" -> UNCHANGED schedulerVars
                [] a = "delete" -> Unschedule(t)
                [] OTHER -> Reschedule(t, x)
  \* What the three ways to schedule leave, and when the task is the row's.
  <2>1. /\ task' \in [Routines -> Task] /\ started' \in BOOLEAN
        /\ drift # "raced" =>
             /\ stray' = {}
             /\ \A r \in Routines \ {t} : task[r] = NoTask => task'[r] = NoTask
             /\ drift = "none" => started' /\ task'[t] = TaskOf(x)
                                  /\ \A r \in Routines \ {t} : task'[r] = task[r]
    <3>1. CASE a = "create"
      <4>1. Register(t, x)
        BY <1>8, <3>1
      <4>2. PICK ts \in [Routines -> Task] :
              /\ ts = Registered(task, t, x, started)
              /\ \A r \in Routines :
                   ts[r] = IF r = t /\ WantsTask(x) THEN [cron |-> x.cron, ticks |-> started]
                           ELSE task[r]
        BY <1>4, <1>5, RegisteredAt
      <4>3. /\ task' = AllTicking(ts) /\ started' = TRUE
            /\ stray' = stray \cup Unstopped(task, t, x)
        BY <4>1, <4>2 DEF Register
      <4>4. /\ task' \in [Routines -> Task]
            /\ \A r \in Routines :
                 task'[r] = IF ts[r] = NoTask THEN NoTask
                            ELSE [cron |-> ts[r].cron, ticks |-> TRUE]
        BY <4>2, <4>3, TickingAt
      <4>5. \A r \in Routines \ {t} : task[r] = NoTask => task'[r] = NoTask
        BY <4>2, <4>4
      <4>6. ASSUME drift # "raced" PROVE stray' = {}
        <5>1. ~task[t].ticks
          BY <1>6, <4>6, <3>1 DEF Creations, NoTask
        <5>2. QED
          BY <1>6, <4>3, <4>6, <5>1 DEF Unstopped
      <4>7. ASSUME drift = "none" PROVE task'[t] = TaskOf(x)
        <5>1. CASE WantsTask(x)
          <6>1. ts[t] = [cron |-> x.cron, ticks |-> started] /\ started = TRUE
            BY <1>4, <1>5, <1>6, <4>2, <4>7, <5>1
          <6>2. ts[t].ticks = TRUE /\ ts[t].cron = x.cron
            BY <6>1
          <6>3. ts[t] # NoTask
            BY <6>2 DEF NoTask
          <6>4. QED
            BY <1>4, <4>4, <5>1, <6>2, <6>3 DEF TaskOf
        <5>2. CASE ~WantsTask(x)
          BY <1>4, <1>6, <3>1, <4>2, <4>4, <4>7, <5>2 DEF TaskOf, Creations
        <5>3. QED
          BY <5>1, <5>2
      <4>8. ASSUME drift = "none", NEW r \in Routines \ {t} PROVE task'[r] = task[r]
        <5>1. task[r] = TaskOf(row[r])
          BY <1>6, <4>8
        <5>2. task[r] = NoTask \/ task[r] = [cron |-> row[r].cron, ticks |-> TRUE]
          BY <5>1 DEF TaskOf
        <5>3. task'[r] = IF task[r] = NoTask THEN NoTask ELSE [cron |-> task[r].cron, ticks |-> TRUE]
          BY <4>2, <4>4
        <5>4. PICK y : y = [cron |-> row[r].cron, ticks |-> TRUE]
          OBVIOUS
        <5>5. y = [cron |-> y.cron, ticks |-> TRUE]
          BY <5>4
        <5>6. QED
          BY <5>2, <5>3, <5>4, <5>5
      <4>9. QED
        BY <4>3, <4>4, <4>5, <4>6, <4>7, <4>8
    <3>2. CASE a = "create_paused"
      <4>1. task' = task /\ stray' = stray /\ started' = started
        BY <1>8, <3>2 DEF schedulerVars
      <4>2. ASSUME drift = "none" PROVE task'[t] = TaskOf(x)
        BY <1>6, <3>2, <4>1, <4>2 DEF TaskOf, WantsTask, Creations
      <4>3. QED
        BY <1>5, <1>6, <4>1, <4>2
    <3>3. CASE a = "delete"
      <4>1. task' = [task EXCEPT ![t] = NoTask] /\ stray' = stray /\ started' = started
        BY <1>8, <3>3 DEF Unschedule
      <4>2. NoTask \in Task
        BY DEF Task
      <4>3. ASSUME drift = "none" PROVE task'[t] = TaskOf(x)
        BY <1>4, <1>5, <1>6, <3>3, <4>1, <4>3, RowsDiffer DEF TaskOf, WantsTask
      <4>4. QED
        BY <1>4, <1>5, <1>6, <4>1, <4>2, <4>3
    <3>4. CASE a \notin {"create", "create_paused", "delete"}
      <4>1. Reschedule(t, x)
        BY <1>8, <3>4
      <4>2. PICK ts \in [Routines -> Task] : ts = [task EXCEPT ![t] = NoTask]
        BY <1>5 DEF Task
      <4>3. task' = Registered(ts, t, x, started) /\ stray' = stray /\ started' = started
        BY <4>1, <4>2 DEF Reschedule
      <4>4. /\ task' \in [Routines -> Task]
            /\ \A r \in Routines :
                 task'[r] = IF r = t /\ WantsTask(x) THEN [cron |-> x.cron, ticks |-> started]
                            ELSE ts[r]
        <5>1. /\ Registered(ts, t, x, started) \in [Routines -> Task]
              /\ \A r \in Routines :
                   Registered(ts, t, x, started)[r] =
                     IF r = t /\ WantsTask(x) THEN [cron |-> x.cron, ticks |-> started] ELSE ts[r]
          BY <1>4, <1>5, RegisteredAt
        <5>2. QED
          BY <4>3, <5>1
      <4>5. \A r \in Routines \ {t} : task'[r] = task[r]
        BY <1>5, <4>2, <4>4
      <4>6. ASSUME drift = "none" PROVE task'[t] = TaskOf(x)
        <5>1. ts[t] = NoTask
          BY <1>4, <1>5, <4>2
        <5>2. started = TRUE
          BY <1>5, <1>6, <4>6
        <5>3. QED
          BY <1>4, <4>4, <5>1, <5>2 DEF TaskOf
      <4>7. QED
        BY <1>5, <1>6, <4>3, <4>4, <4>5, <4>6
    <3>5. QED
      BY <3>1, <3>2, <3>3, <3>4
  <2>2. RowTypes'
    BY <1>1, <1>2, <1>3, <1>8, <2>1, TypesKeep DEF RowTypes
  <2>3. ASSUME drift # "raced"
        PROVE  /\ \A r \in Routines : row[r] = Absent => task'[r] = NoTask
               /\ drift' = "none" => started' /\ \A r \in Routines : task'[r] = TaskOf(row[r])
    BY <1>6, <1>8, <2>1, <2>3
  <2>4. QED
    BY <1>2, <1>3, <1>8, <2>1, <2>2, <2>3, ScheduledKeeps
<1>9. QED
  BY <1>7, <1>8 DEF Schedule, t, x, a

LEMMA ListKeepsTasks ==
  ASSUME TInv, NEW c \in Clients, Step(c), ListRoutines(c)
  PROVE  RowTypes' /\ (drift' # "raced" => Unraced')
<1>1. IInv /\ RowTypes /\ RequestsKnown
  BY DEF TInv, RowTypes
<1>2. /\ ~Scheduling(c) /\ UNCHANGED <<schedulerVars, row, boot, rows>>
      /\ NoteOverlap
  BY DEF ListRoutines, Scheduling, At
<1>3. PICK p : /\ p \in {"replacing", "retryReplacing"}
               /\ call' = [call EXCEPT ![c] = Frame(p, Key(c), row)]
  BY DEF ListRoutines, At, Key
<1>4. Pc(c)' = p /\ call'[c].read = row
  BY <1>1, <1>3, Moved
<1>5. Scheduling(c)' /\ ~Committed(c)'
  BY <1>3, <1>4 DEF Scheduling, Committed, At, Pc
<1>6. drift' = (IF Overlap' THEN "raced" ELSE drift)
  BY <1>2 DEF NoteOverlap
<1>7. RowTypes'
  BY <1>1, <1>2, <1>4, <1>6, TypesKeep DEF RowTypes, schedulerVars
<1>8. ASSUME drift' # "raced" PROVE Unraced'
  <2>1. drift # "raced" /\ drift' = drift /\ ~Overlap' /\ Unraced
    BY <1>6, <1>8 DEF TInv
  <2>2. /\ boot = "up"
        /\ \A d \in Clients \ {c} : ~Scheduling(d) /\ ~Scheduling(d)'
    BY <1>2, <1>5, <2>1, SchedulesAlone
  <2>3. \A d \in Clients : ~Committed(d)
    BY <1>2, <2>2 DEF Committed, Scheduling
  <2>4. \A d \in Clients : ReadIsCurrent(d)'
    <3>1. SUFFICES ASSUME NEW d \in Clients PROVE ReadIsCurrent(d)'
      OBVIOUS
    <3>2. CASE d = c
      BY <1>2, <1>4, <1>5, <3>2 DEF ReadIsCurrent
    <3>3. CASE d # c
      BY <2>2, <3>3 DEF ReadIsCurrent, Scheduling, Committed
    <3>4. QED
      BY <3>2, <3>3
  <2>5. drift = "none" => \A r \in Routines : TaskIsCurrent(r)'
    BY <1>2, <2>1, <2>2, <2>3 DEF Unraced, TaskIsCurrent, schedulerVars
  <2>6. QED
    BY <1>2, <2>1, <2>2, <2>4, <2>5 DEF Unraced, schedulerVars
<1>9. QED
  BY <1>7, <1>8

\* The row a request leaves is one, and the one the request asks for.
LEMMA AfterIsARow ==
  ASSUME NEW q \in Requests, NEW old \in Row \cup {Absent, Deleted},
         q.action # "job", IF q.action \in Creations THEN old = Absent ELSE Exists(old)
  PROVE  /\ q.routine \in Routines
         /\ After(old, q) \in Row \cup {Deleted}
         /\ q.action = "run" => After(old, q) = old
         /\ q.action \in Creations => After(old, q) \in Row
         /\ q.action = "create_paused" => ~After(old, q).enabled
         /\ q.action = "delete" => After(old, q) = Deleted
<1>1. q.action \in Actions /\ q.routine \in Routines /\ q.cron \in Crons
  BY RequestAssumption
<1>2. q.action \notin Creations => old \in Row
  BY DEF Exists
<1>3. CASE q.action = "create"
  BY <1>1, <1>3 DEF After, Row
<1>4. CASE q.action = "create_paused"
  BY <1>1, <1>4 DEF After, Row
<1>5. CASE q.action \in {"pause", "resume", "update"}
  <2>1. old \in Row
    BY <1>2, <1>5 DEF Creations
  <2>2. /\ [old EXCEPT !.enabled = FALSE] \in Row
        /\ [old EXCEPT !.enabled = TRUE] \in Row
        /\ [old EXCEPT !.cron = q.cron] \in Row
    BY <1>1, <2>1 DEF Row
  <2>3. After(old, q) \in Row
    BY <1>5, <2>2 DEF After
  <2>4. QED
    BY <1>1, <1>5, <2>3 DEF Creations
<1>6. CASE q.action = "delete"
  BY <1>1, <1>6 DEF After, Creations
<1>7. CASE q.action = "run"
  <2>1. After(old, q) = old /\ old \in Row
    BY <1>2, <1>7 DEF After, Creations
  <2>2. QED
    BY <1>1, <1>7, <2>1 DEF Creations
<1>8. QED
  BY <1>1, <1>3, <1>4, <1>5, <1>6, <1>7 DEF Actions

LEMMA MutateKeepsTasks ==
  ASSUME TInv, NEW c \in Clients, Step(c), Mutate(c)
  PROVE  RowTypes' /\ (drift' # "raced" => Unraced')
<1> DEFINE q == Request(c)
           t == Target(c)
           new == After(row[t], q)
<1>1. IInv /\ RowTypes /\ RequestsKnown
  BY DEF TInv, RowTypes
<1>2. /\ Pc(c) = "claimed" /\ ~Scheduling(c) /\ q.action # "job" /\ Request(c)' = op'[Key(c)'].request
      /\ UNCHANGED <<op, schedulerVars, boot, rows>>
      /\ drift' = (IF Overlap' THEN "raced" ELSE drift)
  BY DEF Mutate, Scheduling, At, Pc, IsJob, NoteOverlap, Request, Key
<1>3. q \in Requests /\ t = q.routine
  BY <1>1, <1>2, RequestOf DEF Target
<1>4. t \in Routines /\ row[t] \in Row \cup {Absent, Deleted} /\ row \in Rows
  <2>1. t \in Routines
    BY <1>3, RequestAssumption
  <2>2. QED
    BY <1>1, <2>1 DEF RowTypes, Rows
<1>5. drift' # "raced" => drift # "raced" /\ drift' = drift /\ ~Overlap'
  BY <1>2
<1>6. CASE Goto(c, "failing") /\ UNCHANGED row
  <2>1. ~Scheduling(c)' /\ call'[c].read \in Rows
    BY <1>1, <1>6, Leaves DEF Points
  <2>2. CASE drift' = drift
    BY <1>2, <1>6, <2>1, <2>2, QuietKeeps
  <2>3. CASE drift' = "raced"
    BY <1>1, <1>2, <1>6, <2>1, <2>3, TypesKeep DEF RowTypes, schedulerVars
  <2>4. QED
    BY <1>2, <2>2, <2>3
<1>7. CASE /\ Applicable(q)
           /\ row' = [row EXCEPT ![t] = new]
           /\ call' = [call EXCEPT ![c] = Frame("committed", Key(c), [NoRows EXCEPT ![t] = new])]
  <2>1. IF q.action \in Creations THEN row[t] = Absent ELSE Exists(row[t])
    BY <1>3, <1>7 DEF Applicable
  <2>2. /\ new \in Row \cup {Deleted}
        /\ q.action = "run" => new = row[t]
        /\ q.action \in Creations => new \in Row
        /\ q.action = "create_paused" => ~new.enabled
        /\ q.action = "delete" => new = Deleted
    BY <1>2, <1>3, <1>4, <2>1, AfterIsARow
  <2> HIDE DEF new
  <2>3. PICK x : x = [NoRows EXCEPT ![t] = new]
    OBVIOUS
  <2>4. x \in Rows /\ x[t] = new /\ row' \in Rows /\ row'[t] = new
        /\ \A r \in Routines \ {t} : row'[r] = row[r]
    BY <1>4, <1>7, <2>2, <2>3 DEF NoRows, Rows
  <2>5. call'[c] = Frame("committed", Key(c), x) /\ Pc(c)' = "committed" /\ Key(c)' = Key(c)
        /\ call'[c].read = x
    BY <1>1, <1>7, <2>3, Moved
  <2>6. Request(c)' = q /\ Target(c)' = t
    <3>1. op' = op
      BY <1>2
    <3>2. Request(c)' = Request(c)
      BY <2>5, <3>1 DEF Request, Key
    <3>3. QED
      BY <3>2 DEF Target
  <2>7. RowTypes'
    BY <1>1, <1>2, <2>4, <2>5, TypesKeep DEF RowTypes, schedulerVars
  <2>8. CASE q.action = "run"
    <3>1. row' = row
      BY <1>4, <1>7, <2>2, <2>8 DEF Rows
    <3>2. ~Scheduling(c)'
      BY <2>5, <2>6, <2>8 DEF Scheduling, At, Pc
    <3>3. drift' # "raced" => UNCHANGED <<schedulerVars, row, boot, rows, drift>>
      BY <1>2, <1>5, <3>1
    <3>4. call'[c].read \in Rows
      BY <2>4, <2>5
    <3>5. QED
      BY <1>2, <2>7, <3>2, <3>3, <3>4, QuietKeeps
  <2>9. CASE q.action # "run"
    <3>1. Scheduling(c)' /\ Committed(c)'
      BY <1>2, <2>5, <2>6, <2>9 DEF Scheduling, Committed, At, Pc
    <3>2. SUFFICES ASSUME drift' # "raced" PROVE Unraced'
      BY <2>7
    <3>3. drift # "raced" /\ drift' = drift /\ ~Overlap' /\ Unraced
      BY <1>5, <3>2 DEF TInv
    <3>4. /\ boot = "up"
          /\ \A d \in Clients \ {c} : ~Scheduling(d) /\ ~Scheduling(d)'
      BY <1>2, <3>1, <3>3, SchedulesAlone
    <3>5. \A d \in Clients : ~Committed(d)
      BY <1>2, <3>4 DEF Committed, Scheduling
    <3>6. task' = task /\ stray' = stray /\ started' = started /\ boot' = boot
      BY <1>2 DEF schedulerVars
    <3>7. ReadIsCurrent(c)'
      <4>1. x[t] = row'[t] /\ row'[t] # Absent
        BY <2>2, <2>4, RowsDiffer
      <4>2. q.action \in Creations => task'[t] = NoTask /\ Exists(row'[t])
        BY <1>4, <2>1, <2>2, <2>4, <3>3, <3>6, RowsDiffer DEF Unraced
      <4>3. (q.action = "create_paused" => ~row'[t].enabled) /\ (q.action = "delete" => row'[t] = Deleted)
        BY <2>2, <2>4
      <4>4. ~(At(c, "replacing") \/ At(c, "retryReplacing"))'
        BY <2>5 DEF At, Pc
      <4>5. QED
        BY <2>5, <2>6, <4>1, <4>2, <4>3, <4>4 DEF ReadIsCurrent
    <3>8. \A d \in Clients \ {c} : ReadIsCurrent(d)'
      BY <3>4 DEF ReadIsCurrent, Scheduling, Committed
    <3>9. \A r \in Routines : row'[r] = Absent => task'[r] = NoTask
      <4>1. row'[t] # Absent
        BY <2>2, <2>4, RowsDiffer
      <4>2. QED
        BY <2>4, <3>3, <3>6, <4>1 DEF Unraced
    <3>10. ASSUME drift' = "none", NEW r \in Routines
           PROVE  (TaskIsCurrent(r) \/ \E d \in Clients : Committed(d) /\ Target(d) = r)'
      <4>1. CASE r = t
        BY <2>6, <3>1, <4>1
      <4>2. CASE r # t
        <5>1. task[r] = TasksOf(row)[r]
          BY <3>3, <3>4, <3>5, <3>10 DEF Unraced, TaskIsCurrent
        <5>2. TasksOf(row)[r] = TaskOf(row[r]) /\ TasksOf(row')[r] = TaskOf(row'[r])
          BY <1>4, <2>4, TasksOfAt
        <5>3. row'[r] = row[r]
          BY <2>4, <4>2
        <5>4. QED
          BY <3>6, <5>1, <5>2, <5>3 DEF TaskIsCurrent
      <4>3. QED
        BY <4>1, <4>2
    <3>11. drift' = "none" => started'
      BY <3>3, <3>4, <3>6 DEF Unraced
    <3>12. stray' = {} /\ boot' = "up"
      BY <3>3, <3>4, <3>6 DEF Unraced
    <3>13. QED
      BY <3>3, <3>7, <3>8, <3>9, <3>10, <3>11, <3>12 DEF Unraced
  <2>10. QED
    BY <2>8, <2>9
<1>8. QED
  BY <1>6, <1>7 DEF Mutate, Key

-----------------------------------------------------------------------------
(* The process, and the invariant.                                         *)

LEMMA BootKeepsTasks ==
  ASSUME TInv, BootList \/ BootRegister
  PROVE  RowTypes' /\ (drift' # "raced" => Unraced')
<1>1. RowTypes /\ UNCHANGED <<op, row, call, drift>> /\ boot # "up"
  BY DEF TInv, BootList, BootRegister
<1>2. row \in Rows /\ rows \in Rows /\ NoRows \in Rows /\ task \in [Routines -> Task]
  BY <1>1 DEF RowTypes, NoRows, Rows
<1>3. \A d \in Clients : /\ Scheduling(d)' = Scheduling(d) /\ Committed(d)' = Committed(d)
                         /\ call'[d] = call[d]
  BY <1>1 DEF Scheduling, Committed, At, Request
<1>4. drift # "raced" =>
        /\ Unraced
        /\ \A d \in Clients : ~Scheduling(d)' /\ ~Committed(d)
  BY <1>1, <1>3 DEF TInv, Unraced, Overlap, Scheduling, Committed
<1>5. drift # "raced" => ~Overlap' /\ \A d \in Clients : ReadIsCurrent(d)'
  BY <1>4 DEF Overlap, ReadIsCurrent, Scheduling, Committed
<1>6. CASE BootList
  <2>1. boot' = "listed" /\ rows' = row /\ UNCHANGED <<task, stray, started>>
    BY <1>6 DEF BootList, schedulerVars
  <2>2. RowTypes'
    BY <1>1, <1>2, <2>1 DEF RowTypes, RequestsKnown
  <2>3. drift # "raced" => Unraced'
    BY <1>1, <1>4, <1>5, <2>1 DEF Unraced
  <2>4. QED
    BY <1>1, <2>2, <2>3
<1>7. CASE BootRegister
  <2>1. boot = "listed" /\ boot' = "up" /\ rows' = NoRows /\ RegisterAllAndStart(rows)
    BY <1>7 DEF BootRegister
  <2>2. /\ \A r \in Routines :
             task'[r] = IF WantsTask(rows[r]) THEN TaskOf(rows[r]) ELSE AllTicking(task)[r]
        /\ task' \in [Routines -> Task]
    <3>1. \A r \in Routines : TasksOf(rows)[r] = TaskOf(rows[r]) /\ TasksOf(rows)[r] \in Task
      BY <1>2, TasksOfAt
    <3>2. \A r \in Routines : AllTicking(task)[r] \in Task
      BY <1>2, TickingAt
    <3>3. task' = [r \in Routines |-> IF WantsTask(rows[r]) THEN TasksOf(rows)[r]
                                      ELSE AllTicking(task)[r]]
      BY <2>1 DEF RegisterAllAndStart
    <3>4. QED
      BY <3>1, <3>2, <3>3
  <2>3. started' = TRUE /\ stray' = stray \cup UNION {Unstopped(task, r, rows[r]) : r \in Routines}
    BY <2>1 DEF RegisterAllAndStart
  <2>4. RowTypes'
    BY <1>1, <1>2, <2>1, <2>2, <2>3 DEF RowTypes, RequestsKnown
  <2>5. ASSUME drift # "raced" PROVE Unraced'
    <3>1. rows = row /\ stray = {} /\ \A r \in Routines : task[r] = NoTask
      BY <1>1, <1>4, <2>1, <2>5 DEF Unraced
    <3>2. \A r \in Routines : task'[r] = TaskOf(row[r])
      BY <1>2, <2>2, <3>1, TickingAt DEF TaskOf
    <3>3. \A r \in Routines : ~task[r].ticks
      BY <3>1 DEF NoTask
    <3>4. \A r \in Routines : Unstopped(task, r, rows[r]) = {}
      BY <3>3 DEF Unstopped
    <3>5. stray' = {}
      BY <2>3, <3>1, <3>4
    <3>6. \A r \in Routines : row[r] = Absent => task'[r] = NoTask
      BY <3>2, RowsDiffer DEF TaskOf, WantsTask
    <3>7. \A r \in Routines : TaskIsCurrent(r)'
      BY <1>1, <1>2, <3>2, TasksOfAt DEF TaskIsCurrent
    <3>8. QED
      BY <1>1, <1>5, <2>1, <2>3, <2>5, <3>5, <3>6, <3>7 DEF Unraced
  <2>6. QED
    BY <1>1, <2>4, <2>5
<1>8. QED
  BY <1>6, <1>7

\* The tasks go with the process, and the rows are all that is left.
NewProcess ==
  /\ task = [r \in Routines |-> NoTask] /\ stray = {} /\ started = FALSE
  /\ boot = "starting" /\ rows = NoRows /\ row \in Rows
  /\ call = [c \in Clients |-> Idle]
  /\ drift = "none" /\ RequestsKnown

LEMMA NoTasksYet == NewProcess => RowTypes /\ Unraced
<1> SUFFICES ASSUME NewProcess PROVE RowTypes /\ Unraced
  OBVIOUS
<1> USE DEF NewProcess
<1>1. \A c \in Clients : Pc(c) = "idle" /\ call[c].read = NoRows
  BY DEF Pc, Idle, Frame
<1>2. \A c \in Clients : ~Scheduling(c) /\ ~Committed(c) /\ ReadIsCurrent(c)
  BY <1>1 DEF Scheduling, Committed, ReadIsCurrent, At, Pc
<1>3. NoRows \in Rows /\ task \in [Routines -> Task]
  BY DEF NoRows, Rows, Task
<1>4. RowTypes
  BY <1>1, <1>3 DEF RowTypes
<1>5. Unraced
  BY <1>2 DEF Unraced, Overlap
<1>6. QED
  BY <1>4, <1>5

LEMMA StepKeepsTasks ==
  ASSUME TInv, NEW c \in Clients, Step(c)
  PROVE  TInv'
<1>1. IInv'
  BY CallKeeps DEF TInv
<1>2. RowTypes' /\ (drift' # "raced" => Unraced')
  BY QuietSteps, MutateKeepsTasks, ScheduleKeepsTasks, ListKeepsTasks, ReconcileKeepsTasks,
     ReconcileFailsKeepsTasks
<1>3. QED
  BY <1>1, <1>2 DEF TInv

LEMMA CrashKeepsTasks ==
  ASSUME TInv, Crash
  PROVE  TInv'
<1>1. IInv'
  BY CrashKeeps DEF TInv
<1>2. (NewProcess => RowTypes /\ Unraced)'
  BY NoTasksYet, PTL
<1>3. NewProcess'
  BY DEF TInv, RowTypes, RequestsKnown, Crash, NewProcess
<1>4. QED
  BY <1>1, <1>2, <1>3 DEF TInv

(* The inductive invariant of the rows, the calls and the tasks.            *)
THEOREM TasksInvariant == ServiceSpec => []TInv
<1>1. ServiceInit => TInv
  <2>1. SUFFICES ASSUME ServiceInit PROVE TInv
    OBVIOUS
  <2>2. row \in Rows /\ RequestsKnown
    BY <2>1 DEF ServiceInit, OperationsInit, NoRows, Rows, RequestsKnown
  <2>3. NewProcess
    BY <2>1, <2>2 DEF ServiceInit, SchedulerInit, NewProcess
  <2>4. QED
    BY <2>1, <2>3, NoTasksYet, InitHolds DEF TInv
<1>2. TInv /\ [ServiceNext]_vars => TInv'
  <2>1. SUFFICES ASSUME TInv, [ServiceNext]_vars PROVE TInv'
    OBVIOUS
  <2>2. CASE \E c \in Clients : Step(c)
    BY <2>1, <2>2, StepKeepsTasks
  <2>3. CASE BootList \/ BootRegister
    <3>1. IInv'
      BY <2>1, <2>3, CallsUnchanged DEF BootList, BootRegister, TInv
    <3>2. QED
      BY <2>1, <2>3, <3>1, BootKeepsTasks DEF TInv
  <2>4. CASE Crash
    BY <2>1, <2>4, CrashKeepsTasks
  <2>5. CASE UNCHANGED vars
    <3>1. IInv'
      BY <2>1, <2>5, CallsUnchanged DEF vars, serviceVars, TInv
    <3>2. UNCHANGED <<op, call, row, rows, boot, drift, task, stray, started>>
      BY <2>5 DEF vars, serviceVars, schedulerVars
    <3>3. RowTypes'
      BY <2>1, <3>2 DEF TInv, RowTypes, RequestsKnown
    <3>4. Unraced => Unraced'
      BY <3>2 DEF Unraced, Overlap, Scheduling, Committed, ReadIsCurrent, TaskIsCurrent, At,
                  Request, Target
    <3>5. QED
      BY <2>1, <3>1, <3>2, <3>3, <3>4 DEF TInv
  <2>6. QED
    BY <2>1, <2>2, <2>3, <2>4, <2>5 DEF ServiceNext
<1>3. QED
  BY <1>1, <1>2, PTL DEF ServiceSpec

(* Unless calls raced for the scheduler or a failed reconciliation is owed, *)
(* whenever no call is under way the live tasks of PersonaScheduler are     *)
(* exactly those the committed rows ask for: through refused mutations,     *)
(* database errors, replays, reconciliations and restarts of the process.   *)
THEOREM TasksAreTrue == ServiceSpec => []TasksFollowRows
<1>1. TInv => TasksFollowRows
  <2>1. SUFFICES ASSUME TInv, Quiet, drift = "none" PROVE stray = {} /\ task = TasksOf(row)
    BY DEF TasksFollowRows
  <2>2. Unraced /\ boot = "up" /\ \A c \in Clients : ~Committed(c)
    BY <2>1 DEF TInv, Quiet, Committed, At
  <2>3. \A r \in Routines : task[r] = TasksOf(row)[r]
    BY <2>1, <2>2 DEF Unraced, TaskIsCurrent
  <2>4. task \in [Routines -> Task] /\ TasksOf(row) \in [Routines -> Task]
    BY <2>1, TasksOfAt DEF TInv, RowTypes
  <2>5. QED
    BY <2>2, <2>3, <2>4 DEF Unraced
<1>2. QED
  BY <1>1, TasksInvariant, PTL

=============================================================================
