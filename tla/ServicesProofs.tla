---------------------------- MODULE ServicesProofs ----------------------------
(* What the services around the turns keep, and the pages that send to      *)
(* them, for any number of devices, jobs, personas and messages.  Each part *)
(* has its own specification and its own inductive invariant; no theorem of *)
(* one part is used in another.                                             *)
EXTENDS Notifications, Delegation, Roster, Composer, CustomScripts, FiniteSetTheorems, TLAPS

-----------------------------------------------------------------------------
(* Approval notices (Notifications).  A notice is in one pair of hands: the *)
(* settlement that committed it, or the recovery loop that found it held;   *)
(* a device is still to be pushed to only while it never was.               *)

SendFrame == [pc : {"send"}, notice : Notices, held : SUBSET Notices, rows : SUBSET Devices,
              calls : SUBSET Devices, hook : BOOLEAN, ok : BOOLEAN]

SettlementFrame ==
  {Idle} \cup [pc : {"check"}, notice : Notices] \cup {f \in SendFrame : f.held = {}}

RecoveryFrame ==
  {Idle} \cup [pc : {"list"}, held : SUBSET Notices]
    \cup [pc : {"check"}, notice : Notices, held : SUBSET Notices] \cup SendFrame

SenderTypes ==
  /\ sender \in [Senders -> SettlementFrame \cup RecoveryFrame]
  /\ sender["settlement"] \in SettlementFrame
  /\ sender["recovery"] \in RecoveryFrame

Delivers(s, n) == sender[s].pc \in {"check", "send"} /\ sender[s].notice = n

\* The recovery loop has listed the notice and not come to it yet.
Awaits(n) == sender["recovery"] # Idle /\ n \in sender["recovery"].held

\* Nothing was done about a notice that was not committed.
NothingBefore(n) ==
  notice[n].state = "none" =>
    /\ notice[n].attempted = {}
    /\ ~ Awaits(n) /\ \A s \in Senders : ~ Delivers(s, n)

\* A push comes after its row.
RowsBeforePushes(n) ==
  /\ \A d \in Devices : notice[n].pushed[d] # 0 => d \in notice[n].attempted
  /\ \A s \in Senders : Delivers(s, n) /\ sender[s].pc = "send" =>
       sender[s].calls \subseteq notice[n].attempted

\* Of a notice nobody listed while it was being delivered.
InOneHand(n) ==
  /\ Delivers("settlement", n) => ~ Delivers("recovery", n) /\ ~ Awaits(n)
  /\ Delivers("recovery", n) => ~ Awaits(n)

StillToPush(n, d) ==
  \/ Awaits(n)
  \/ \E s \in Senders : /\ Delivers(s, n)
                        /\ sender[s].pc = "send" => d \in sender[s].rows \cup sender[s].calls

PushesAreFirst(n) ==
  /\ \A d \in Devices : IF StillToPush(n, d) THEN notice[n].pushed[d] = 0
                                             ELSE notice[n].pushed[d] <= 1
  /\ \A s \in Senders : Delivers(s, n) /\ sender[s].pc = "send" =>
       sender[s].rows \cap sender[s].calls = {}

NoticeRow == [state : {"none", "waiting", "acted"}, attempted : SUBSET Devices,
              delivered : BOOLEAN, pushed : [Devices -> 0 .. 2]]

NoticeInv ==
  /\ notice \in [Notices -> NoticeRow] /\ settings.devices \subseteq Devices
  /\ SenderTypes
  /\ \A n \in Notices :
       /\ NothingBefore(n) /\ RowsBeforePushes(n)
       /\ n \notin raced => InOneHand(n) /\ PushesAreFirst(n)

LEMMA FramesOfSenders ==
  ASSUME SenderTypes, NEW s \in Senders
  PROVE  /\ sender[s].pc \in {"idle", "list", "check", "send"}
         /\ sender[s].pc = "idle" <=> sender[s] = Idle
         /\ sender[s].pc \in {"check", "send"} => sender[s].notice \in Notices
         /\ sender[s].pc = "send" => sender[s] \in SendFrame
         /\ s = "settlement" => sender[s].pc # "list"
         /\ s = "settlement" /\ sender[s].pc = "send" => sender[s].held = {}
         /\ s = "recovery" /\ sender[s] # Idle => sender[s].held \in SUBSET Notices
BY DEF SenderTypes, SettlementFrame, RecoveryFrame, SendFrame, Idle, Senders

LEMMA SendersAreTwo == Senders = {"settlement", "recovery"} /\ "settlement" # "recovery"
BY DEF Senders

LEMMA NoticesBegin ==
  ASSUME NotificationsInit
  PROVE  NoticeInv
<1>1. \A n \in Notices : notice[n] = NoNotice
  BY DEF NotificationsInit
<1>2. \A s \in Senders : sender[s] = Idle
  BY DEF NotificationsInit
<1>3. notice \in [Notices -> NoticeRow] /\ settings.devices \subseteq Devices
  <2>1. NoNotice \in NoticeRow
    BY DEF NoNotice, NoticeRow
  <2>2. settings.devices \subseteq Devices
    BY DEF NotificationsInit
  <2> QED
    BY <2>1, <2>2 DEF NotificationsInit
<1>4. SenderTypes
  BY <1>2, SendersAreTwo DEF NotificationsInit, SenderTypes, SettlementFrame, RecoveryFrame
<1>5. \A n \in Notices : ~ Awaits(n) /\ \A s \in Senders : ~ Delivers(s, n)
  BY <1>2, SendersAreTwo DEF Awaits, Delivers, Idle
<1>6. \A n \in Notices : /\ notice[n].attempted = {}
                         /\ \A d \in Devices : notice[n].pushed[d] = 0
  BY <1>1 DEF NoNotice
<1> QED
  BY <1>3, <1>4, <1>5, <1>6, SendersAreTwo
     DEF NoticeInv, NothingBefore, RowsBeforePushes, InOneHand, PushesAreFirst,
         StillToPush


\* The rows of a notice stay, and nobody takes it up or finds more to do.
NoticeRests(n) ==
  /\ notice'[n].attempted = notice[n].attempted /\ notice'[n].pushed = notice[n].pushed
  /\ notice'[n].state = "none" => notice[n].state = "none"
  /\ Awaits(n)' => Awaits(n)
  /\ \A s \in Senders : Delivers(s, n)' =>
       /\ Delivers(s, n)
       /\ sender'[s].pc = "send" =>
            \/ sender[s].pc = "check" /\ sender'[s].calls = {}
            \/ /\ sender[s].pc = "send"
               /\ sender'[s].rows = sender[s].rows /\ sender'[s].calls = sender[s].calls
       /\ sender'[s].pc = "check" => sender[s].pc = "check"

LEMMA RestingNotices ==
  ASSUME NoticeInv, NEW n \in Notices, NoticeRests(n)
  PROVE  /\ NothingBefore(n)' /\ RowsBeforePushes(n)'
         /\ n \notin raced => InOneHand(n)' /\ PushesAreFirst(n)'
<1>1. NothingBefore(n)'
  BY DEF NoticeInv, NothingBefore, NoticeRests
<1>2. RowsBeforePushes(n)'
  BY DEF NoticeInv, RowsBeforePushes, NoticeRests
<1>3. ASSUME n \notin raced PROVE InOneHand(n)' /\ PushesAreFirst(n)'
  <2>1. InOneHand(n) /\ PushesAreFirst(n)
    BY <1>3 DEF NoticeInv
  <2>2. InOneHand(n)'
    BY <2>1, SendersAreTwo DEF InOneHand, NoticeRests
  <2>3. \A s \in Senders : Delivers(s, n)' => sender'[s].pc \in {"check", "send"}
    BY DEF Delivers
  <2>4. ASSUME NEW d \in Devices, StillToPush(n, d)' PROVE StillToPush(n, d)
    BY <2>3, <2>4 DEF StillToPush, NoticeRests
  <2>5. ASSUME NEW d \in Devices
        PROVE  /\ notice'[n].pushed[d] = notice[n].pushed[d]
               /\ notice[n].pushed[d] \in Nat
    BY DEF NoticeInv, NoticeRow, NoticeRests
  <2>6. ASSUME NEW s \in Senders, Delivers(s, n)', sender'[s].pc = "send"
        PROVE  sender'[s].rows \cap sender'[s].calls = {}
    BY <2>1, <2>6 DEF PushesAreFirst, NoticeRests
  <2>7. PushesAreFirst(n)'
    BY <2>1, <2>4, <2>5, <2>6 DEF PushesAreFirst
  <2> QED
    BY <2>2, <2>7
<1> QED
  BY <1>1, <1>2, <1>3

\* A settlement begins.
LEMMA PauseKeepsNotices ==
  ASSUME NoticeInv, NEW n \in Notices, PauseTurn(n)
  PROVE  NoticeInv'
<1>1. /\ notice[n].state = "none" /\ sender["settlement"] = Idle
      /\ notice' = [notice EXCEPT ![n].state = "waiting"]
      /\ sender' = [sender EXCEPT !["settlement"] = [pc |-> "check", notice |-> n]]
      /\ settings' = settings /\ raced' = raced
  BY DEF PauseTurn
<1>2. /\ sender'["settlement"] = [pc |-> "check", notice |-> n]
      /\ sender'["recovery"] = sender["recovery"]
  BY <1>1, SendersAreTwo DEF NoticeInv, SenderTypes
<1>3. /\ \A m \in Notices : m # n => notice'[m] = notice[m]
      /\ notice' \in [Notices -> NoticeRow]
      /\ notice'[n].attempted = notice[n].attempted /\ notice'[n].pushed = notice[n].pushed
      /\ notice'[n].state = "waiting"
  BY <1>1 DEF NoticeInv, NoticeRow
<1>4. SenderTypes'
  <2>1. sender'["settlement"] \in SettlementFrame
    BY <1>2 DEF SettlementFrame
  <2>2. sender'["recovery"] \in RecoveryFrame
    BY <1>2 DEF NoticeInv, SenderTypes
  <2> QED
    BY <1>1, <2>1, <2>2 DEF NoticeInv, SenderTypes
<1>5. /\ \A m \in Notices : Delivers("settlement", m)' <=> m = n
      /\ \A m \in Notices : Delivers("recovery", m)' <=> Delivers("recovery", m)
      /\ \A m \in Notices : Awaits(m)' <=> Awaits(m)
  BY <1>2 DEF Delivers, Awaits
<1>6. ASSUME NEW m \in Notices
      PROVE  /\ NothingBefore(m)' /\ RowsBeforePushes(m)'
             /\ m \notin raced => InOneHand(m)' /\ PushesAreFirst(m)'
  <2>1. CASE m = n
    <3>1. /\ ~ Awaits(n) /\ ~ Delivers("recovery", n) /\ notice[n].attempted = {}
          /\ \A d \in Devices : notice'[n].pushed[d] = 0
      BY <1>1, <1>3, SendersAreTwo DEF NoticeInv, NothingBefore, RowsBeforePushes
    <3>2. NothingBefore(n)' /\ RowsBeforePushes(n)'
      BY <1>2, <1>3, <1>5, <3>1, SendersAreTwo DEF NothingBefore, RowsBeforePushes
    <3>3. InOneHand(n)' /\ PushesAreFirst(n)'
      BY <1>2, <1>5, <3>1, SendersAreTwo DEF InOneHand, PushesAreFirst
    <3> QED
      BY <2>1, <3>2, <3>3
  <2>2. CASE m # n
    <3>1. NoticeRests(m)
      BY <1>2, <1>3, <1>5, <2>2, SendersAreTwo DEF NoticeRests, Delivers
    <3> QED
      BY <3>1, RestingNotices
  <2> QED
    BY <2>1, <2>2
<1> QED
  BY <1>1, <1>3, <1>4, <1>6 DEF NoticeInv

\* The recovery loop lists what was never attempted.
LEMMA ListingKeepsNotices ==
  ASSUME NoticeInv, StartRelease
  PROVE  NoticeInv'
<1>1. /\ sender["recovery"] = Idle
      /\ sender' = [sender EXCEPT !["recovery"] = [pc |-> "list", held |-> Held]]
      /\ raced' = raced \cup {n \in Held : sender["settlement"] # Idle
                                             /\ sender["settlement"].notice = n}
      /\ notice' = notice /\ settings' = settings
  BY DEF StartRelease
<1>2. /\ sender'["recovery"] = [pc |-> "list", held |-> Held]
      /\ sender'["settlement"] = sender["settlement"]
  BY <1>1, SendersAreTwo DEF NoticeInv, SenderTypes
<1>3. Held \subseteq Notices
  BY DEF Held
<1>4. SenderTypes'
  <2>1. sender'["recovery"] \in RecoveryFrame
    BY <1>2, <1>3 DEF RecoveryFrame
  <2>2. sender'["settlement"] \in SettlementFrame
    BY <1>2 DEF NoticeInv, SenderTypes
  <2> QED
    BY <1>1, <2>1, <2>2 DEF NoticeInv, SenderTypes
<1>5. /\ \A m \in Notices : Delivers("settlement", m)' <=> Delivers("settlement", m)
      /\ \A m \in Notices : ~ Delivers("recovery", m)'
      /\ \A m \in Notices : Awaits(m)' <=> m \in Held
  BY <1>2 DEF Delivers, Awaits, Idle
<1>6. ASSUME NEW n \in Notices
      PROVE  /\ NothingBefore(n)' /\ RowsBeforePushes(n)'
             /\ n \notin raced' => InOneHand(n)' /\ PushesAreFirst(n)'
  <2>1. CASE n \in Held
    <3>1. notice[n].state = "waiting" /\ notice[n].attempted = {}
      BY <2>1 DEF Held
    <3>2. \A d \in Devices : notice[n].pushed[d] = 0
      BY <3>1 DEF NoticeInv, RowsBeforePushes
    <3>3. NothingBefore(n)' /\ RowsBeforePushes(n)'
      BY <1>1, <1>2, <1>5, <3>1, SendersAreTwo
         DEF NoticeInv, NothingBefore, RowsBeforePushes, Delivers
    <3>4. n \notin raced' => n \notin raced /\ ~ Delivers("settlement", n)
      BY <1>1, <2>1 DEF Delivers, Idle
    <3>5. n \notin raced' => InOneHand(n)' /\ PushesAreFirst(n)'
      BY <1>1, <1>5, <3>2, <3>4, SendersAreTwo DEF InOneHand, PushesAreFirst
    <3> QED
      BY <3>3, <3>5
  <2>2. CASE n \notin Held
    <3>1. NoticeRests(n)
      BY <1>1, <1>2, <1>5, <2>2, SendersAreTwo DEF NoticeRests, Delivers
    <3>2. n \notin raced' => n \notin raced
      BY <1>1
    <3> QED
      BY <3>1, <3>2, RestingNotices
  <2> QED
    BY <2>1, <2>2
<1> QED
  BY <1>1, <1>4, <1>6 DEF NoticeInv

\* It takes up one of those it listed.
LEMMA NextKeepsNotices ==
  ASSUME NoticeInv, NEW n \in Notices, NextHeld(n)
  PROVE  NoticeInv'
<1>1. /\ sender["recovery"].pc = "list" /\ n \in sender["recovery"].held
      /\ sender' = [sender EXCEPT !["recovery"] =
           [pc |-> "check", notice |-> n, held |-> sender["recovery"].held \ {n}]]
      /\ notice' = notice /\ settings' = settings /\ raced' = raced
  BY DEF NextHeld
<1>2. /\ sender'["recovery"] =
           [pc |-> "check", notice |-> n, held |-> sender["recovery"].held \ {n}]
      /\ sender'["settlement"] = sender["settlement"]
  BY <1>1, SendersAreTwo DEF NoticeInv, SenderTypes
<1>3. sender["recovery"] # Idle /\ sender["recovery"].held \in SUBSET Notices
  BY <1>1, FramesOfSenders, SendersAreTwo DEF NoticeInv, Idle
<1>4. SenderTypes'
  <2>1. sender'["recovery"] \in RecoveryFrame
    BY <1>2, <1>3 DEF RecoveryFrame
  <2>2. sender'["settlement"] \in SettlementFrame
    BY <1>2 DEF NoticeInv, SenderTypes
  <2> QED
    BY <1>1, <2>1, <2>2 DEF NoticeInv, SenderTypes
<1>5. /\ \A m \in Notices : Delivers("settlement", m)' <=> Delivers("settlement", m)
      /\ \A m \in Notices : Delivers("recovery", m)' <=> m = n
      /\ \A m \in Notices : ~ Delivers("recovery", m)
      /\ \A m \in Notices : Awaits(m)' <=> Awaits(m) /\ m # n
      /\ Awaits(n)
  BY <1>1, <1>2, <1>3 DEF Delivers, Awaits, Idle
<1>6. ASSUME NEW m \in Notices
      PROVE  /\ NothingBefore(m)' /\ RowsBeforePushes(m)'
             /\ m \notin raced' => InOneHand(m)' /\ PushesAreFirst(m)'
  <2>1. CASE m = n
    <3>1. NothingBefore(n)' /\ RowsBeforePushes(n)'
      BY <1>1, <1>2, <1>5, SendersAreTwo DEF NoticeInv, NothingBefore, RowsBeforePushes, Delivers
    <3>2. n \notin raced => /\ ~ Delivers("settlement", n)
                            /\ \A d \in Devices : notice[n].pushed[d] = 0
      BY <1>5 DEF NoticeInv, InOneHand, PushesAreFirst, StillToPush
    <3>3. n \notin raced => InOneHand(n)' /\ PushesAreFirst(n)'
      BY <1>1, <1>2, <1>5, <3>2, SendersAreTwo DEF InOneHand, PushesAreFirst
    <3> QED
      BY <1>1, <2>1, <3>1, <3>3
  <2>2. CASE m # n
    <3>1. NoticeRests(m)
      BY <1>1, <1>2, <1>5, <2>2, SendersAreTwo DEF NoticeRests, Delivers
    <3> QED
      BY <1>1, <3>1, RestingNotices
  <2> QED
    BY <2>1, <2>2
<1> QED
  BY <1>1, <1>4, <1>6 DEF NoticeInv

\* The other sender keeps what it was doing.
LEMMA OtherSender ==
  ASSUME SenderTypes, NEW s \in Senders, NEW frame,
         s = "settlement" => frame \in SettlementFrame,
         s = "recovery" => frame \in RecoveryFrame,
         sender' = [sender EXCEPT ![s] = frame]
  PROVE  /\ sender'[s] = frame
         /\ \A x \in Senders : x # s => sender'[x] = sender[x]
         /\ SenderTypes'
<1>1. sender'[s] = frame /\ \A x \in Senders : x # s => sender'[x] = sender[x]
  BY DEF SenderTypes
<1>2. sender'["settlement"] \in SettlementFrame /\ sender'["recovery"] \in RecoveryFrame
  BY <1>1, SendersAreTwo DEF SenderTypes
<1>3. frame \in SettlementFrame \cup RecoveryFrame
  BY SendersAreTwo
<1> QED
  BY <1>1, <1>2, <1>3 DEF SenderTypes

\* The settings are read once for the whole delivery.
LEMMA ReadKeepsNotices ==
  ASSUME NoticeInv, NEW s \in Senders, ReadSettings(s)
  PROVE  NoticeInv'
<1>1. PICK frame :
        frame = [pc |-> "send", notice |-> sender[s].notice,
                 held |-> IF s = "recovery" THEN sender[s].held ELSE {},
                 rows |-> IF settings.push /\ ~ settings.quiet THEN settings.devices ELSE {},
                 calls |-> {}, hook |-> Webhook, ok |-> FALSE]
  OBVIOUS
<1>2. /\ sender[s].pc = "check" /\ sender' = [sender EXCEPT ![s] = frame]
      /\ notice' = notice /\ settings' = settings /\ raced' = raced
  BY <1>1 DEF ReadSettings
<1>3. sender[s].notice \in Notices /\ (s = "recovery" => sender[s].held \in SUBSET Notices)
  BY <1>2, FramesOfSenders DEF NoticeInv, Idle
<1>4. frame \in SendFrame /\ (s = "settlement" => frame.held = {})
  BY <1>1, <1>3, NotificationsAssumption, SendersAreTwo DEF NoticeInv, SendFrame
<1>5. /\ sender'[s] = frame
      /\ \A x \in Senders : x # s => sender'[x] = sender[x]
      /\ SenderTypes'
  BY <1>2, <1>4, OtherSender DEF NoticeInv, SettlementFrame, RecoveryFrame
<1>6. frame.notice = sender[s].notice /\ frame.pc = "send" /\ frame.calls = {}
  BY <1>1
<1>7. s = "recovery" => frame.held = sender[s].held /\ sender[s] # Idle
  BY <1>1, <1>2 DEF Idle
<1>8. ASSUME NEW n \in Notices PROVE NoticeRests(n)
  <2>1. Awaits(n)' => Awaits(n)
    BY <1>5, <1>7, SendersAreTwo DEF Awaits
  <2>2. \A x \in Senders : Delivers(x, n)' => Delivers(x, n)
    BY <1>2, <1>5, <1>6 DEF Delivers
  <2> QED
    BY <1>2, <1>5, <1>6, <2>1, <2>2 DEF NoticeRests
<1> QED
  BY <1>2, <1>5, <1>8, RestingNotices DEF NoticeInv

\* A sender at work, and the frame it goes on with.
LEMMA SenderAtWork ==
  ASSUME NoticeInv, NEW s \in Senders, sender[s].pc = "send",
         NEW frame \in SendFrame,
         frame.notice = sender[s].notice, frame.held = sender[s].held,
         sender' = [sender EXCEPT ![s] = frame]
  PROVE  /\ sender'[s] = frame
         /\ \A x \in Senders : x # s => sender'[x] = sender[x]
         /\ SenderTypes'
         /\ \A n \in Notices : /\ Awaits(n)' <=> Awaits(n)
                               /\ \A x \in Senders : Delivers(x, n)' <=> Delivers(x, n)
<1>1. sender[s] \in SendFrame /\ (s = "settlement" => sender[s].held = {})
  BY FramesOfSenders DEF NoticeInv
<1>2. frame.pc = "send" /\ Idle.pc = "idle"
  BY DEF SendFrame, Idle
<1>3. /\ sender'[s] = frame
      /\ \A x \in Senders : x # s => sender'[x] = sender[x]
      /\ SenderTypes'
  BY <1>1, <1>2, OtherSender DEF NoticeInv, SettlementFrame, RecoveryFrame
<1>4. ASSUME NEW n \in Notices
      PROVE  /\ Awaits(n)' <=> Awaits(n)
             /\ \A x \in Senders : Delivers(x, n)' <=> Delivers(x, n)
  <2>1. frame # Idle /\ sender[s] # Idle
    BY <1>2
  <2>2. Awaits(n)' <=> Awaits(n)
    BY <1>2, <1>3, <2>1, SendersAreTwo DEF Awaits
  <2>3. \A x \in Senders : Delivers(x, n)' <=> Delivers(x, n)
    BY <1>2, <1>3 DEF Delivers
  <2> QED
    BY <2>2, <2>3
<1> QED
  BY <1>2, <1>3, <1>4

\* The row first: it is there before the push.
LEMMA RowKeepsNotices ==
  ASSUME NoticeInv, NEW s \in Senders, NEW d \in Devices, CreateDelivery(s, d)
  PROVE  NoticeInv'
<1>1. PICK n : n = sender[s].notice
  OBVIOUS
<1>2. PICK rest : rest = sender[s].rows \ {d}
  OBVIOUS
<1>3. PICK pushing : pushing = sender[s].calls \cup {d}
  OBVIOUS
<1>4. PICK frame : frame = [[sender[s] EXCEPT !.rows = rest] EXCEPT !.calls = pushing]
  OBVIOUS
<1>5. /\ sender[s].pc = "send" /\ d \in sender[s].rows
      /\ notice' = [notice EXCEPT ![n].attempted = @ \cup {d}]
      /\ settings' = settings /\ raced' = raced
      /\ sender' = [sender EXCEPT ![s].rows = @ \ {d}, ![s].calls = @ \cup {d}]
  BY <1>1 DEF CreateDelivery
<1>6. sender[s] \in SendFrame /\ n \in Notices
  BY <1>1, <1>5, FramesOfSenders DEF NoticeInv
<1>7. sender' = [sender EXCEPT ![s] = frame]
  BY <1>2, <1>3, <1>4, <1>5, <1>6 DEF NoticeInv, SenderTypes, SendFrame
<1>8. /\ frame \in SendFrame /\ frame.notice = n /\ frame.held = sender[s].held
      /\ frame.pc = "send" /\ frame.rows = rest /\ frame.calls = pushing
  <2>1. rest \in SUBSET Devices /\ pushing \in SUBSET Devices
    BY <1>2, <1>3, <1>6 DEF SendFrame
  <2> QED
    BY <1>1, <1>4, <1>6, <2>1 DEF SendFrame
<1>9. /\ frame.pc = "send" /\ frame.rows = rest /\ frame.calls = pushing
      /\ sender'[s] = frame
      /\ \A x \in Senders : x # s => sender'[x] = sender[x]
      /\ SenderTypes'
      /\ \A m \in Notices : /\ Awaits(m)' <=> Awaits(m)
                            /\ \A x \in Senders : Delivers(x, m)' <=> Delivers(x, m)
  BY <1>1, <1>5, <1>7, <1>8, SenderAtWork
<1>10. /\ notice' \in [Notices -> NoticeRow]
       /\ \A m \in Notices : m # n => notice'[m] = notice[m]
       /\ notice'[n].attempted = notice[n].attempted \cup {d}
       /\ notice'[n].pushed = notice[n].pushed /\ notice'[n].state = notice[n].state
  BY <1>5, <1>6 DEF NoticeInv, NoticeRow
<1>11. Delivers(s, n) /\ \A m \in Notices : Delivers(s, m) => m = n
  BY <1>1, <1>5 DEF Delivers
<1>12. ASSUME NEW m \in Notices
       PROVE  /\ NothingBefore(m)' /\ RowsBeforePushes(m)'
              /\ m \notin raced' => InOneHand(m)' /\ PushesAreFirst(m)'
  <2>1. CASE m = n
    <3>1. NothingBefore(n)'
      BY <1>6, <1>10, <1>11 DEF NoticeInv, NothingBefore
    <3>2. RowsBeforePushes(n)'
      BY <1>3, <1>6, <1>9, <1>10, <1>11, <1>5 DEF NoticeInv, RowsBeforePushes
    <3>3. ASSUME n \notin raced PROVE InOneHand(n)' /\ PushesAreFirst(n)'
      <4>1. InOneHand(n) /\ PushesAreFirst(n)
        BY <1>6, <3>3 DEF NoticeInv
      <4>2. InOneHand(n)'
        BY <1>6, <1>9, <4>1, SendersAreTwo DEF InOneHand
      <4>3. ASSUME NEW e \in Devices PROVE StillToPush(n, e)' <=> StillToPush(n, e)
        BY <1>2, <1>3, <1>5, <1>6, <1>9 DEF StillToPush
      <4>4. \A e \in Devices : IF StillToPush(n, e)' THEN notice'[n].pushed[e] = 0
                                                    ELSE notice'[n].pushed[e] <= 1
        BY <1>10, <4>1, <4>3 DEF PushesAreFirst
      <4>5. ASSUME NEW x \in Senders, Delivers(x, n)', sender'[x].pc = "send"
            PROVE  sender'[x].rows \cap sender'[x].calls = {}
        <5>1. Delivers(x, n)
          BY <1>6, <1>9, <4>5
        <5>2. CASE x = s
          BY <1>2, <1>3, <1>5, <1>9, <1>11, <4>1, <5>2 DEF PushesAreFirst
        <5>3. CASE x # s
          BY <1>9, <4>1, <4>5, <5>1, <5>3 DEF PushesAreFirst
        <5> QED
          BY <5>2, <5>3
      <4> QED
        BY <4>2, <4>4, <4>5 DEF PushesAreFirst
    <3> QED
      BY <1>5, <2>1, <3>1, <3>2, <3>3
  <2>2. CASE m # n
    <3>1. NoticeRests(m)
      BY <1>9, <1>10, <1>11, <2>2 DEF NoticeRests
    <3> QED
      BY <1>5, <3>1, RestingNotices
  <2> QED
    BY <2>1, <2>2
<1> QED
  BY <1>5, <1>9, <1>10, <1>12 DEF NoticeInv

\* The push, once for each device that the delivery still holds.
LEMMA PushKeepsNotices ==
  ASSUME NoticeInv, NEW s \in Senders, NEW d \in Devices, SendPush(s, d)
  PROVE  NoticeInv'
<1>1. PICK n : n = sender[s].notice
  OBVIOUS
<1>2. PICK outcome \in {"delivered", "failed", "expired"} :
        /\ sender' = [sender EXCEPT ![s].calls = @ \ {d},
                                    ![s].ok = @ \/ outcome = "delivered"]
        /\ settings' = [settings EXCEPT !.devices = IF outcome = "expired" THEN @ \ {d} ELSE @]
  BY DEF SendPush
<1>3. PICK pushing : pushing = sender[s].calls \ {d}
  OBVIOUS
<1>4. PICK frame : frame = [[sender[s] EXCEPT !.calls = pushing]
                              EXCEPT !.ok = sender[s].ok \/ outcome = "delivered"]
  OBVIOUS
<1>5. /\ sender[s].pc = "send" /\ d \in sender[s].calls /\ raced' = raced
      /\ notice' = [notice EXCEPT ![n].pushed[d] = Counted(@)]
  BY <1>1 DEF SendPush
<1>6. sender[s] \in SendFrame /\ n \in Notices
  BY <1>1, <1>5, FramesOfSenders DEF NoticeInv
<1>7. sender' = [sender EXCEPT ![s] = frame]
  BY <1>2, <1>3, <1>4, <1>6 DEF NoticeInv, SenderTypes, SendFrame
<1>8. /\ frame \in SendFrame /\ frame.notice = n /\ frame.held = sender[s].held
      /\ frame.pc = "send" /\ frame.rows = sender[s].rows /\ frame.calls = pushing
  <2>1. pushing \in SUBSET Devices
    BY <1>3, <1>6 DEF SendFrame
  <2> QED
    BY <1>1, <1>4, <1>6, <2>1 DEF SendFrame
<1>9. /\ sender'[s] = frame
      /\ \A x \in Senders : x # s => sender'[x] = sender[x]
      /\ SenderTypes'
      /\ \A m \in Notices : /\ Awaits(m)' <=> Awaits(m)
                            /\ \A x \in Senders : Delivers(x, m)' <=> Delivers(x, m)
  BY <1>1, <1>5, <1>7, <1>8, SenderAtWork
<1>10. /\ notice' \in [Notices -> NoticeRow]
       /\ \A m \in Notices : m # n => notice'[m] = notice[m]
       /\ notice'[n].attempted = notice[n].attempted /\ notice'[n].state = notice[n].state
       /\ \A e \in Devices : e # d => notice'[n].pushed[e] = notice[n].pushed[e]
       /\ notice[n].pushed[d] = 0 => notice'[n].pushed[d] = 1
  <2>1. notice[n] \in NoticeRow /\ notice[n].pushed[d] \in 0 .. 2
    BY <1>6 DEF NoticeInv, NoticeRow
  <2>2. PICK k : k = Counted(notice[n].pushed[d])
    OBVIOUS
  <2>3. k \in 0 .. 2 /\ (notice[n].pushed[d] = 0 => k = 1)
    BY <2>1, <2>2 DEF Counted
  <2>4. notice' = [notice EXCEPT ![n].pushed[d] = k]
    BY <1>5, <1>6, <2>2 DEF NoticeInv, NoticeRow
  <2> QED
    BY <1>6, <2>1, <2>3, <2>4 DEF NoticeInv, NoticeRow
<1>11. Delivers(s, n) /\ \A m \in Notices : Delivers(s, m) => m = n
  BY <1>1, <1>5 DEF Delivers
<1>12. settings'.devices \subseteq Devices
  <2>1. DOMAIN settings = DOMAIN settings'
    BY <1>2
  <2> QED
    BY <1>2 DEF NoticeInv
<1>13. ASSUME NEW m \in Notices
       PROVE  /\ NothingBefore(m)' /\ RowsBeforePushes(m)'
              /\ m \notin raced' => InOneHand(m)' /\ PushesAreFirst(m)'
  <2>1. CASE m = n
    <3>1. NothingBefore(n)'
      BY <1>6, <1>10, <1>11 DEF NoticeInv, NothingBefore
    <3>2. RowsBeforePushes(n)'
      BY <1>3, <1>5, <1>6, <1>8, <1>9, <1>10, <1>11 DEF NoticeInv, RowsBeforePushes
    <3>3. ASSUME n \notin raced PROVE InOneHand(n)' /\ PushesAreFirst(n)'
      <4>1. InOneHand(n) /\ PushesAreFirst(n)
        BY <1>6, <3>3 DEF NoticeInv
      <4>2. InOneHand(n)'
        BY <1>6, <1>9, <4>1, SendersAreTwo DEF InOneHand
      <4>3. /\ ~ Awaits(n) /\ \A x \in Senders : Delivers(x, n) => x = s
            /\ sender[s].rows \cap sender[s].calls = {}
        BY <1>5, <1>11, <4>1, SendersAreTwo DEF InOneHand, PushesAreFirst
      <4>4. ASSUME NEW e \in Devices, e # d PROVE StillToPush(n, e)' <=> StillToPush(n, e)
        BY <1>3, <1>5, <1>6, <1>8, <1>9, <4>4 DEF StillToPush
      <4>5. ~ StillToPush(n, d)'
        BY <1>3, <1>5, <1>6, <1>8, <1>9, <4>3 DEF StillToPush
      <4>6. notice'[n].pushed[d] = 1
        <5>1. StillToPush(n, d)
          BY <1>5, <1>11 DEF StillToPush
        <5> QED
          BY <1>10, <4>1, <5>1 DEF PushesAreFirst
      <4>7. ASSUME NEW e \in Devices
            PROVE  IF StillToPush(n, e)' THEN notice'[n].pushed[e] = 0
                                         ELSE notice'[n].pushed[e] <= 1
        BY <1>10, <4>1, <4>4, <4>5, <4>6 DEF PushesAreFirst
      <4>8. ASSUME NEW x \in Senders, Delivers(x, n)', sender'[x].pc = "send"
            PROVE  sender'[x].rows \cap sender'[x].calls = {}
        BY <1>3, <1>6, <1>8, <1>9, <4>3, <4>8
      <4> QED
        BY <4>2, <4>7, <4>8 DEF PushesAreFirst
    <3> QED
      BY <1>5, <2>1, <3>1, <3>2, <3>3
  <2>2. CASE m # n
    <3>1. NoticeRests(m)
      BY <1>9, <1>10, <1>11, <2>2 DEF NoticeRests
    <3> QED
      BY <1>5, <3>1, RestingNotices
  <2> QED
    BY <2>1, <2>2
<1> QED
  BY <1>9, <1>10, <1>12, <1>13 DEF NoticeInv

\* The webhook, the end of a delivery, the owner, the clock and a death leave
\* the rows of every notice as they are.
LEMMA WebhookRests ==
  ASSUME NoticeInv, NEW s \in Senders, PostWebhook(s)
  PROVE  SenderTypes' /\ \A n \in Notices : NoticeRests(n)
<1>1. PICK ok \in BOOLEAN :
        sender' = [sender EXCEPT ![s].hook = FALSE, ![s].ok = @ \/ ok]
  BY DEF PostWebhook
<1>2. sender[s].pc = "send" /\ notice' = notice
  BY DEF PostWebhook
<1>3. sender[s] \in SendFrame
  BY <1>2, FramesOfSenders DEF NoticeInv
<1>4. PICK frame : frame = [[sender[s] EXCEPT !.hook = FALSE] EXCEPT !.ok = sender[s].ok \/ ok]
  OBVIOUS
<1>5. sender' = [sender EXCEPT ![s] = frame]
  BY <1>1, <1>3, <1>4 DEF NoticeInv, SenderTypes, SendFrame
<1>6. /\ frame \in SendFrame /\ frame.notice = sender[s].notice /\ frame.held = sender[s].held
      /\ frame.rows = sender[s].rows /\ frame.calls = sender[s].calls
  BY <1>3, <1>4 DEF SendFrame
<1>7. /\ sender'[s] = frame
      /\ \A x \in Senders : x # s => sender'[x] = sender[x]
      /\ SenderTypes'
      /\ \A n \in Notices : /\ Awaits(n)' <=> Awaits(n)
                            /\ \A x \in Senders : Delivers(x, n)' <=> Delivers(x, n)
  BY <1>2, <1>5, <1>6, SenderAtWork
<1>8. frame.pc = "send"
  BY <1>6 DEF SendFrame
<1> QED
  BY <1>2, <1>6, <1>7, <1>8 DEF NoticeRests

LEMMA EndRests ==
  ASSUME NoticeInv, NEW s \in Senders, EndDelivery(s)
  PROVE  /\ SenderTypes' /\ notice' \in [Notices -> NoticeRow]
         /\ \A n \in Notices : NoticeRests(n)
<1>1. PICK n : n = sender[s].notice
  OBVIOUS
<1>2. PICK frame : frame = IF sender[s].held = {} THEN Idle ELSE [pc |-> "list", held |-> sender[s].held]
  OBVIOUS
<1>3. PICK told : told = (notice[n].delivered \/ sender[s].ok)
  OBVIOUS
<1>4. /\ sender[s].pc = "send" /\ sender' = [sender EXCEPT ![s] = frame]
      /\ notice' = [notice EXCEPT ![n].delivered = @ \/ sender[s].ok]
  BY <1>1, <1>2 DEF EndDelivery
<1>5. /\ sender[s] \in SendFrame /\ n \in Notices
      /\ s = "settlement" => sender[s].held = {}
  BY <1>1, <1>4, FramesOfSenders DEF NoticeInv
<1>6. /\ s = "settlement" => frame \in SettlementFrame
      /\ s = "recovery" => frame \in RecoveryFrame
  BY <1>2, <1>5 DEF SettlementFrame, RecoveryFrame, SendFrame
<1>7. /\ sender'[s] = frame
      /\ \A x \in Senders : x # s => sender'[x] = sender[x]
      /\ SenderTypes'
  BY <1>4, <1>6, OtherSender DEF NoticeInv
<1>8. /\ notice' \in [Notices -> NoticeRow]
      /\ \A m \in Notices : /\ notice'[m].attempted = notice[m].attempted
                            /\ notice'[m].pushed = notice[m].pushed
                            /\ notice'[m].state = notice[m].state
  <2>1. notice[n] \in NoticeRow /\ sender[s].ok \in BOOLEAN /\ notice[n].delivered \in BOOLEAN
    BY <1>5 DEF NoticeInv, NoticeRow, SendFrame
  <2>2. told \in BOOLEAN
    BY <1>3, <2>1
  <2>3. notice' = [notice EXCEPT ![n].delivered = told]
    BY <1>3, <1>4, <1>5 DEF NoticeInv, NoticeRow
  <2> QED
    BY <1>5, <2>2, <2>3 DEF NoticeInv, NoticeRow
<1>9. ASSUME NEW m \in Notices PROVE NoticeRests(m)
  <2>1. \A x \in Senders : Delivers(x, m)' => x # s
    BY <1>2, <1>7 DEF Delivers, Idle
  <2>2. Awaits(m)' => Awaits(m)
    BY <1>2, <1>4, <1>7, SendersAreTwo DEF Awaits, Idle
  <2>3. \A x \in Senders : Delivers(x, m)' => Delivers(x, m)
    BY <1>7, <2>1 DEF Delivers
  <2> QED
    BY <1>7, <1>8, <2>1, <2>2, <2>3 DEF NoticeRests
<1> QED
  BY <1>7, <1>8, <1>9

\* An owner, a clock or a death: no step of a delivery.
LEMMA OutsideRests ==
  ASSUME NoticeInv,
         (\E n \in Notices : ActOn(n)) \/ ChangeSettings \/ ServerDies
           \/ UNCHANGED notificationsVars
  PROVE  /\ notice' \in [Notices -> NoticeRow] /\ settings'.devices \subseteq Devices
         /\ SenderTypes' /\ raced' = raced
         /\ \A n \in Notices : NoticeRests(n)
<1>1. CASE sender' = sender /\ UNCHANGED <<notice, raced>>
  <2>1. settings'.devices \subseteq Devices =>
          /\ SenderTypes' /\ notice' \in [Notices -> NoticeRow] /\ raced' = raced
    BY <1>1 DEF NoticeInv, SenderTypes
  <2>2. \A n \in Notices : NoticeRests(n)
    BY <1>1 DEF NoticeRests, Awaits, Delivers
  <2>3. settings'.devices \subseteq Devices
    <3>1. CASE settings' = settings
      BY <3>1 DEF NoticeInv
    <3>2. CASE ChangeSettings
      <4>1. ASSUME NEW to, Change(to), to.devices \subseteq Devices
            PROVE  settings'.devices \subseteq Devices
        BY <4>1 DEF Change
      <4>2. settings.devices \subseteq Devices
        BY DEF NoticeInv
      <4>3. [settings EXCEPT !.quiet = ~ @].devices \subseteq Devices
        BY <4>2
      <4>4. [settings EXCEPT !.push = ~ @].devices \subseteq Devices
        BY <4>2
      <4>5. ASSUME NEW d \in Devices
            PROVE  [settings EXCEPT !.devices = IF d \in @ THEN @ \ {d} ELSE @ \cup {d}].devices
                     \subseteq Devices
        BY <4>2
      <4> QED
        BY <3>2, <4>1, <4>3, <4>4, <4>5 DEF ChangeSettings
    <3>3. CASE ServerDies
      BY <3>3 DEF ServerDies, Change, NoticeInv
    <3> QED
      BY <3>1, <3>2, <3>3 DEF ActOn, notificationsVars
  <2> QED
    BY <1>1, <2>1, <2>2, <2>3
<1>2. ASSUME NEW n \in Notices, ActOn(n)
      PROVE  /\ notice' \in [Notices -> NoticeRow] /\ settings' = settings
             /\ SenderTypes' /\ raced' = raced
             /\ \A m \in Notices : NoticeRests(m)
  <2>1. /\ notice' = [notice EXCEPT ![n].state = "acted"]
        /\ settings' = settings /\ sender' = sender /\ raced' = raced
    BY <1>2 DEF ActOn
  <2>2. /\ notice' \in [Notices -> NoticeRow]
        /\ \A m \in Notices : /\ notice'[m].attempted = notice[m].attempted
                              /\ notice'[m].pushed = notice[m].pushed
                              /\ notice'[m].state = "none" => notice[m].state = "none"
    BY <2>1 DEF NoticeInv, NoticeRow
  <2>3. \A m \in Notices : NoticeRests(m)
    BY <2>1, <2>2 DEF NoticeRests, Awaits, Delivers
  <2> QED
    BY <2>1, <2>2, <2>3 DEF NoticeInv, SenderTypes
<1>3. CASE ServerDies
  <2>1. /\ sender' = [s \in Senders |-> Idle] /\ notice' = notice /\ raced' = raced
        /\ Change(settings)
    BY <1>3 DEF ServerDies
  <2>2. SenderTypes'
    BY <2>1, SendersAreTwo DEF SenderTypes, SettlementFrame, RecoveryFrame
  <2>3. \A n \in Notices : ~ Awaits(n)' /\ \A s \in Senders : ~ Delivers(s, n)'
    BY <2>1, SendersAreTwo DEF Awaits, Delivers, Idle
  <2>4. \A n \in Notices : NoticeRests(n)
    BY <2>1, <2>3 DEF NoticeRests
  <2>5. settings'.devices \subseteq Devices
    BY <2>1 DEF Change, NoticeInv
  <2> QED
    BY <2>1, <2>2, <2>4, <2>5 DEF NoticeInv
<1>4. ChangeSettings \/ UNCHANGED notificationsVars => sender' = sender /\ UNCHANGED <<notice, raced>>
  BY DEF ChangeSettings, notificationsVars
<1> QED
  BY <1>1, <1>2, <1>3, <1>4 DEF NoticeInv

LEMMA StepKeepsNotices ==
  ASSUME NoticeInv, [NotificationsNext]_notificationsVars
  PROVE  NoticeInv'
<1>1. ASSUME /\ notice' \in [Notices -> NoticeRow] /\ settings'.devices \subseteq Devices
             /\ SenderTypes' /\ raced' = raced
             /\ \A n \in Notices : NoticeRests(n)
      PROVE  NoticeInv'
  BY <1>1, RestingNotices DEF NoticeInv
<1>2. CASE (\E n \in Notices : ActOn(n)) \/ ChangeSettings \/ ServerDies
             \/ UNCHANGED notificationsVars
  BY <1>1, <1>2, OutsideRests
<1>3. ASSUME NEW n \in Notices, PauseTurn(n) \/ NextHeld(n)
      PROVE  NoticeInv'
  BY <1>3, PauseKeepsNotices, NextKeepsNotices
<1>4. CASE StartRelease
  BY <1>4, ListingKeepsNotices
<1>5. ASSUME NEW s \in Senders, ReadSettings(s)
      PROVE  NoticeInv'
  BY <1>5, ReadKeepsNotices
<1>6. ASSUME NEW s \in Senders, PostWebhook(s)
      PROVE  NoticeInv'
  <2>1. notice' = notice /\ settings' = settings /\ raced' = raced
    BY <1>6 DEF PostWebhook
  <2> QED
    BY <1>1, <1>6, <2>1, WebhookRests DEF NoticeInv
<1>7. ASSUME NEW s \in Senders, EndDelivery(s)
      PROVE  NoticeInv'
  <2>1. settings' = settings /\ raced' = raced
    BY <1>7 DEF EndDelivery
  <2> QED
    BY <1>1, <1>7, <2>1, EndRests DEF NoticeInv
<1>8. ASSUME NEW s \in Senders, NEW d \in Devices, CreateDelivery(s, d) \/ SendPush(s, d)
      PROVE  NoticeInv'
  BY <1>8, RowKeepsNotices, PushKeepsNotices
<1> QED
  BY <1>2, <1>3, <1>4, <1>5, <1>6, <1>7, <1>8 DEF NotificationsNext

(* An approval is pushed to a device at most once, for any number of        *)
(* notices and devices, wherever the process dies and whatever the owner    *)
(* changes meanwhile, unless the recovery loop listed the notice while its  *)
(* settlement was still delivering it (notify.ts, releaseHeldApprovalPush). *)
THEOREM NoSecondPush == NotificationsSpec => []PushedOnceUnlessRaced
<1>1. NotificationsInit => NoticeInv
  BY NoticesBegin
<1>2. NoticeInv /\ [NotificationsNext]_notificationsVars => NoticeInv'
  BY StepKeepsNotices
<1>3. NoticeInv => PushedOnceUnlessRaced
  BY DEF NoticeInv, PushesAreFirst, PushedOnceUnlessRaced
<1> QED
  BY <1>1, <1>2, <1>3, PTL DEF NotificationsSpec

-----------------------------------------------------------------------------
(* Families of jobs (Delegation).  The turns of a family form chains: one   *)
(* turn in a slot, and under it the child that each waiting turn waits for. *)
(* So only as many turns are at work as there are slots taken, and no more  *)
(* children can be checked and not yet created than the worker has slots.   *)

Live == {"running", "checked", "waiting"}

SlotTaken == {j \in DOMAIN family : family[j].slot}
AtWork == {j \in DOMAIN family : family[j].turn \in {"running", "checked"}}
Checked == {j \in DOMAIN family : family[j].turn = "checked"}

Inline(j) == ~ family[j].slot /\ family[j].turn \in Live

ChainsOfTurns ==
  /\ \A j \in DOMAIN family : family[j].slot => family[j].turn \in Live
  /\ \A j \in DOMAIN family : Inline(j) =>
       family[j].parent \in DOMAIN family /\ family[family[j].parent].turn = "waiting"
  /\ \A i, j \in DOMAIN family :
       Inline(i) /\ Inline(j) /\ family[i].parent = family[j].parent => i = j

DepthsHold ==
  \A j \in DOMAIN family :
    /\ family[j].depth <= MAX_DEPTH
    /\ family[j].turn = "checked" => family[j].depth < MAX_DEPTH

FamilyInv ==
  /\ family \in Seq(Job) /\ family # <<>>
  /\ ChainsOfTurns /\ DepthsHold
  /\ Cardinality(SlotTaken) <= Slots
  /\ Cardinality(AtWork) = Cardinality(SlotTaken)
  /\ Descendants + Cardinality(Checked) <= MAX_DESCENDANTS + Slots - 1

LEMMA FamiliesAreFinite ==
  ASSUME family \in Seq(Job)
  PROVE  /\ IsFiniteSet(SlotTaken) /\ IsFiniteSet(AtWork) /\ IsFiniteSet(Checked)
         /\ Cardinality(SlotTaken) \in Nat /\ Cardinality(AtWork) \in Nat
         /\ Cardinality(Checked) \in Nat /\ Cardinality(Checked) <= Cardinality(AtWork)
<1>1. Len(family) \in Nat /\ DOMAIN family = 1 .. Len(family)
  OBVIOUS
<1>2. IsFiniteSet(DOMAIN family)
  BY <1>1, FS_Interval
<1>3. SlotTaken \in SUBSET (DOMAIN family) /\ AtWork \in SUBSET (DOMAIN family)
  BY DEF SlotTaken, AtWork
<1>4. IsFiniteSet(SlotTaken) /\ IsFiniteSet(AtWork)
  BY <1>2, <1>3, FS_Subset
<1>5. Checked \in SUBSET AtWork
  BY DEF Checked, AtWork
<1>6. IsFiniteSet(Checked) /\ Cardinality(Checked) <= Cardinality(AtWork)
  BY <1>4, <1>5, FS_Subset
<1> QED
  BY <1>4, <1>6, FS_CardinalityType

LEMMA TurnIsSet ==
  ASSUME family \in Seq(Job), NEW j \in DOMAIN family, NEW slot \in BOOLEAN,
         NEW turn \in {"settled", "queued", "running", "checked", "waiting"},
         SetTurn(j, turn, slot)
  PROVE  /\ family' \in Seq(Job) /\ DOMAIN family' = DOMAIN family /\ Len(family') = Len(family)
         /\ family'[j].turn = turn /\ family'[j].slot = slot
         /\ \A i \in DOMAIN family : /\ family'[i].parent = family[i].parent
                                     /\ family'[i].depth = family[i].depth
                                     /\ i # j => family'[i] = family[i]
<1>1. PICK job : job = [[family[j] EXCEPT !.turn = turn] EXCEPT !.slot = slot]
  OBVIOUS
<1>2. family[j] \in Job
  OBVIOUS
<1>3. /\ job \in Job /\ job.turn = turn /\ job.slot = slot
      /\ job.parent = family[j].parent /\ job.depth = family[j].depth
  BY <1>1, <1>2 DEF Job
<1>4. family' = [family EXCEPT ![j] = job]
  BY <1>1, <1>2 DEF SetTurn, Job
<1> QED
  BY <1>3, <1>4

\* The chains only look at who is live, who waits, and under whom.
LEMMA ChainsStand ==
  ASSUME ChainsOfTurns, DOMAIN family' = DOMAIN family,
         \A i \in DOMAIN family :
           /\ family'[i].parent = family[i].parent
           /\ Inline(i)' => Inline(i)
           /\ family'[i].slot => family'[i].turn \in Live
           /\ family[i].turn = "waiting" => family'[i].turn = "waiting"
  PROVE  ChainsOfTurns'
BY DEF ChainsOfTurns

LEMMA ClaimKeepsFamily ==
  ASSUME FamilyInv, NEW j \in DOMAIN family, ClaimJob(j)
  PROVE  FamilyInv'
<1>1. family \in Seq(Job) /\ family[j].turn = "queued" /\ SetTurn(j, "running", TRUE)
  BY DEF FamilyInv, ClaimJob
<1>2. Cardinality(SlotTaken) < Slots
  BY DEF ClaimJob, FreeSlot, SlotTaken
<1>3. PICK run : run = "running"
  OBVIOUS
<1>4. /\ family' \in Seq(Job) /\ DOMAIN family' = DOMAIN family /\ Len(family') = Len(family)
      /\ family'[j].turn = "running" /\ family'[j].slot
      /\ \A i \in DOMAIN family : /\ family'[i].parent = family[i].parent
                                  /\ family'[i].depth = family[i].depth
                                  /\ i # j => family'[i] = family[i]
  BY <1>1, <1>3, TurnIsSet
<1>5. j \notin SlotTaken /\ j \notin AtWork
  BY <1>1 DEF FamilyInv, ChainsOfTurns, SlotTaken, AtWork, Live
<1>6. SlotTaken' = SlotTaken \cup {j} /\ AtWork' = AtWork \cup {j} /\ Checked' = Checked
  BY <1>1, <1>4 DEF SlotTaken, AtWork, Checked
<1>7. /\ Cardinality(SlotTaken') = Cardinality(SlotTaken) + 1
      /\ Cardinality(AtWork') = Cardinality(AtWork) + 1
  BY <1>1, <1>5, <1>6, FamiliesAreFinite, FS_AddElement
<1>8. ChainsOfTurns'
  <2>1. \A i \in DOMAIN family : /\ Inline(i)' => Inline(i)
                                 /\ family'[i].slot => family'[i].turn \in Live
                                 /\ family[i].turn = "waiting" => family'[i].turn = "waiting"
    BY <1>1, <1>4 DEF FamilyInv, ChainsOfTurns, Inline, Live
  <2> QED
    BY <1>4, <2>1, ChainsStand DEF FamilyInv
<1>9. DepthsHold'
  BY <1>1, <1>4 DEF FamilyInv, DepthsHold
<1>10. Descendants' = Descendants
  BY <1>4 DEF Descendants
<1>11. Slots \in Nat /\ Cardinality(SlotTaken) \in Nat
  BY <1>1, FamiliesAreFinite, DelegationAssumption
<1>12. family' # <<>>
  BY <1>4
<1> QED
  BY <1>2, <1>4, <1>6, <1>7, <1>8, <1>9, <1>10, <1>11, <1>12 DEF FamilyInv

\* A turn that is at work stays so: it checks the limits, or its child is
\* refused.
LEMMA CheckKeepsFamily ==
  ASSUME FamilyInv, NEW j \in DOMAIN family, CheckLimits(j) \/ ChildRefused(j)
  PROVE  FamilyInv'
<1>1. PICK turn \in {"running", "checked"} :
        /\ SetTurn(j, turn, family[j].slot)
        /\ turn = "checked" => CheckLimits(j)
  BY DEF CheckLimits, ChildRefused
<1>2. family \in Seq(Job) /\ family[j].turn \in {"running", "checked"} /\ family[j].slot \in BOOLEAN
  <2>1. family \in Seq(Job)
    BY DEF FamilyInv
  <2>2. family[j] \in Job
    BY <2>1
  <2> QED
    BY <2>1, <2>2 DEF CheckLimits, ChildRefused, Job
<1>3. /\ family' \in Seq(Job) /\ DOMAIN family' = DOMAIN family /\ Len(family') = Len(family)
      /\ family'[j].turn = turn /\ family'[j].slot = family[j].slot
      /\ \A i \in DOMAIN family : /\ family'[i].parent = family[i].parent
                                  /\ family'[i].depth = family[i].depth
                                  /\ i # j => family'[i] = family[i]
  BY <1>1, <1>2, TurnIsSet
<1>4. SlotTaken' = SlotTaken /\ AtWork' = AtWork
  BY <1>2, <1>3 DEF SlotTaken, AtWork
<1>5. ChainsOfTurns'
  <2>1. \A i \in DOMAIN family : /\ Inline(i)' => Inline(i)
                                 /\ family'[i].slot => family'[i].turn \in Live
                                 /\ family[i].turn = "waiting" => family'[i].turn = "waiting"
    BY <1>2, <1>3 DEF FamilyInv, ChainsOfTurns, Inline, Live
  <2> QED
    BY <1>3, <2>1, ChainsStand DEF FamilyInv
<1>6. DepthsHold'
  <2>1. turn = "checked" => family[j].depth < MAX_DEPTH
    BY <1>1 DEF CheckLimits, checkDelegationAllowed
  <2> QED
    BY <1>2, <1>3, <2>1 DEF FamilyInv, DepthsHold
<1>7. Descendants' = Descendants /\ Descendants \in Int
  BY <1>2, <1>3 DEF Descendants
<1>8. Descendants + Cardinality(Checked') <= MAX_DESCENDANTS + Slots - 1
  <2>1. /\ Slots \in Nat /\ MAX_DESCENDANTS \in Nat /\ Cardinality(Checked) \in Nat
        /\ Cardinality(AtWork) \in Nat
    BY <1>2, FamiliesAreFinite, DelegationAssumption
  <2>2. /\ Cardinality(Checked') \in Nat /\ Cardinality(Checked') <= Cardinality(AtWork')
    <3>1. (family \in Seq(Job) => /\ Cardinality(Checked) \in Nat
                                  /\ Cardinality(Checked) <= Cardinality(AtWork))'
      BY FamiliesAreFinite, PTL
    <3> QED
      BY <1>3, <3>1
  <2>3. CASE turn = "checked"
    <3>1. Descendants < MAX_DESCENDANTS
      BY <1>1, <2>3 DEF CheckLimits, checkDelegationAllowed
    <3>2. Cardinality(Checked') <= Slots
      BY <1>4, <2>1, <2>2 DEF FamilyInv
    <3> QED
      BY <1>7, <2>1, <2>2, <3>1, <3>2
  <2>4. CASE turn = "running"
    <3>1. Checked' \in SUBSET Checked
      BY <1>3, <2>4 DEF Checked
    <3>2. Cardinality(Checked') <= Cardinality(Checked)
      BY <1>2, <3>1, FamiliesAreFinite, FS_Subset
    <3> QED
      BY <1>7, <2>1, <2>2, <3>2 DEF FamilyInv
  <2> QED
    BY <2>3, <2>4
<1>9. family' # <<>>
  BY <1>3
<1> QED
  BY <1>3, <1>4, <1>5, <1>6, <1>7, <1>8, <1>9 DEF FamilyInv

LEMMA QueueKeepsFamily ==
  ASSUME FamilyInv, NEW j \in DOMAIN family, QueueAgain(j)
  PROVE  FamilyInv'
<1>1. family \in Seq(Job) /\ family[j].turn = "settled" /\ SetTurn(j, "queued", FALSE)
  BY DEF FamilyInv, QueueAgain
<1>2. PICK queue : queue = "queued"
  OBVIOUS
<1>3. /\ family' \in Seq(Job) /\ DOMAIN family' = DOMAIN family /\ Len(family') = Len(family)
      /\ family'[j].turn = "queued" /\ ~ family'[j].slot
      /\ \A i \in DOMAIN family : /\ family'[i].parent = family[i].parent
                                  /\ family'[i].depth = family[i].depth
                                  /\ i # j => family'[i] = family[i]
  BY <1>1, <1>2, TurnIsSet
<1>4. ~ family[j].slot
  BY <1>1 DEF FamilyInv, ChainsOfTurns, Live
<1>5. SlotTaken' = SlotTaken /\ AtWork' = AtWork /\ Checked' = Checked
  BY <1>1, <1>3, <1>4 DEF SlotTaken, AtWork, Checked
<1>6. ChainsOfTurns'
  <2>1. \A i \in DOMAIN family : /\ Inline(i)' => Inline(i)
                                 /\ family'[i].slot => family'[i].turn \in Live
                                 /\ family[i].turn = "waiting" => family'[i].turn = "waiting"
    BY <1>1, <1>3 DEF FamilyInv, ChainsOfTurns, Inline, Live
  <2> QED
    BY <1>3, <2>1, ChainsStand DEF FamilyInv
<1>7. DepthsHold' /\ Descendants' = Descendants
  BY <1>1, <1>3 DEF FamilyInv, DepthsHold, Descendants
<1>8. family' # <<>>
  BY <1>3
<1> QED
  BY <1>3, <1>5, <1>6, <1>7, <1>8 DEF FamilyInv

\* The child takes the place of its parent: one turn at work for another.
LEMMA StartKeepsFamily ==
  ASSUME FamilyInv, NEW j \in DOMAIN family, StartChild(j)
  PROVE  FamilyInv'
<1>1. family \in Seq(Job) /\ family[j] \in Job /\ family[j].turn = "checked" /\ j \in Nat
  BY DEF FamilyInv, StartChild
<1>2. PICK job : job = [family[j] EXCEPT !.turn = "waiting"]
  OBVIOUS
<1>3. PICK child : child = [parent |-> j, depth |-> family[j].depth + 1, slot |-> FALSE,
                            turn |-> "running"]
  OBVIOUS
<1>4. /\ job \in Job /\ job.turn = "waiting" /\ job.slot = family[j].slot
      /\ job.parent = family[j].parent /\ job.depth = family[j].depth
  BY <1>1, <1>2 DEF Job
<1>5. /\ child \in Job /\ child.parent = j /\ child.depth = family[j].depth + 1
      /\ ~ child.slot /\ child.turn = "running" /\ family[j].depth \in Nat
  BY <1>1, <1>3 DEF Job
<1>6. family' = Append([family EXCEPT ![j] = job], child)
  BY <1>1, <1>2, <1>3 DEF StartChild, Job
<1>7. PICK k : k = Len(family) + 1
  OBVIOUS
<1>8. /\ family' \in Seq(Job) /\ family' # <<>> /\ Len(family') = Len(family) + 1
      /\ DOMAIN family' = DOMAIN family \cup {k} /\ k \notin DOMAIN family
      /\ family'[j] = job /\ family'[k] = child
      /\ \A i \in DOMAIN family : i # j => family'[i] = family[i]
  BY <1>1, <1>4, <1>5, <1>6, <1>7
<1>9. \A i \in DOMAIN family : /\ family'[i].parent = family[i].parent
                               /\ family'[i].depth = family[i].depth
                               /\ family'[i].slot = family[i].slot
                               /\ i # j => family'[i].turn = family[i].turn
  BY <1>4, <1>8
<1>10. SlotTaken' = SlotTaken
  BY <1>5, <1>8, <1>9 DEF SlotTaken
<1>11. AtWork' = (AtWork \ {j}) \cup {k} /\ j \in AtWork /\ k \notin AtWork
  BY <1>1, <1>4, <1>5, <1>8, <1>9 DEF AtWork
<1>12. Checked' = Checked \ {j} /\ j \in Checked
  BY <1>1, <1>4, <1>5, <1>8, <1>9 DEF Checked
<1>13. IsFiniteSet(AtWork) /\ Cardinality(AtWork) \in Nat
       /\ IsFiniteSet(Checked) /\ Cardinality(Checked) \in Nat
  BY <1>1, FamiliesAreFinite
<1>14. Cardinality(AtWork') = Cardinality(AtWork)
  <2>1. IsFiniteSet(AtWork \ {j}) /\ Cardinality(AtWork \ {j}) = Cardinality(AtWork) - 1
    BY <1>11, <1>13, FS_RemoveElement
  <2>2. Cardinality((AtWork \ {j}) \cup {k}) = Cardinality(AtWork \ {j}) + 1
    BY <1>11, <2>1, FS_AddElement
  <2> QED
    BY <1>11, <1>13, <2>1, <2>2
<1>15. Cardinality(Checked') = Cardinality(Checked) - 1
  BY <1>12, <1>13, FS_RemoveElement
<1>16. Descendants' = Descendants + 1 /\ Descendants \in Int
  BY <1>1, <1>8 DEF Descendants
<1>17. DepthsHold'
  <2>1. family[j].depth + 1 <= MAX_DEPTH
    BY <1>1, <1>5, DelegationAssumption DEF FamilyInv, DepthsHold
  <2> QED
    BY <1>4, <1>5, <1>8, <1>9, <2>1 DEF FamilyInv, DepthsHold
<1>18. ChainsOfTurns'
  <2>1. \A i \in DOMAIN family : /\ Inline(i)' <=> Inline(i)
                                 /\ Inline(i) => family[i].parent # j
    BY <1>1, <1>4, <1>8, <1>9 DEF FamilyInv, ChainsOfTurns, Inline, Live
  <2>2. \A i \in DOMAIN family' : family'[i].slot => family'[i].turn \in Live
    BY <1>4, <1>5, <1>8, <1>9 DEF FamilyInv, ChainsOfTurns, Live
  <2>3. \A i \in DOMAIN family : Inline(i) =>
          family[i].parent \in DOMAIN family /\ family'[family[i].parent].turn = "waiting"
    BY <1>9, <2>1 DEF FamilyInv, ChainsOfTurns
  <2>4. \A i \in DOMAIN family' : Inline(i)' =>
          family'[i].parent \in DOMAIN family' /\ family'[family'[i].parent].turn = "waiting"
    BY <1>4, <1>5, <1>8, <1>9, <2>1, <2>3
  <2>5. \A h, i \in DOMAIN family' :
          Inline(h)' /\ Inline(i)' /\ family'[h].parent = family'[i].parent => h = i
    BY <1>5, <1>8, <1>9, <2>1 DEF FamilyInv, ChainsOfTurns
  <2> QED
    BY <2>2, <2>4, <2>5 DEF ChainsOfTurns
<1>19. Slots \in Nat /\ MAX_DESCENDANTS \in Nat
  BY DelegationAssumption
<1> QED
  BY <1>8, <1>10, <1>13, <1>14, <1>15, <1>16, <1>17, <1>18, <1>19 DEF FamilyInv

\* A turn ends in its slot and frees it, or hands over to the parent that
\* waits for it.
LEMMA EndKeepsFamily ==
  ASSUME FamilyInv, NEW j \in DOMAIN family, EndJobTurn(j)
  PROVE  FamilyInv'
<1>1. /\ family \in Seq(Job) /\ family[j].turn = "running"
      /\ \A i \in DOMAIN family : family[i] \in Job
      /\ DOMAIN family = 1 .. Len(family) /\ Len(family) \in Nat
  <2>1. family \in Seq(Job)
    BY DEF FamilyInv
  <2>2. \A i \in DOMAIN family : family[i] \in Job
    BY <2>1
  <2>3. DOMAIN family = 1 .. Len(family) /\ Len(family) \in Nat
    BY <2>1
  <2>4. family[j].turn = "running"
    BY DEF EndJobTurn
  <2> QED
    BY <2>1, <2>2, <2>3, <2>4
<1>2. PICK p : p = family[j].parent
  OBVIOUS
<1>3. ~ family[j].slot => p \in DOMAIN family /\ family[p].turn = "waiting" /\ p # j
  BY <1>1, <1>2 DEF FamilyInv, ChainsOfTurns, Inline, Live
<1>4. family' = [i \in DOMAIN family |->
        IF i = j THEN [[family[i] EXCEPT !.turn = "settled"] EXCEPT !.slot = FALSE]
        ELSE IF i = p /\ ~ family[j].slot THEN [family[i] EXCEPT !.turn = "running"]
        ELSE family[i]]
  BY <1>1, <1>2 DEF EndJobTurn, Job
<1>5. ASSUME NEW i \in DOMAIN family
      PROVE  /\ family'[i] \in Job
             /\ family'[i].parent = family[i].parent /\ family'[i].depth = family[i].depth
             /\ i = j => family'[i].turn = "settled" /\ ~ family'[i].slot
             /\ i # j => family'[i].slot = family[i].slot
             /\ i # j /\ i = p /\ ~ family[j].slot => family'[i].turn = "running"
             /\ i # j /\ ~ (i = p /\ ~ family[j].slot) => family'[i].turn = family[i].turn
  <2>1. family[i] \in Job
    BY <1>1
  <2>2. CASE i = j
    BY <1>4, <2>1, <2>2 DEF Job
  <2>3. CASE i # j /\ i = p /\ ~ family[j].slot
    BY <1>4, <2>1, <2>3 DEF Job
  <2>4. CASE i # j /\ ~ (i = p /\ ~ family[j].slot)
    BY <1>4, <2>1, <2>4 DEF Job
  <2> QED
    BY <2>2, <2>3, <2>4
<1>6. /\ DOMAIN family' = DOMAIN family /\ family' \in Seq(Job)
      /\ Len(family') = Len(family) /\ family' # <<>>
  <2>1. DOMAIN family' = DOMAIN family
    BY <1>4
  <2>2. family' = [i \in 1 .. Len(family) |-> family'[i]]
    BY <1>1, <1>4
  <2>3. family' \in Seq(Job)
    BY <1>1, <1>5, <2>2
  <2>4. Len(family') = Len(family)
    BY <1>1, <2>1, <2>3
  <2> QED
    BY <1>1, <2>1, <2>3, <2>4 DEF FamilyInv
<1>7. Checked' = Checked
  BY <1>1, <1>3, <1>5, <1>6 DEF Checked
<1>8. /\ IsFiniteSet(AtWork) /\ Cardinality(AtWork) \in Nat
      /\ IsFiniteSet(SlotTaken) /\ Cardinality(SlotTaken) \in Nat
  BY <1>1, FamiliesAreFinite
<1>9. /\ Cardinality(SlotTaken') <= Slots
      /\ Cardinality(AtWork') = Cardinality(SlotTaken')
  <2>1. CASE family[j].slot
    <3>1. SlotTaken' = SlotTaken \ {j} /\ j \in SlotTaken
      BY <1>5, <1>6, <2>1 DEF SlotTaken
    <3>2. AtWork' = AtWork \ {j} /\ j \in AtWork
      BY <1>1, <1>5, <1>6, <2>1 DEF AtWork
    <3>3. /\ Cardinality(SlotTaken') = Cardinality(SlotTaken) - 1
          /\ Cardinality(AtWork') = Cardinality(AtWork) - 1
      BY <1>8, <3>1, <3>2, FS_RemoveElement
    <3> QED
      BY <1>8, <3>3, DelegationAssumption DEF FamilyInv
  <2>2. CASE ~ family[j].slot
    <3>1. SlotTaken' = SlotTaken
      BY <1>5, <1>6, <2>2 DEF SlotTaken
    <3>2. AtWork' = (AtWork \ {j}) \cup {p} /\ j \in AtWork /\ p \notin AtWork
      BY <1>1, <1>3, <1>5, <1>6, <2>2 DEF AtWork
    <3>3. IsFiniteSet(AtWork \ {j}) /\ Cardinality(AtWork \ {j}) = Cardinality(AtWork) - 1
      BY <1>8, <3>2, FS_RemoveElement
    <3>4. Cardinality((AtWork \ {j}) \cup {p}) = Cardinality(AtWork \ {j}) + 1
      BY <3>2, <3>3, FS_AddElement
    <3> QED
      BY <1>8, <3>1, <3>2, <3>3, <3>4 DEF FamilyInv
  <2> QED
    BY <2>1, <2>2
<1>10. DepthsHold' /\ Descendants' = Descendants
  BY <1>1, <1>3, <1>5, <1>6 DEF FamilyInv, DepthsHold, Descendants
<1>11. ChainsOfTurns'
  <2>1. ASSUME NEW i \in DOMAIN family, Inline(i)'
        PROVE  Inline(i) /\ i # j /\ (~ family[j].slot => family[i].parent # p)
    <3>1. Inline(i) /\ i # j
      BY <1>1, <1>3, <1>5, <2>1 DEF Inline, Live
    <3>2. ~ family[j].slot => Inline(j)
      BY <1>1 DEF Inline, Live
    <3> QED
      BY <1>2, <3>1, <3>2 DEF FamilyInv, ChainsOfTurns
  <2>2. ASSUME NEW i \in DOMAIN family, Inline(i)'
        PROVE  family'[i].parent \in DOMAIN family /\ family'[family'[i].parent].turn = "waiting"
    <3>1. family[i].parent \in DOMAIN family /\ family[family[i].parent].turn = "waiting"
      BY <2>1, <2>2 DEF FamilyInv, ChainsOfTurns
    <3>2. family[i].parent # j
      BY <1>1, <3>1
    <3> QED
      BY <1>5, <2>1, <2>2, <3>1, <3>2
  <2>3. ASSUME NEW i \in DOMAIN family, family'[i].slot PROVE family'[i].turn \in Live
    BY <1>3, <1>5, <2>3 DEF FamilyInv, ChainsOfTurns, Live
  <2>4. \A h, i \in DOMAIN family :
          Inline(h)' /\ Inline(i)' /\ family'[h].parent = family'[i].parent => h = i
    BY <1>5, <2>1 DEF FamilyInv, ChainsOfTurns
  <2> QED
    BY <1>6, <2>2, <2>3, <2>4 DEF ChainsOfTurns
<1> QED
  BY <1>6, <1>7, <1>9, <1>10, <1>11 DEF FamilyInv

LEMMA FamilyBegins ==
  ASSUME DelegationInit
  PROVE  FamilyInv
<1>1. PICK root : root = [parent |-> 0, depth |-> 0, slot |-> FALSE, turn |-> "queued"]
  OBVIOUS
<1>2. root \in Job /\ root.depth = 0 /\ ~ root.slot /\ root.turn = "queued"
  BY <1>1 DEF Job
<1>3. family = <<root>>
  BY <1>1 DEF DelegationInit
<1>4. family \in Seq(Job) /\ family # <<>> /\ Len(family) = 1
      /\ \A j \in DOMAIN family : family[j] = root
  BY <1>2, <1>3
<1>5. SlotTaken = {} /\ AtWork = {} /\ Checked = {}
  BY <1>2, <1>4 DEF SlotTaken, AtWork, Checked
<1>6. Cardinality({}) = 0
  BY FS_EmptySet
<1>7. /\ MAX_DEPTH \in Nat /\ MAX_DESCENDANTS \in Nat /\ Slots \in Nat \ {0}
  BY DelegationAssumption
<1>8. ChainsOfTurns /\ DepthsHold
  BY <1>2, <1>4, <1>7 DEF ChainsOfTurns, DepthsHold, Inline, Live
<1> QED
  BY <1>4, <1>5, <1>6, <1>7, <1>8 DEF FamilyInv, Descendants

LEMMA FamilyInvariant == DelegationSpec => []FamilyInv
<1>1. DelegationInit => FamilyInv
  BY FamilyBegins
<1>2. FamilyInv /\ [DelegationNext]_delegationVars => FamilyInv'
  <2> SUFFICES ASSUME FamilyInv, [DelegationNext]_delegationVars PROVE FamilyInv'
    OBVIOUS
  <2>1. CASE UNCHANGED delegationVars
    BY <2>1 DEF delegationVars, FamilyInv, ChainsOfTurns, DepthsHold, SlotTaken, AtWork, Checked,
                Descendants, Inline
  <2>2. CASE DelegationNext
    BY <2>2, ClaimKeepsFamily, CheckKeepsFamily, StartKeepsFamily, EndKeepsFamily,
       QueueKeepsFamily DEF DelegationNext
  <2> QED
    BY <2>1, <2>2
<1> QED
  BY <1>1, <1>2, PTL DEF DelegationSpec

(* However the turns of a family interleave, in any number of slots, no job *)
(* is deeper than the limit and the family outgrows its size by less than   *)
(* the worker has slots (delegation.ts, and onDelegate of dispatcher.ts).   *)
THEOREM LimitsHoldButForTheSlots == DelegationSpec => []FamilyStaysSmall
<1>1. FamilyInv => FamilyStaysSmall
  <2> SUFFICES ASSUME FamilyInv PROVE FamilyStaysSmall
    OBVIOUS
  <2>1. /\ Cardinality(Checked) \in Nat /\ Len(family) \in Nat
        /\ MAX_DESCENDANTS \in Nat /\ Slots \in Nat
    BY FamiliesAreFinite, DelegationAssumption DEF FamilyInv
  <2> QED
    BY <2>1 DEF FamilyInv, DepthsHold, Descendants, FamilyStaysSmall
<1> QED
  BY <1>1, FamilyInvariant, PTL

\* A child is younger than its parent.
ParentsFirst == \A j \in DOMAIN family : family[j].parent < j

LEMMA TurnKeepsParents ==
  ASSUME family \in Seq(Job), ParentsFirst, NEW j \in DOMAIN family, NEW slot \in BOOLEAN,
         NEW turn \in {"settled", "queued", "running", "checked", "waiting"},
         SetTurn(j, turn, slot)
  PROVE  ParentsFirst'
<1>1. DOMAIN family' = DOMAIN family /\ \A i \in DOMAIN family : family'[i].parent = family[i].parent
  BY TurnIsSet
<1> QED
  BY <1>1 DEF ParentsFirst

LEMMA ParentsStayFirst ==
  ASSUME FamilyInv, ParentsFirst, DelegationNext
  PROVE  ParentsFirst'
<1>1. family \in Seq(Job)
  BY DEF FamilyInv
<1>2. PICK j \in DOMAIN family :
        \/ ClaimJob(j) \/ CheckLimits(j) \/ StartChild(j) \/ ChildRefused(j)
        \/ EndJobTurn(j) \/ QueueAgain(j)
  BY DEF DelegationNext
<1>3. \A i \in DOMAIN family : family[i] \in Job
  BY <1>1
<1>4. family[j].slot \in BOOLEAN
  BY <1>3 DEF Job
<1>5. CASE ClaimJob(j) \/ CheckLimits(j) \/ ChildRefused(j) \/ QueueAgain(j)
  BY <1>1, <1>4, <1>5, TurnKeepsParents DEF ClaimJob, CheckLimits, ChildRefused, QueueAgain
<1>6. CASE StartChild(j)
  <2>1. PICK child : child = [parent |-> j, depth |-> family[j].depth + 1,
                              slot |-> FALSE, turn |-> "running"]
    OBVIOUS
  <2>2. PICK n : n = Len(family)
    OBVIOUS
  <2>3. PICK job : job = [family[j] EXCEPT !.turn = "waiting"]
    OBVIOUS
  <2>4. job \in Job /\ job.parent = family[j].parent
    BY <1>3, <2>3 DEF Job
  <2>5. PICK parents : parents = [family EXCEPT ![j] = job]
    OBVIOUS
  <2>6. /\ parents \in Seq(Job) /\ DOMAIN parents = DOMAIN family /\ Len(parents) = n
        /\ \A i \in DOMAIN family : parents[i].parent = family[i].parent
    BY <1>1, <2>2, <2>5, <2>4
  <2>7. family' = Append(parents, child) /\ child.parent = j
    BY <1>6, <2>1, <2>5, <2>3 DEF StartChild
  <2>8. /\ n \in Nat /\ j \in 1 .. n /\ DOMAIN family = 1 .. n /\ DOMAIN family' = 1 .. n + 1
        /\ family'[n + 1] = child /\ \A i \in 1 .. n : family'[i] = parents[i]
    BY <1>1, <2>2, <2>6, <2>7
  <2> QED
    BY <2>6, <2>7, <2>8 DEF ParentsFirst
<1>7. CASE EndJobTurn(j)
  <2>1. DOMAIN family' = DOMAIN family /\ \A i \in DOMAIN family : family'[i].parent = family[i].parent
    <3>1. \A i \in DOMAIN family :
            /\ [family[i] EXCEPT !.turn = "settled", !.slot = FALSE].parent = family[i].parent
            /\ [family[i] EXCEPT !.turn = "running"].parent = family[i].parent
      BY <1>3 DEF Job
    <3>2. family' = [i \in DOMAIN family |->
            IF i = j THEN [family[i] EXCEPT !.turn = "settled", !.slot = FALSE]
            ELSE IF i = family[j].parent /\ ~ family[j].slot
                   THEN [family[i] EXCEPT !.turn = "running"]
            ELSE family[i]]
      BY <1>7 DEF EndJobTurn
    <3> QED
      BY <3>1, <3>2
  <2> QED
    BY <2>1 DEF ParentsFirst
<1> QED
  BY <1>2, <1>5, <1>6, <1>7

(* However the turns of a family interleave, they take no more slots than   *)
(* the worker has, and every job is younger than the one that asked for it  *)
(* (dispatcher.ts, claimJob and onDelegate).                                *)
THEOREM FamiliesAreTyped == DelegationSpec => []DelegationTypeOK
<1>1. DelegationInit => FamilyInv /\ ParentsFirst
  BY FamilyBegins DEF DelegationInit, ParentsFirst
<1>2. FamilyInv /\ ParentsFirst /\ [DelegationNext]_delegationVars => ParentsFirst'
  BY ParentsStayFirst DEF delegationVars, ParentsFirst
<1>3. FamilyInv /\ ParentsFirst => DelegationTypeOK
  BY DEF FamilyInv, ParentsFirst, DelegationTypeOK, SlotTaken
<1> QED
  BY <1>1, <1>2, <1>3, FamilyInvariant, PTL DEF DelegationSpec

-----------------------------------------------------------------------------
(* The reporting line (Roster).  That nobody is above himself has a witness *)
(* for each persona: a set of personas that holds his manager and all of    *)
(* their managers, and not him.                                             *)

Spares(S, m, q) ==
  /\ S \in SUBSET DOMAIN roster /\ HoldsItsManagers(S)
  /\ m \in S \cup {NoManager} /\ q \notin S

NoCycle == \A q \in DOMAIN roster : \E S : Spares(S, roster[q].reportsTo, q)

PersonaRow == [reportsTo : Personas \cup {NoManager}, tools : [ToolIds -> Permitted]]

CallFits(c) ==
  /\ c.persona \in DOMAIN roster
  /\ c.pc = "manager" => c.manager \in DOMAIN roster
  /\ c.pc # "manager" => c.pc \in {"form", "always"} /\ c.tools \in [ToolIds -> Permitted]

RosterFits ==
  /\ DOMAIN roster \subseteq Personas /\ roster \in [DOMAIN roster -> PersonaRow]
  /\ \A p \in DOMAIN roster : roster[p].reportsTo \in DOMAIN roster \cup {NoManager}
  /\ \A c \in calls : CallFits(c)

\* What a request checked is so until another change of a manager is stored.
ChecksHold == \A c \in calls : c.pc = "manager" => \E S : Spares(S, c.manager, c.persona)

RosterInv == RosterFits /\ (~ crossed => NoCycle /\ ChecksHold)

LEMMA AboveIsWitnessed ==
  ASSUME NEW m, NEW q \in DOMAIN roster, m \in DOMAIN roster \cup {NoManager},
         DOMAIN roster \subseteq Personas
  PROVE  q \notin Above(m) <=> \E S : Spares(S, m, q)
<1>1. NoManager \notin DOMAIN roster
  BY NoManagerAssumption
<1>2. q \notin Above(m) <=> \E S \in SUBSET DOMAIN roster :
        {m} \cap DOMAIN roster \subseteq S /\ HoldsItsManagers(S) /\ q \notin S
  BY DEF Above
<1>3. \A S : {m} \cap DOMAIN roster \subseteq S <=> m \in S \cup {NoManager} \/ m \notin DOMAIN roster
  BY <1>1
<1> QED
  BY <1>1, <1>2, <1>3 DEF Spares

\* The line stays as it was, or somebody leaves it.
LEMMA SparedStillSpared ==
  ASSUME DOMAIN roster' = DOMAIN roster,
         \A p \in DOMAIN roster : roster'[p].reportsTo \in {roster[p].reportsTo, NoManager},
         NEW S, NEW m, NEW q, Spares(S, m, q)
  PROVE  Spares(S, m, q)' /\ Spares(S, NoManager, q)'
BY DEF Spares, HoldsItsManagers

LEMMA LineIsKept ==
  ASSUME RosterInv, RosterFits', DOMAIN roster' = DOMAIN roster, UNCHANGED crossed,
         \A p \in DOMAIN roster : roster'[p].reportsTo \in {roster[p].reportsTo, NoManager},
         \A c \in calls' \ calls : c.pc = "manager" => (\E S : Spares(S, c.manager, c.persona))'
  PROVE  RosterInv'
<1> SUFFICES ASSUME ~ crossed PROVE NoCycle' /\ ChecksHold'
  BY DEF RosterInv
<1>1. NoCycle'
  BY SparedStillSpared DEF RosterInv, NoCycle
<1>2. ChecksHold'
  BY SparedStillSpared DEF RosterInv, ChecksHold
<1> QED
  BY <1>1, <1>2

LEMMA OtherCallsFit ==
  ASSUME RosterFits, DOMAIN roster \subseteq DOMAIN roster', NEW c \in calls
  PROVE  CallFits(c)'
BY DEF RosterFits, CallFits

LEMMA HireKeepsRoster ==
  ASSUME RosterInv, NEW p \in Personas, NEW manager, HirePersona(p, manager)
  PROVE  RosterInv'
<1>1. /\ p \in Personas \ DOMAIN roster /\ manager \in DOMAIN roster \cup {NoManager}
      /\ UNCHANGED <<calls, crossed>> /\ RosterFits
  BY DEF HirePersona, RosterInv
<1>2. PICK row : row = [reportsTo |-> manager, tools |-> [t \in ToolIds |-> "ask"]]
  OBVIOUS
<1>3. row \in PersonaRow /\ row.reportsTo = manager
  BY <1>1, <1>2 DEF RosterFits, PersonaRow, Permitted
<1>4. roster' = [q \in DOMAIN roster \cup {p} |-> IF q = p THEN row ELSE roster[q]]
  BY <1>2 DEF HirePersona
<1>5. /\ DOMAIN roster' = DOMAIN roster \cup {p} /\ roster'[p] = row
      /\ \A q \in DOMAIN roster : roster'[q] = roster[q] /\ q # p
      /\ NoManager # p /\ NoManager \notin DOMAIN roster
  BY <1>1, <1>4, NoManagerAssumption DEF RosterFits
<1>6. RosterFits'
  <2>1. DOMAIN roster' \subseteq Personas /\ roster' \in [DOMAIN roster' -> PersonaRow]
    BY <1>1, <1>3, <1>4, <1>5 DEF RosterFits
  <2>2. \A q \in DOMAIN roster' : roster'[q].reportsTo \in DOMAIN roster' \cup {NoManager}
    BY <1>1, <1>3, <1>5 DEF RosterFits
  <2>3. \A c \in calls' : CallFits(c)'
    BY <1>1, <1>5, OtherCallsFit
  <2> QED
    BY <2>1, <2>2, <2>3 DEF RosterFits
<1>7. ASSUME NEW S, NEW m, NEW q, Spares(S, m, q)
      PROVE  Spares(S, m, q)'
  BY <1>5, <1>7 DEF Spares, HoldsItsManagers
<1> SUFFICES ASSUME ~ crossed PROVE NoCycle' /\ ChecksHold'
  BY <1>1, <1>6 DEF RosterInv
<1>8. NoCycle'
  <2> SUFFICES ASSUME NEW q \in DOMAIN roster' PROVE \E S : Spares(S, roster[q].reportsTo, q)'
    BY DEF NoCycle
  <2>1. CASE q = p
    <3>1. PICK S : S = DOMAIN roster
      OBVIOUS
    <3>2. roster'[q].reportsTo = manager /\ Spares(S, manager, q)'
      BY <1>3, <1>5, <1>1, <2>1, <3>1 DEF Spares, HoldsItsManagers, RosterFits
    <3> QED
      BY <3>2 DEF Spares
  <2>2. CASE q \in DOMAIN roster
    <3>1. PICK S : Spares(S, roster[q].reportsTo, q)
      BY <2>2 DEF RosterInv, NoCycle
    <3>2. PICK m : m = roster[q].reportsTo
      OBVIOUS
    <3>3. Spares(S, m, q)' /\ roster'[q].reportsTo = m
      BY <1>5, <1>7, <2>2, <3>1, <3>2
    <3> QED
      BY <3>3 DEF Spares
  <2> QED
    BY <1>5, <2>1, <2>2
<1>9. ChecksHold'
  BY <1>1, <1>7 DEF RosterInv, ChecksHold
<1> QED
  BY <1>8, <1>9

LEMMA CheckKeepsRoster ==
  ASSUME RosterInv, NEW p, NEW manager, CheckManager(p, manager)
  PROVE  RosterInv'
<1>1. /\ p \in DOMAIN roster /\ manager \in DOMAIN roster /\ p \notin Above(manager)
      /\ UNCHANGED <<roster, crossed>> /\ RosterFits
      /\ calls' = calls \cup {[pc |-> "manager", persona |-> p, manager |-> manager]}
  BY DEF CheckManager, StartCall, wouldCreateReportingCycle, RosterInv
<1>2. PICK c : c = [pc |-> "manager", persona |-> p, manager |-> manager]
  OBVIOUS
<1>3. c.pc = "manager" /\ c.persona = p /\ c.manager = manager
  BY <1>2
<1>4. \E S : Spares(S, manager, p)
  BY <1>1, AboveIsWitnessed DEF RosterFits
<1>5. (\E S : Spares(S, c.manager, c.persona))'
  BY <1>1, <1>3, <1>4 DEF Spares, HoldsItsManagers
<1>6. CallFits(c)'
  BY <1>1, <1>3 DEF CallFits
<1>7. RosterFits'
  BY <1>1, <1>2, <1>6, OtherCallsFit DEF RosterFits
<1> QED
  BY <1>1, <1>2, <1>5, <1>7, LineIsKept

LEMMA WriteManagerKeepsRoster ==
  ASSUME RosterInv, NEW c \in calls, WriteManager(c)
  PROVE  RosterInv'
<1>1. /\ c.pc = "manager" /\ RosterFits /\ calls' = calls \ {c}
      /\ roster' = [roster EXCEPT ![c.persona].reportsTo = c.manager]
      /\ ~ crossed' => ~ crossed /\ \A d \in calls' : d.pc # "manager"
  BY DEF WriteManager, EndCall, RosterInv
<1>2. PICK p, m : p = c.persona /\ m = c.manager
  OBVIOUS
<1>3. p \in DOMAIN roster /\ m \in DOMAIN roster /\ DOMAIN roster \subseteq Personas
  BY <1>1, <1>2 DEF RosterFits, CallFits
<1>4. PICK row : row = [roster[p] EXCEPT !.reportsTo = m]
  OBVIOUS
<1>5. row \in PersonaRow /\ row.reportsTo = m
  <2>1. PICK old : old = roster[p]
    OBVIOUS
  <2>2. old \in PersonaRow
    BY <1>1, <1>3, <2>1 DEF RosterFits
  <2> QED
    BY <1>3, <1>4, <2>1, <2>2 DEF PersonaRow
<1>6. roster' = [roster EXCEPT ![p] = row]
  BY <1>1, <1>2, <1>4
<1>7. /\ DOMAIN roster' = DOMAIN roster /\ roster'[p].reportsTo = m
      /\ \A q \in DOMAIN roster \ {p} : roster'[q] = roster[q]
      /\ roster' \in [DOMAIN roster' -> PersonaRow]
  BY <1>1, <1>3, <1>5, <1>6 DEF RosterFits
<1>8. RosterFits'
  BY <1>1, <1>3, <1>7, OtherCallsFit DEF RosterFits
<1> SUFFICES ASSUME ~ crossed' PROVE NoCycle' /\ ChecksHold'
  BY <1>8 DEF RosterInv
<1>9. ChecksHold'
  BY <1>1 DEF ChecksHold
<1>10. PICK T : Spares(T, m, p)
  BY <1>1, <1>2 DEF RosterInv, ChecksHold
<1>11. NoManager \notin DOMAIN roster
  BY <1>3, NoManagerAssumption
<1>12. ASSUME NEW q \in DOMAIN roster PROVE \E S : Spares(S, roster[q].reportsTo, q)'
  <2>1. PICK S : Spares(S, roster[q].reportsTo, q)
    BY <1>1 DEF RosterInv, NoCycle
  <2>2. PICK r : r = roster'[q].reportsTo
    OBVIOUS
  <2>3. CASE q = p
    <3>1. Spares(T, r, q)'
      BY <1>7, <1>10, <2>2, <2>3 DEF Spares, HoldsItsManagers
    <3> QED
      BY <2>2, <3>1 DEF Spares
  <2>4. CASE q # p /\ q \in T
    <3>1. PICK U : U = S \cap T
      OBVIOUS
    <3>2. Spares(U, r, q)'
      BY <1>7, <1>10, <2>1, <2>2, <2>4, <3>1 DEF Spares, HoldsItsManagers
    <3> QED
      BY <2>2, <3>2 DEF Spares
  <2>5. CASE q # p /\ q \notin T
    <3>1. PICK U : U = S \cup T
      OBVIOUS
    <3>2. Spares(U, r, q)'
      BY <1>7, <1>10, <2>1, <2>2, <2>5, <3>1 DEF Spares, HoldsItsManagers
    <3> QED
      BY <2>2, <3>2 DEF Spares
  <2> QED
    BY <2>3, <2>4, <2>5
<1> QED
  BY <1>7, <1>9, <1>12 DEF NoCycle

LEMMA ClearKeepsRoster ==
  ASSUME RosterInv, NEW p, ClearManager(p)
  PROVE  RosterInv'
<1>1. /\ p \in DOMAIN roster /\ RosterFits /\ UNCHANGED <<calls, crossed>>
      /\ roster' = [roster EXCEPT ![p].reportsTo = NoManager]
  BY DEF ClearManager, RosterInv
<1>2. PICK old, row : old = roster[p] /\ row = [old EXCEPT !.reportsTo = NoManager]
  OBVIOUS
<1>3. row \in PersonaRow /\ row.reportsTo = NoManager
  BY <1>1, <1>2 DEF RosterFits, PersonaRow
<1>4. roster' = [roster EXCEPT ![p] = row]
  BY <1>1, <1>2
<1>5. /\ DOMAIN roster' = DOMAIN roster /\ roster'[p].reportsTo = NoManager
      /\ \A q \in DOMAIN roster \ {p} : roster'[q] = roster[q]
      /\ roster' \in [DOMAIN roster' -> PersonaRow]
  BY <1>1, <1>3, <1>4 DEF RosterFits
<1>6. RosterFits'
  BY <1>1, <1>5, OtherCallsFit DEF RosterFits
<1> QED
  BY <1>1, <1>5, <1>6, LineIsKept

\* A request for the tools begins.
LEMMA ToolCallKeepsRoster ==
  ASSUME RosterInv, NEW c, c.pc \in {"form", "always"}, c.persona \in DOMAIN roster,
         c.tools \in [ToolIds -> Permitted], calls' = calls \cup {c}, UNCHANGED <<roster, crossed>>
  PROVE  RosterInv'
<1>1. CallFits(c)' /\ RosterFits
  BY DEF CallFits, RosterInv
<1>2. RosterFits'
  BY <1>1, OtherCallsFit DEF RosterFits
<1> QED
  BY <1>2, LineIsKept

LEMMA AssignedTools ==
  ASSUME RosterFits, NEW p \in DOMAIN roster
  PROVE  roster[p].tools \in [ToolIds -> Permitted]
<1>1. PICK row : row = roster[p]
  OBVIOUS
<1> QED
  BY <1>1 DEF RosterFits, PersonaRow

LEMMA OpenFormKeepsRoster ==
  ASSUME RosterInv, NEW p, NEW t \in ToolIds, NEW permission \in Permitted,
         OpenForm(p, t, permission)
  PROVE  RosterInv'
<1>1. p \in DOMAIN roster /\ RosterFits /\ UNCHANGED <<roster, crossed>>
  BY DEF OpenForm, RosterInv
<1>2. PICK tools : tools = roster[p].tools
  OBVIOUS
<1>3. PICK c : c = [pc |-> "form", persona |-> p, tool |-> t,
                    tools |-> [tools EXCEPT ![t] = permission]]
  OBVIOUS
<1>4. calls' = calls \cup {c}
  BY <1>2, <1>3 DEF OpenForm, StartCall
<1>5. c.pc = "form" /\ c.persona = p /\ c.tools \in [ToolIds -> Permitted]
  BY <1>1, <1>2, <1>3, AssignedTools
<1> QED
  BY <1>1, <1>4, <1>5, ToolCallKeepsRoster

LEMMA ReadToolsKeepsRoster ==
  ASSUME RosterInv, NEW p, NEW t \in ToolIds, ReadTools(p, t)
  PROVE  RosterInv'
<1>1. p \in DOMAIN roster /\ RosterFits /\ UNCHANGED <<roster, crossed>>
  BY DEF ReadTools, RosterInv
<1>2. PICK tools : tools = roster[p].tools
  OBVIOUS
<1>3. PICK c : c = [pc |-> "always", persona |-> p, tool |-> t,
                    tools |-> [tools EXCEPT ![t] = "allow"]]
  OBVIOUS
<1>4. calls' = calls \cup {c}
  BY <1>2, <1>3 DEF ReadTools, StartCall
<1>5. c.pc = "always" /\ c.persona = p /\ c.tools \in [ToolIds -> Permitted]
  BY <1>1, <1>2, <1>3, AssignedTools DEF Permitted
<1> QED
  BY <1>1, <1>4, <1>5, ToolCallKeepsRoster

LEMMA WriteToolsKeepsRoster ==
  ASSUME RosterInv, NEW c \in calls, WriteTools(c)
  PROVE  RosterInv'
<1>1. /\ c.pc \in {"form", "always"} /\ RosterFits /\ calls' = calls \ {c} /\ UNCHANGED crossed
      /\ roster' = [roster EXCEPT ![c.persona].tools =
                      IF c.pc = "form" THEN normalizeAssignedTools(c.tools) ELSE c.tools]
  BY DEF WriteTools, EndCall, RosterInv
<1>2. PICK p, tools : /\ p = c.persona
                      /\ tools = IF c.pc = "form" THEN normalizeAssignedTools(c.tools) ELSE c.tools
  OBVIOUS
<1>3. p \in DOMAIN roster /\ tools \in [ToolIds -> Permitted]
  BY <1>1, <1>2 DEF RosterFits, CallFits, normalizeAssignedTools, Permitted
<1>4. PICK old, row : old = roster[p] /\ row = [old EXCEPT !.tools = tools]
  OBVIOUS
<1>5. row \in PersonaRow /\ row.reportsTo = old.reportsTo
  BY <1>1, <1>3, <1>4 DEF RosterFits, PersonaRow
<1>6. roster' = [roster EXCEPT ![p] = row]
  BY <1>1, <1>2, <1>4
<1>7. /\ DOMAIN roster' = DOMAIN roster
      /\ \A q \in DOMAIN roster : roster'[q].reportsTo = roster[q].reportsTo
      /\ roster' \in [DOMAIN roster' -> PersonaRow]
  BY <1>1, <1>3, <1>4, <1>5, <1>6 DEF RosterFits
<1>8. RosterFits'
  BY <1>1, <1>7, OtherCallsFit DEF RosterFits
<1> QED
  BY <1>1, <1>7, <1>8, LineIsKept

LEMMA RosterInvariant == RosterSpec => []RosterInv
<1>1. RosterInit => RosterInv
  <2> SUFFICES ASSUME RosterInit PROVE RosterInv
    OBVIOUS
  <2>1. PICK p \in Personas :
          roster = [q \in {p} |-> [reportsTo |-> NoManager, tools |-> [t \in ToolIds |-> "ask"]]]
    BY DEF RosterInit
  <2>2. calls = {}
    BY DEF RosterInit
  <2>3. PICK row : row = [reportsTo |-> NoManager, tools |-> [t \in ToolIds |-> "ask"]]
    OBVIOUS
  <2>4. row \in PersonaRow /\ row.reportsTo = NoManager
    BY <2>3 DEF PersonaRow, Permitted
  <2>5. roster = [q \in {p} |-> row]
    BY <2>1, <2>3
  <2>6. RosterFits
    BY <2>2, <2>4, <2>5 DEF RosterFits
  <2>7. NoCycle
    <3>1. Spares({}, NoManager, p)
      BY DEF Spares, HoldsItsManagers
    <3> QED
      BY <2>4, <2>5, <3>1 DEF NoCycle
  <2> QED
    BY <2>2, <2>6, <2>7 DEF RosterInv, ChecksHold
<1>2. RosterInv /\ [RosterNext]_rosterVars => RosterInv'
  <2> SUFFICES ASSUME RosterInv, [RosterNext]_rosterVars PROVE RosterInv'
    OBVIOUS
  <2>1. CASE UNCHANGED rosterVars
    BY <2>1 DEF rosterVars, RosterInv, RosterFits, CallFits, NoCycle, ChecksHold, Spares, HoldsItsManagers
  <2>2. CASE RosterNext
    BY Zenon, <2>2, HireKeepsRoster, CheckKeepsRoster, WriteManagerKeepsRoster, ClearKeepsRoster,
       OpenFormKeepsRoster, ReadToolsKeepsRoster, WriteToolsKeepsRoster DEF RosterNext
  <2> QED
    BY <2>1, <2>2
<1> QED
  BY <1>1, <1>2, PTL DEF RosterSpec

(* Whoever is hired and whatever line is changed in whatever order, nobody  *)
(* comes to report to somebody below: one change between its check and its  *)
(* write is not enough for a cycle, it takes two (persona-routes.ts,        *)
(* wouldCreateReportingCycle).                                              *)
THEOREM OneChangeMakesNoCycle == RosterSpec => []ChartHasNoCycleUnlessRaced
<1>1. RosterInv => ChartHasNoCycleUnlessRaced
  <2> SUFFICES ASSUME RosterInv, ~ crossed, NEW p \in DOMAIN roster
               PROVE  p \notin Above(roster[p].reportsTo)
    BY DEF ChartHasNoCycleUnlessRaced
  <2>1. PICK S : Spares(S, roster[p].reportsTo, p)
    BY DEF RosterInv, NoCycle
  <2>2. roster[p].reportsTo \in DOMAIN roster \cup {NoManager} /\ DOMAIN roster \subseteq Personas
    BY DEF RosterInv, RosterFits
  <2> QED
    BY <2>1, <2>2, AboveIsWitnessed
<1> QED
  BY <1>1, RosterInvariant, PTL

\* The requests under way are as many as the bound allows.
CallsCounted == IsFiniteSet(calls) /\ Cardinality(calls) <= MaxCalls /\ crossed \in BOOLEAN

LEMMA CallsStayCounted ==
  ASSUME CallsCounted, RosterNext
  PROVE  CallsCounted'
<1>1. IsFiniteSet(calls) /\ Cardinality(calls) <= MaxCalls /\ MaxCalls \in Nat
      /\ Cardinality(calls) \in Nat
  BY RosterAssumption, FS_CardinalityType DEF CallsCounted
<1>2. ASSUME NEW c, StartCall(c) PROVE IsFiniteSet(calls') /\ Cardinality(calls') <= MaxCalls
  BY <1>1, <1>2, FS_AddElement DEF StartCall
<1>3. ASSUME NEW c, EndCall(c) PROVE IsFiniteSet(calls') /\ Cardinality(calls') <= MaxCalls
  BY <1>1, <1>3, FS_RemoveElement DEF EndCall
<1>4. ASSUME NEW c \in calls, WriteManager(c) \/ WriteTools(c) PROVE CallsCounted'
  BY <1>3, <1>4 DEF WriteManager, WriteTools, CallsCounted
<1>5. ASSUME NEW p \in Personas, ClearManager(p) PROVE CallsCounted'
  BY <1>5 DEF ClearManager, CallsCounted
<1>6. ASSUME NEW p \in Personas, NEW m, HirePersona(p, m) PROVE CallsCounted'
  BY <1>6 DEF HirePersona, CallsCounted
<1>7. ASSUME NEW p \in Personas, NEW m, CheckManager(p, m) PROVE CallsCounted'
  BY <1>2, <1>7 DEF CheckManager, CallsCounted
<1>8. ASSUME NEW p \in Personas, NEW t, ReadTools(p, t) PROVE CallsCounted'
  BY <1>2, <1>8 DEF ReadTools, CallsCounted
<1>9. ASSUME NEW p \in Personas, NEW t, NEW permission, OpenForm(p, t, permission) PROVE CallsCounted'
  BY <1>2, <1>9 DEF OpenForm, CallsCounted
<1> QED
  BY Zenon, <1>4, <1>5, <1>6, <1>7, <1>8, <1>9 DEF RosterNext

(* Whatever is read, checked and written in whatever order, every persona   *)
(* has a permission for every tool, and reports to a persona or to nobody   *)
(* (persona-repo.ts updatePersona, tool-call-routes.ts).                    *)
THEOREM RosterIsTyped == RosterSpec => []RosterTypeOK
<1>1. RosterInit => CallsCounted
  <2>1. IsFiniteSet({}) /\ Cardinality({}) = 0 /\ 0 <= MaxCalls
    BY RosterAssumption, FS_EmptySet
  <2> QED
    BY <2>1 DEF RosterInit, CallsCounted
<1>2. CallsCounted /\ [RosterNext]_rosterVars => CallsCounted'
  BY CallsStayCounted DEF rosterVars, CallsCounted
<1>3. RosterInv /\ CallsCounted => RosterTypeOK
  BY DEF RosterInv, RosterFits, PersonaRow, CallsCounted, RosterTypeOK
<1> QED
  BY <1>1, <1>2, <1>3, RosterInvariant, PTL DEF RosterSpec

-----------------------------------------------------------------------------
(* Messages to a chat (Composer).  A message is in one form, the composer   *)
(* or the dialog, until it is answered; until then it is said nowhere,      *)
(* unless its answer is on the way or was lost.                             *)

SendRow == [pc : {"none", "sent", "done", "failed"}, message : Nat, chat : Nat, new : BOOLEAN]
Intent == [chat : Nat, excused : BOOLEAN]

Said(m, c, i) == c \in Chats /\ i \in DOMAIN chats[c].said /\ chats[c].said[i] = m
Unsaid(m) == \A c, i : ~ Said(m, c, i)

\* A form and the message it holds.
Carried(f) == {drafts[f], sends[f].message} \ {None}

FormFits(f) ==
  /\ drafts[f] <= written /\ sends[f].message <= written
  /\ sends[f].chat \in {None} \cup Chats
  /\ IF sends[f].pc = "none" THEN sends[f] = NoSend
     ELSE sends[f].message # None /\ drafts[f] \in {None, sends[f].message}
  /\ sends[f].pc = "done" => sends[f].chat # None

FormsFit ==
  /\ sends \in [Forms -> SendRow] /\ drafts \in [Forms -> Nat]
  /\ \A f \in Forms : FormFits(f)
  /\ Carried("composer") \cap Carried("dialog") = {}

\* Where a message belongs.
IsThere(m, c, i) == IF meant[m].chat = None THEN i = 1 ELSE c = meant[m].chat

MessageFits(m) ==
  m \notin unheard =>
    /\ \A c, i, d, k : Said(m, c, i) /\ Said(m, d, k) => c = d /\ i = k
    /\ meant[m].excused \/ \A c, i : Said(m, c, i) => IsThere(m, c, i)
    /\ \A f \in Forms : m \in Carried(f) /\ sends[f].pc # "done" => Unsaid(m)
    /\ \A f \in Forms : m = sends[f].message /\ sends[f].pc = "sent" =>
         meant[m].excused \/ sends[f].chat = meant[m].chat

MessagesFit ==
  /\ written \in Nat /\ meant \in Seq(Intent) /\ Len(meant) = written
  /\ \A m, c, i : Said(m, c, i) => m <= written
  /\ \A m \in 1 .. written : MessageFits(m)

ChatsFit == chats \in Seq([said : Seq(Nat), idle : BOOLEAN])

\* The page holds the job of the selected chat, unless it slipped or is
\* fetching it.
ScreenFits ==
  /\ screen \in [pinned : BOOLEAN, selected : Nat, open : [chat : Nat, idle : BOOLEAN]]
  /\ fetches \in [selection : Nat, late : SUBSET Nat] /\ slipped \in BOOLEAN
  /\ {screen.selected, screen.open.chat} \cup fetches.late \subseteq {None} \cup Chats
  /\ fetches.selection \in {None, screen.selected}
  /\ slipped \/ fetches.selection # None \/ screen.open.chat = screen.selected

ComposerInv == ChatsFit /\ FormsFit /\ MessagesFit /\ ScreenFits

-----------------------------------------------------------------------------
\* What only the forms do to each other: nothing new is in one.
FormRests(f) ==
  \/ sends'[f] = sends[f] /\ drafts'[f] \in {drafts[f], None}
  \/ sends'[f] = NoSend /\ drafts'[f] = None
  \/ sends'[f] = NoSend /\ drafts'[f] = drafts[f] /\ sends[f].pc = "failed"
  \/ /\ sends[f].pc = "done" /\ sends'[f] = [sends[f] EXCEPT !.pc = "failed"]
     /\ drafts'[f] = drafts[f] /\ sends[f].message \in unheard'

SaidAsBefore == DOMAIN chats' = DOMAIN chats /\ \A m, c, i : Said(m, c, i)' <=> Said(m, c, i)

LEMMA ChatsStay ==
  ASSUME UNCHANGED chats
  PROVE  SaidAsBefore /\ (ChatsFit => ChatsFit') /\ Chats' = Chats
BY DEF SaidAsBefore, Said, ChatsFit, Chats

LEMMA FormsRest ==
  ASSUME ComposerInv, ChatsFit', SaidAsBefore, UNCHANGED <<meant, written>>, unheard \subseteq unheard',
         sends' \in [Forms -> SendRow], drafts' \in [Forms -> Nat],
         \A f \in Forms : FormRests(f)
  PROVE  FormsFit' /\ MessagesFit'
<1>1. Chats' = Chats
  BY DEF ComposerInv, ChatsFit, SaidAsBefore, Chats
<1>2. ASSUME NEW f \in Forms
      PROVE  /\ FormFits(f)' /\ Carried(f)' \subseteq Carried(f)
             /\ \A m \in Carried(f)' : sends'[f].pc # "done" => sends[f].pc # "done" \/ m \in unheard'
             /\ sends'[f].pc = "sent" => sends'[f] = sends[f]
  <2>1. FormFits(f) /\ sends[f] \in SendRow /\ drafts[f] \in Nat /\ written \in Nat
    BY DEF ComposerInv, FormsFit, MessagesFit
  <2>2. /\ NoSend.pc = "none" /\ NoSend.message = None /\ NoSend.chat = None
    BY DEF NoSend
  <2>3. CASE sends'[f] = sends[f] /\ drafts'[f] \in {drafts[f], None}
    BY <1>1, <2>1, <2>2, <2>3 DEF FormFits, Carried, None
  <2>4. CASE sends'[f] = NoSend /\ drafts'[f] = None
    BY <1>1, <2>1, <2>2, <2>4 DEF FormFits, Carried, None
  <2>5. CASE sends'[f] = NoSend /\ drafts'[f] = drafts[f] /\ sends[f].pc = "failed"
    BY <1>1, <2>1, <2>2, <2>5 DEF FormFits, Carried, None
  <2>6. CASE /\ sends[f].pc = "done" /\ sends'[f] = [sends[f] EXCEPT !.pc = "failed"]
             /\ drafts'[f] = drafts[f] /\ sends[f].message \in unheard'
    <3>1. PICK old : old = sends[f]
      OBVIOUS
    <3>2. /\ sends'[f].pc = "failed" /\ sends'[f].message = sends[f].message
          /\ sends'[f].chat = sends[f].chat
      BY <2>1, <2>6, <3>1 DEF SendRow
    <3> QED
      BY <1>1, <2>1, <2>6, <3>2 DEF FormFits, Carried, None
  <2> QED
    BY <2>3, <2>4, <2>5, <2>6 DEF FormRests
<1>3. FormsFit'
  BY <1>2 DEF FormsFit, ComposerInv, Forms
<1>4. ASSUME NEW m \in 1 .. written PROVE MessageFits(m)'
  <2>1. SUFFICES ASSUME m \notin unheard' PROVE MessageFits(m)'
    BY DEF MessageFits
  <2>2. MessageFits(m) /\ m \notin unheard
    BY <2>1 DEF ComposerInv, MessagesFit
  <2>3. \A c, i, d, k : Said(m, c, i)' /\ Said(m, d, k)' => c = d /\ i = k
    BY <2>2 DEF MessageFits, SaidAsBefore
  <2>4. meant'[m].excused \/ \A c, i : Said(m, c, i)' => IsThere(m, c, i)'
    BY <2>2 DEF MessageFits, SaidAsBefore, IsThere
  <2>5. ASSUME NEW f \in Forms, m \in Carried(f)', sends'[f].pc # "done" PROVE Unsaid(m)'
    <3>1. m \in Carried(f) /\ sends[f].pc # "done"
      BY <1>2, <2>1, <2>5
    <3> QED
      BY <2>2, <3>1 DEF MessageFits, SaidAsBefore, Unsaid
  <2>6. ASSUME NEW f \in Forms, m = sends'[f].message, sends'[f].pc = "sent"
        PROVE  meant'[m].excused \/ sends'[f].chat = meant'[m].chat
    BY <1>2, <2>2, <2>6 DEF MessageFits
  <2> QED
    BY <2>3, <2>4, <2>5, <2>6 DEF MessageFits
<1>5. MessagesFit'
  BY <1>4 DEF MessagesFit, ComposerInv, SaidAsBefore
<1> QED
  BY <1>3, <1>5

-----------------------------------------------------------------------------
(* The chat on screen.                                                      *)

\* The selection alone moves.
LEMMA SelectFits ==
  ASSUME ChatsFit, ScreenFits, NEW c \in {None} \cup Chats, NEW pinned \in BOOLEAN,
         Select(c, pinned), Chats \subseteq Chats'
  PROVE  ScreenFits'
<1>1. PICK open : open = IF c = None THEN NoJob ELSE screen.open
  OBVIOUS
<1>2. /\ screen' = [screen EXCEPT !.pinned = pinned, !.selected = c, !.open = open]
      /\ fetches' = IF c = screen.selected THEN fetches
                    ELSE IF c = None THEN [fetches EXCEPT !.selection = None]
                    ELSE Fetch(c)
      /\ slipped' = (slipped /\ c = screen.selected)
  BY <1>1 DEF Select
<1>3. c \in Nat /\ open \in [chat : Nat, idle : BOOLEAN]
      /\ open.chat = IF c = None THEN None ELSE screen.open.chat
  BY <1>1 DEF Chats, None, NoJob, ScreenFits, ChatsFit
<1>4. /\ screen' \in [pinned : BOOLEAN, selected : Nat, open : [chat : Nat, idle : BOOLEAN]]
      /\ screen'.selected = c /\ screen'.open = open
  BY <1>2, <1>3 DEF ScreenFits
<1>5. CASE c = screen.selected
  BY <1>2, <1>3, <1>4, <1>5 DEF ScreenFits, None
<1>6. CASE c # screen.selected /\ c = None
  <2>1. /\ fetches' \in [selection : Nat, late : SUBSET Nat]
        /\ fetches'.selection = None /\ fetches'.late = fetches.late
    BY <1>2, <1>6 DEF ScreenFits, None
  <2> QED
    BY <1>2, <1>3, <1>4, <1>6, <2>1 DEF ScreenFits
<1>7. CASE c # screen.selected /\ c # None
  <2>1. /\ fetches' \in [selection : Nat, late : SUBSET Nat]
        /\ fetches'.selection = c /\ fetches'.late = fetches.late \cup {c}
    <3>1. PICK late : late = fetches.late \cup {c}
      OBVIOUS
    <3>2. fetches' = [fetches EXCEPT !.selection = c, !.late = late]
      BY <1>2, <1>7, <3>1 DEF Fetch, ScreenFits
    <3> QED
      BY <1>3, <3>1, <3>2 DEF ScreenFits
  <2> QED
    BY <1>2, <1>3, <1>4, <1>7, <2>1 DEF ScreenFits
<1> QED
  BY <1>5, <1>6, <1>7

\* An answer of getJob(), or of a message: the page holds that chat's job.
LEMMA HoldFits ==
  ASSUME ScreenFits, NEW c \in {None} \cup Chats, c \in Nat, NEW idle \in BOOLEAN,
         screen' = [screen EXCEPT !.open = [chat |-> c, idle |-> idle]],
         fetches' \in [selection : Nat, late : SUBSET Nat], fetches'.late \subseteq fetches.late,
         fetches'.selection \in {None, screen.selected},
         slipped' = (c # screen.selected), Chats \subseteq Chats'
  PROVE  ScreenFits'
<1>1. PICK open : open = [chat |-> c, idle |-> idle]
  OBVIOUS
<1>2. open \in [chat : Nat, idle : BOOLEAN] /\ open.chat = c
  BY <1>1
<1>3. /\ screen' \in [pinned : BOOLEAN, selected : Nat, open : [chat : Nat, idle : BOOLEAN]]
      /\ screen'.selected = screen.selected /\ screen'.open.chat = c
  BY <1>1, <1>2 DEF ScreenFits
<1> QED
  BY <1>3 DEF ScreenFits

LEMMA ScreenStays ==
  ASSUME ScreenFits, UNCHANGED <<screen, fetches, slipped>>, Chats \subseteq Chats'
  PROVE  ScreenFits'
BY DEF ScreenFits

LEMMA ChatsAreJobs ==
  ASSUME ChatsFit, NEW c \in Chats
  PROVE  /\ c \in Nat /\ c # None /\ c \in DOMAIN chats
         /\ chats[c].idle \in BOOLEAN /\ chats[c].said \in Seq(Nat) /\ Len(chats[c].said) \in Nat
<1>1. c \in DOMAIN chats /\ c \in 1 .. Len(chats) /\ Len(chats) \in Nat
  BY DEF Chats, ChatsFit
<1>2. PICK row : row = chats[c]
  OBVIOUS
<1>3. PICK T : T = [said : Seq(Nat), idle : BOOLEAN]
  OBVIOUS
<1>4. chats \in Seq(T)
  BY <1>3 DEF ChatsFit
<1>5. row \in T
  BY <1>1, <1>2, <1>4
<1>6. row.idle \in BOOLEAN /\ row.said \in Seq(Nat)
  BY <1>3, <1>5
<1>7. \A s \in Seq(Nat) : Len(s) \in Nat
  OBVIOUS
<1> QED
  BY <1>1, <1>2, <1>6, <1>7 DEF None

LEMMA ScreenMoves ==
  ASSUME ComposerInv,
         \/ StartNewChat \/ ApprovalsChanged \/ SelectionFetched \/ FetchFails \/ StatusTold
         \/ \E c \in Chats : SelectChat(c) \/ Relist(c) \/ LateFetched(c)
  PROVE  /\ ScreenFits'
         /\ UNCHANGED <<chats, sends, written, meant, unheard>>
         /\ \A f \in Forms : drafts'[f] \in {drafts[f], None}
         /\ drafts' \in [Forms -> Nat]
<1>1. ScreenFits /\ ChatsFit /\ drafts \in [Forms -> Nat]
  BY DEF ComposerInv, FormsFit
<1>2. ASSUME UNCHANGED <<chats, sends, drafts, written, meant, unheard>>, ScreenFits'
      PROVE  /\ ScreenFits'
             /\ UNCHANGED <<chats, sends, written, meant, unheard>>
             /\ \A f \in Forms : drafts'[f] \in {drafts[f], None}
             /\ drafts' \in [Forms -> Nat]
  BY <1>1, <1>2
<1>3. UNCHANGED chats => Chats \subseteq Chats'
  BY DEF Chats
<1>4. ASSUME NEW c \in Chats, SelectChat(c) \/ Relist(c)
      PROVE  UNCHANGED <<chats, sends, drafts, written, meant, unheard>> /\ ScreenFits'
  <2>1. UNCHANGED <<chats, sends, drafts, written, meant, unheard>>
    BY <1>4 DEF SelectChat, Relist
  <2>2. Select(c, TRUE) \/ Select(c, FALSE)
    BY <1>4 DEF SelectChat, Relist
  <2> QED
    BY <1>1, <1>3, <2>1, <2>2, SelectFits
<1>5. ASSUME NEW c \in Chats, LateFetched(c)
      PROVE  UNCHANGED <<chats, sends, drafts, written, meant, unheard>> /\ ScreenFits'
  <2>1. UNCHANGED <<chats, sends, drafts, written, meant, unheard>>
    BY <1>5 DEF LateFetched
  <2>2. /\ screen' = [screen EXCEPT !.open = [chat |-> c, idle |-> chats[c].idle]]
        /\ slipped' = (c # screen.selected)
        /\ fetches' = [fetches EXCEPT !.late = @ \ {c}]
    BY <1>5 DEF LateFetched
  <2>3. PICK late : late = fetches.late \ {c}
    OBVIOUS
  <2>4. /\ fetches' \in [selection : Nat, late : SUBSET Nat] /\ fetches'.late \subseteq fetches.late
        /\ fetches'.selection \in {None, screen.selected}
    BY <1>1, <2>2, <2>3 DEF ScreenFits
  <2> QED
    BY <1>1, <1>3, <2>1, <2>2, <2>4, HoldFits, ChatsAreJobs
<1>6. ASSUME SelectionFetched
      PROVE  UNCHANGED <<chats, sends, drafts, written, meant, unheard>> /\ ScreenFits'
  <2>1. UNCHANGED <<chats, sends, drafts, written, meant, unheard>>
    BY <1>6 DEF SelectionFetched
  <2>2. PICK c : c = fetches.selection
    OBVIOUS
  <2>3. c = screen.selected /\ c \in Chats /\ c # None
    BY <1>1, <1>6, <2>2 DEF SelectionFetched, ScreenFits
  <2>4. /\ screen' = [screen EXCEPT !.open = [chat |-> c, idle |-> chats[c].idle]]
        /\ slipped' = (c # screen.selected)
        /\ fetches' = [fetches EXCEPT !.selection = None]
    BY <1>6, <2>2, <2>3 DEF SelectionFetched
  <2>5. /\ fetches' \in [selection : Nat, late : SUBSET Nat] /\ fetches'.late \subseteq fetches.late
        /\ fetches'.selection \in {None, screen.selected}
    BY <1>1, <2>4 DEF ScreenFits, None
  <2> QED
    BY <1>1, <1>3, <2>1, <2>3, <2>4, <2>5, HoldFits, ChatsAreJobs
<1>7. ASSUME FetchFails
      PROVE  UNCHANGED <<chats, sends, drafts, written, meant, unheard>> /\ ScreenFits'
  <2>1. /\ UNCHANGED <<chats, sends, drafts, written, meant, unheard, screen>>
        /\ slipped' = (screen.open.chat # screen.selected)
    BY <1>7 DEF FetchFails
  <2>2. /\ fetches' \in [selection : Nat, late : SUBSET Nat] /\ fetches'.late \subseteq fetches.late
        /\ fetches'.selection \in {None, fetches.selection}
    <3>1. CASE fetches' = [fetches EXCEPT !.selection = None]
      BY <1>1, <3>1 DEF ScreenFits, None
    <3>2. ASSUME NEW c \in fetches.late, fetches' = [fetches EXCEPT !.late = @ \ {c}]
          PROVE  /\ fetches' \in [selection : Nat, late : SUBSET Nat]
                 /\ fetches'.late \subseteq fetches.late
                 /\ fetches'.selection = fetches.selection
      <4>1. PICK late : late = fetches.late \ {c}
        OBVIOUS
      <4> QED
        BY <1>1, <3>2, <4>1 DEF ScreenFits
    <3> QED
      BY <1>7, <3>1, <3>2 DEF FetchFails
  <2> QED
    BY <1>1, <1>3, <2>1, <2>2 DEF ScreenFits
<1>8. ASSUME ApprovalsChanged
      PROVE  UNCHANGED <<chats, sends, drafts, written, meant, unheard>> /\ ScreenFits'
  <2>1. /\ UNCHANGED <<chats, sends, drafts, written, meant, unheard, screen, slipped>>
        /\ fetches' = [fetches EXCEPT !.late = @ \cup {screen.selected}]
    BY <1>8 DEF ApprovalsChanged
  <2>2. PICK late : late = fetches.late \cup {screen.selected}
    OBVIOUS
  <2>3. /\ fetches' \in [selection : Nat, late : SUBSET Nat] /\ fetches'.late = late
        /\ fetches'.selection = fetches.selection
    BY <1>1, <2>1, <2>2 DEF ScreenFits
  <2> QED
    BY <1>1, <1>3, <2>1, <2>2, <2>3 DEF ScreenFits
<1>9. ASSUME StatusTold
      PROVE  UNCHANGED <<chats, sends, drafts, written, meant, unheard>> /\ ScreenFits'
  <2>1. /\ UNCHANGED <<chats, sends, drafts, written, meant, unheard, fetches, slipped>>
        /\ screen.open.chat # None
        /\ screen' = [screen EXCEPT !.open.idle = chats[screen.open.chat].idle]
    BY <1>9 DEF StatusTold
  <2>2. PICK idle : idle = chats[screen.open.chat].idle
    OBVIOUS
  <2>3. idle \in BOOLEAN
    BY <1>1, <2>1, <2>2, ChatsAreJobs DEF ScreenFits
  <2>4. PICK open : open = [screen.open EXCEPT !.idle = idle]
    OBVIOUS
  <2>5. open \in [chat : Nat, idle : BOOLEAN] /\ open.chat = screen.open.chat
    <3>1. PICK old : old = screen.open
      OBVIOUS
    <3>2. old \in [chat : Nat, idle : BOOLEAN]
      BY <1>1, <3>1 DEF ScreenFits
    <3> QED
      BY <2>3, <2>4, <3>1, <3>2
  <2>6. /\ screen' \in [pinned : BOOLEAN, selected : Nat, open : [chat : Nat, idle : BOOLEAN]]
        /\ screen'.selected = screen.selected /\ screen'.open.chat = screen.open.chat
    BY <1>1, <2>1, <2>2, <2>4, <2>5 DEF ScreenFits
  <2> QED
    BY <1>1, <1>3, <2>1, <2>6 DEF ScreenFits
<1>10. CASE StartNewChat
  <2>1. /\ UNCHANGED <<chats, sends, written, meant, unheard>> /\ Select(None, TRUE)
        /\ drafts' = [drafts EXCEPT !["composer"] = None]
    BY <1>10 DEF StartNewChat
  <2> QED
    BY <1>1, <1>3, <2>1, SelectFits DEF Forms, None
<1> QED
  BY <1>2, <1>4, <1>5, <1>6, <1>7, <1>8, <1>9, <1>10

\* A chat ends its turn.
LEMMA TurnSaysNothing ==
  ASSUME ChatsFit, NEW c \in Chats, TurnEnds(c)
  PROVE  SaidAsBefore /\ ChatsFit' /\ Chats' = Chats
<1>1. PICK row : row = [chats[c] EXCEPT !.idle = TRUE]
  OBVIOUS
<1>2. PICK T : T = [said : Seq(Nat), idle : BOOLEAN]
  OBVIOUS
<1>3. chats \in Seq(T) /\ chats[c] \in T /\ c \in DOMAIN chats
  <2>1. chats \in Seq(T)
    BY <1>2 DEF ChatsFit
  <2>2. c \in 1 .. Len(chats)
    BY DEF Chats
  <2> QED
    BY <2>1, <2>2
<1>4. row \in T /\ row.said = chats[c].said
  <2>1. PICK old : old = chats[c]
    OBVIOUS
  <2> QED
    BY <1>1, <1>2, <1>3, <2>1
<1>5. chats' = [chats EXCEPT ![c] = row]
  BY <1>1 DEF TurnEnds
<1>6. chats' \in Seq(T) /\ Len(chats') = Len(chats) /\ DOMAIN chats' = DOMAIN chats
      /\ \A d \in DOMAIN chats : chats'[d] = IF d = c THEN row ELSE chats[d]
  BY <1>3, <1>4, <1>5
<1>7. \A d \in DOMAIN chats : chats'[d].said = chats[d].said
  BY <1>4, <1>6
<1> QED
  BY <1>2, <1>6, <1>7 DEF ChatsFit, SaidAsBefore, Said, Chats

LEMMA NoSendIsSend == NoSend \in SendRow /\ NoSend.pc = "none" /\ NoSend.message = None
BY DEF NoSend, SendRow, None

\* An answer, or the end of a turn.
LEMMA AnswersKeepComposer ==
  ASSUME ComposerInv,
         \/ ChatCreated \/ ChatContinued \/ DialogAnswered
         \/ \E f \in Forms : AnswerGoesMissing(f) \/ SendFailed(f)
         \/ \E c \in Chats : TurnEnds(c)
  PROVE  ComposerInv'
<1>1. ScreenFits /\ ChatsFit /\ sends \in [Forms -> SendRow] /\ drafts \in [Forms -> Nat]
  BY DEF ComposerInv, FormsFit
<1>2. UNCHANGED chats => Chats \subseteq Chats' /\ ChatsFit' /\ SaidAsBefore
  BY <1>1, ChatsStay
<1>3. ASSUME NEW f \in Forms, Cleared(f)
      PROVE  /\ sends' \in [Forms -> SendRow] /\ drafts' \in [Forms -> Nat]
             /\ \A g \in Forms : FormRests(g)
  BY <1>1, <1>3, NoSendIsSend DEF Cleared, FormRests, None
<1>4. ASSUME ScreenFits', ChatsFit', SaidAsBefore, UNCHANGED <<meant, written>>,
             unheard \subseteq unheard', sends' \in [Forms -> SendRow], drafts' \in [Forms -> Nat],
             \A f \in Forms : FormRests(f)
      PROVE  ComposerInv'
  BY <1>4, FormsRest DEF ComposerInv
<1>5. CASE ChatCreated
  <2>1. PICK c : c = sends["composer"].chat
    OBVIOUS
  <2>2. /\ sends["composer"].pc = "done" /\ Select(c, TRUE) /\ Cleared("composer")
        /\ UNCHANGED <<chats, written, meant, unheard>>
    BY <1>5, <2>1 DEF ChatCreated
  <2>3. c \in {None} \cup Chats
    BY <2>1 DEF ComposerInv, FormsFit, FormFits, Forms
  <2> QED
    BY <1>1, <1>2, <1>3, <1>4, <2>2, <2>3, SelectFits DEF Forms
<1>6. CASE ChatContinued
  <2>1. PICK c : c = sends["composer"].chat
    OBVIOUS
  <2>2. /\ screen' = [screen EXCEPT !.open = [chat |-> c, idle |-> FALSE]]
        /\ slipped' = (c # screen.selected) /\ Cleared("composer")
        /\ UNCHANGED <<chats, fetches, written, meant, unheard>>
    BY <1>6, <2>1 DEF ChatContinued
  <2>3. c \in {None} \cup Chats /\ c \in Nat
    BY <1>1, <2>1 DEF ComposerInv, FormsFit, FormFits, Forms, SendRow
  <2>4. /\ fetches' \in [selection : Nat, late : SUBSET Nat] /\ fetches'.late \subseteq fetches.late
        /\ fetches'.selection \in {None, screen.selected}
    BY <1>1, <2>2 DEF ScreenFits
  <2>5. ScreenFits'
    BY <1>1, <1>2, <2>2, <2>3, <2>4, HoldFits
  <2> QED
    BY <1>2, <1>3, <1>4, <2>2, <2>5 DEF Forms
<1>7. CASE DialogAnswered
  BY <1>1, <1>2, <1>3, <1>4, <1>7, ScreenStays DEF DialogAnswered, Forms
<1>8. ASSUME NEW f \in Forms, SendFailed(f) PROVE ComposerInv'
  <2>1. /\ sends[f].pc = "failed" /\ sends' = [sends EXCEPT ![f] = NoSend]
        /\ UNCHANGED <<chats, drafts, screen, fetches, written, meant, unheard, slipped>>
    BY <1>8 DEF SendFailed
  <2>2. sends' \in [Forms -> SendRow] /\ \A g \in Forms : FormRests(g)
    BY <1>1, <2>1, NoSendIsSend DEF FormRests
  <2> QED
    BY <1>1, <1>2, <1>4, <2>1, <2>2, ScreenStays
<1>9. ASSUME NEW f \in Forms, AnswerGoesMissing(f) PROVE ComposerInv'
  <2>1. /\ sends[f].pc = "done" /\ sends' = [sends EXCEPT ![f].pc = "failed"]
        /\ unheard' = unheard \cup {sends[f].message}
        /\ UNCHANGED <<chats, drafts, screen, fetches, written, meant, slipped>>
    BY <1>9 DEF AnswerGoesMissing
  <2>2. PICK new : new = [sends[f] EXCEPT !.pc = "failed"]
    OBVIOUS
  <2>3. new \in SendRow
    <3>1. PICK old : old = sends[f]
      OBVIOUS
    <3> QED
      BY <1>1, <2>2, <3>1 DEF SendRow
  <2>4. sends' = [sends EXCEPT ![f] = new]
    BY <2>1, <2>2
  <2>5. sends' \in [Forms -> SendRow] /\ \A g \in Forms : FormRests(g)
    BY <1>1, <2>1, <2>2, <2>3, <2>4 DEF FormRests
  <2> QED
    BY <1>1, <1>2, <1>4, <2>1, <2>5, ScreenStays
<1>10. ASSUME NEW c \in Chats, TurnEnds(c) PROVE ComposerInv'
  <2>1. UNCHANGED <<sends, drafts, screen, fetches, written, meant, unheard, slipped>>
    BY <1>10 DEF TurnEnds
  <2>2. ChatsFit' /\ SaidAsBefore /\ Chats \subseteq Chats'
    BY <1>1, <1>10, TurnSaysNothing
  <2>3. \A g \in Forms : FormRests(g)
    BY <2>1 DEF FormRests
  <2> QED
    BY <1>1, <1>4, <2>1, <2>2, <2>3, ScreenStays
<1> QED
  BY <1>5, <1>6, <1>7, <1>8, <1>9, <1>10

LEMMA ScreenKeepsComposer ==
  ASSUME ComposerInv, ScreenFits', UNCHANGED <<chats, sends, written, meant, unheard>>,
         drafts' \in [Forms -> Nat], \A f \in Forms : drafts'[f] \in {drafts[f], None}
  PROVE  ComposerInv'
<1>1. ChatsFit' /\ SaidAsBefore /\ sends' \in [Forms -> SendRow]
  BY ChatsStay DEF ComposerInv, FormsFit
<1>2. \A f \in Forms : FormRests(f)
  BY DEF FormRests
<1> QED
  BY <1>1, <1>2, FormsRest DEF ComposerInv

-----------------------------------------------------------------------------
(* A message is written, sent and said.                                     *)

LEMMA WritingKeepsComposer ==
  ASSUME ComposerInv, NEW f \in Forms, WriteMessage(f)
  PROVE  ComposerInv'
<1>1. /\ ComposerInv /\ written \in Nat /\ meant \in Seq(Intent) /\ Len(meant) = written
      /\ sends \in [Forms -> SendRow] /\ drafts \in [Forms -> Nat]
  BY DEF ComposerInv, MessagesFit, FormsFit
<1>2. /\ drafts[f] = None /\ sends[f] = NoSend /\ written' = written + 1
      /\ drafts' = [drafts EXCEPT ![f] = written + 1] /\ meant' = Append(meant, NoIntent)
      /\ UNCHANGED <<chats, sends, screen, fetches, unheard, slipped>>
  BY DEF WriteMessage
<1>3. /\ ChatsFit' /\ SaidAsBefore /\ Chats' = Chats /\ ScreenFits'
  BY <1>1, <1>2, ChatsStay, ScreenStays DEF ComposerInv
<1>4. /\ meant' \in Seq(Intent) /\ Len(meant') = written + 1
      /\ \A m \in 1 .. written : meant'[m] = meant[m]
  <2>1. NoIntent \in Intent
    BY DEF NoIntent, Intent, None
  <2> QED
    BY <1>1, <1>2, <2>1
<1>5. /\ drafts'[f] = written + 1 /\ \A g \in Forms \ {f} : drafts'[g] = drafts[g]
      /\ drafts' \in [Forms -> Nat]
  BY <1>1, <1>2
<1>6. \A g \in Forms : Carried(g)' = IF g = f THEN {written + 1} ELSE Carried(g)
  BY <1>1, <1>2, <1>5, NoSendIsSend DEF Carried, None
<1>7. \A g \in Forms : \A m \in Carried(g) : m \in 1 .. written
  BY <1>1 DEF Carried, ComposerInv, FormsFit, FormFits, None, SendRow
<1>8. FormsFit'
  <2>1. \A g \in Forms : FormFits(g)'
    <3>1. \A g \in Forms : FormFits(g)
      BY DEF ComposerInv, FormsFit
    <3>2. NoSend.chat = None
      BY DEF NoSend
    <3> QED
      BY <1>1, <1>2, <1>3, <1>5, <3>1, <3>2, NoSendIsSend DEF FormFits, SendRow, None
  <2>2. Carried("composer")' \cap Carried("dialog")' = {}
    BY <1>1, <1>6, <1>7 DEF Forms, ComposerInv, FormsFit
  <2> QED
    BY <1>1, <1>2, <1>5, <2>1, <2>2 DEF FormsFit
<1>9. MessagesFit'
  <2>1. \A m, c, i : Said(m, c, i)' => m <= written /\ m \in Nat
    <3>1. ASSUME NEW m, NEW c, NEW i, Said(m, c, i) PROVE m \in Nat
      <4>1. c \in Chats /\ chats[c].said \in Seq(Nat) /\ i \in DOMAIN chats[c].said
        BY <3>1, ChatsAreJobs DEF Said, ComposerInv
      <4> QED
        BY <3>1, <4>1 DEF Said
    <3> QED
      BY <1>3, <3>1 DEF ComposerInv, MessagesFit, SaidAsBefore
  <2>2. ASSUME NEW m \in 1 .. written PROVE MessageFits(m)'
    <3>1. MessageFits(m)
      BY <1>1 DEF ComposerInv, MessagesFit
    <3>2. m # written + 1 /\ meant'[m] = meant[m]
      BY <1>1, <1>4
    <3>3. \A g \in Forms : m \in Carried(g)' => m \in Carried(g)
      BY <1>6, <3>2
    <3>4. m \notin unheard' => \A c, i, d, k : Said(m, c, i)' /\ Said(m, d, k)' => c = d /\ i = k
      BY <1>2, <1>3, <3>1 DEF MessageFits, SaidAsBefore
    <3>5. m \notin unheard' => meant'[m].excused \/ \A c, i : Said(m, c, i)' => IsThere(m, c, i)'
      BY <1>2, <1>3, <3>1, <3>2 DEF MessageFits, SaidAsBefore, IsThere
    <3>6. m \notin unheard' =>
            \A g \in Forms : m \in Carried(g)' /\ sends'[g].pc # "done" => Unsaid(m)'
      BY <1>2, <1>3, <3>1, <3>3 DEF MessageFits, SaidAsBefore, Unsaid
    <3>7. m \notin unheard' => \A g \in Forms : m = sends'[g].message /\ sends'[g].pc = "sent" =>
            meant'[m].excused \/ sends'[g].chat = meant'[m].chat
      BY <1>2, <3>1, <3>2 DEF MessageFits
    <3> QED
      BY <3>4, <3>5, <3>6, <3>7 DEF MessageFits
  <2>3. ASSUME NEW m \in {written + 1} PROVE MessageFits(m)'
    <3>1. Unsaid(m)'
      BY <1>1, <2>1 DEF Unsaid
    <3>2. ASSUME NEW g \in Forms, m = sends'[g].message, sends'[g].pc = "sent"
          PROVE  FALSE
      <4>1. sends[g].message <= written /\ sends[g].message \in Nat
        BY <1>1 DEF ComposerInv, FormsFit, FormFits, SendRow
      <4> QED
        BY <1>1, <1>2, <3>2, <4>1
    <3> QED
      BY <3>1, <3>2 DEF MessageFits, Unsaid
  <2>4. \A m \in 1 .. written' : m \in 1 .. written \/ m \in {written + 1}
    BY <1>1, <1>2
  <2>5. \A m, c, i : Said(m, c, i)' => m <= written'
    BY <1>1, <1>2, <2>1
  <2> QED
    BY <1>1, <1>2, <1>4, <2>2, <2>3, <2>4, <2>5 DEF MessagesFit
<1> QED
  BY <1>3, <1>8, <1>9 DEF ComposerInv

LEMMA SubmittingKeepsComposer ==
  ASSUME ComposerInv, NEW f \in Forms, Submit(f)
  PROVE  ComposerInv'
<1>1. PICK m : m = drafts[f]
  OBVIOUS
<1>2. PICK c : c = IF f = "composer" THEN screen.open.chat ELSE None
  OBVIOUS
<1>3. PICK intent : intent = IF f = "dialog" THEN NoIntent
                             ELSE [chat |-> screen.selected,
                                   excused |-> slipped \/ fetches.selection # None]
  OBVIOUS
<1>4. PICK new : new = [pc |-> "sent", message |-> m, chat |-> c, new |-> c = None]
  OBVIOUS
<1>5. /\ m # None /\ sends[f] = NoSend /\ sends' = [sends EXCEPT ![f] = new]
      /\ meant' = [meant EXCEPT ![m] = intent]
      /\ UNCHANGED <<chats, drafts, screen, fetches, written, unheard, slipped>>
  BY <1>1, <1>2, <1>3, <1>4 DEF Submit
<1>6. /\ ChatsFit /\ ScreenFits /\ written \in Nat /\ meant \in Seq(Intent) /\ Len(meant) = written
      /\ sends \in [Forms -> SendRow] /\ drafts \in [Forms -> Nat] /\ \A g \in Forms : FormFits(g)
      /\ Carried("composer") \cap Carried("dialog") = {}
  BY DEF ComposerInv, MessagesFit, FormsFit
<1>7. ChatsFit' /\ SaidAsBefore /\ Chats' = Chats /\ ScreenFits'
  BY <1>5, <1>6, ChatsStay, ScreenStays
<1>8. m \in 1 .. written /\ c \in Nat /\ c \in {None} \cup Chats
  BY <1>1, <1>2, <1>5, <1>6 DEF FormFits, ScreenFits, None
<1>9. intent \in Intent /\ (intent.excused \/ c = intent.chat)
  BY <1>2, <1>3, <1>6 DEF ScreenFits, NoIntent, Intent, None, Forms
<1>10. /\ new \in SendRow /\ new.pc = "sent" /\ new.message = m /\ new.chat = c
  BY <1>4, <1>8 DEF SendRow
<1>11. /\ sends' \in [Forms -> SendRow] /\ sends'[f] = new
       /\ \A g \in Forms \ {f} : sends'[g] = sends[g]
  BY <1>5, <1>6, <1>10
<1>12. /\ meant' \in Seq(Intent) /\ Len(meant') = written /\ meant'[m] = intent
       /\ \A n \in 1 .. written : n # m => meant'[n] = meant[n]
  BY <1>5, <1>6, <1>8, <1>9
<1>13. \A g \in Forms : Carried(g)' = Carried(g)
  BY <1>1, <1>5, <1>10, <1>11, NoSendIsSend DEF Carried, None
<1>14. FormsFit'
  <2>1. \A g \in Forms : FormFits(g)'
    BY <1>1, <1>5, <1>6, <1>7, <1>8, <1>10, <1>11 DEF FormFits, SendRow, None
  <2> QED
    BY <1>5, <1>6, <1>11, <1>13, <2>1 DEF FormsFit, Forms
<1>15. m \in Carried(f) /\ \A g \in Forms : m \in Carried(g) => g = f
  BY <1>1, <1>5, <1>6 DEF Carried, Forms
<1>16. MessagesFit'
  <2>1. ASSUME NEW n \in 1 .. written, n # m PROVE MessageFits(n)'
    <3>1. MessageFits(n)
      BY <1>6 DEF ComposerInv, MessagesFit
    <3>2. n \notin unheard' => \A c1, i, d, k : Said(n, c1, i)' /\ Said(n, d, k)' => c1 = d /\ i = k
      BY <1>5, <1>7, <3>1 DEF MessageFits, SaidAsBefore
    <3>3. n \notin unheard' => meant'[n].excused \/ \A d, i : Said(n, d, i)' => IsThere(n, d, i)'
      BY <1>5, <1>7, <1>12, <2>1, <3>1 DEF MessageFits, SaidAsBefore, IsThere
    <3>4. n \notin unheard' =>
            \A g \in Forms : n \in Carried(g)' /\ sends'[g].pc # "done" => Unsaid(n)'
      BY <1>5, <1>7, <1>11, <1>13, <2>1, <3>1, NoSendIsSend DEF MessageFits, SaidAsBefore, Unsaid
    <3>5. n \notin unheard' => \A g \in Forms : n = sends'[g].message /\ sends'[g].pc = "sent" =>
            meant'[n].excused \/ sends'[g].chat = meant'[n].chat
      BY <1>5, <1>10, <1>11, <1>12, <2>1, <3>1 DEF MessageFits
    <3> QED
      BY <3>2, <3>3, <3>4, <3>5 DEF MessageFits
  <2>2. MessageFits(m)'
    <3>1. m \notin unheard => Unsaid(m)
      BY <1>5, <1>6, <1>8, <1>15, NoSendIsSend DEF ComposerInv, MessagesFit, MessageFits
    <3>2. m \notin unheard' => Unsaid(m)'
      BY <1>5, <1>7, <3>1 DEF Unsaid, SaidAsBefore
    <3>3. \A g \in Forms : m = sends'[g].message /\ sends'[g].pc = "sent" =>
            meant'[m].excused \/ sends'[g].chat = meant'[m].chat
      <4>1. \A g \in Forms : m = sends'[g].message => g = f
        BY <1>5, <1>11, <1>15 DEF Carried
      <4> QED
        BY <1>9, <1>10, <1>11, <1>12, <4>1
    <3> QED
      BY <3>2, <3>3 DEF MessageFits, Unsaid
  <2> QED
    BY <1>5, <1>6, <1>7, <1>12, <2>1, <2>2 DEF MessagesFit, ComposerInv, SaidAsBefore
<1> QED
  BY <1>7, <1>14, <1>16 DEF ComposerInv

\* What serving a message may do to the chats: it is said in one more place.
LEMMA SayingFits ==
  ASSUME ComposerInv, NEW f \in Forms, sends[f].pc = "sent", NEW d \in Nat, NEW new \in SendRow,
         new.pc = "done", new.message = sends[f].message, new.chat = d,
         sends' = [sends EXCEPT ![f] = new], ChatsFit', Chats \subseteq Chats', d \in Chats',
         UNCHANGED <<drafts, screen, fetches, written, meant, unheard, slipped>>,
         NEW place \in Nat,
         \A m, c, i : Said(m, c, i)' <=>
           Said(m, c, i) \/ (m = sends[f].message /\ c = d /\ i = place),
         sends[f].chat = None => place = 1,
         sends[f].chat # None => d = sends[f].chat
  PROVE  ComposerInv'
<1>1. PICK m : m = sends[f].message
  OBVIOUS
<1>2. /\ ScreenFits /\ written \in Nat /\ meant \in Seq(Intent) /\ Len(meant) = written
      /\ sends \in [Forms -> SendRow] /\ drafts \in [Forms -> Nat] /\ \A g \in Forms : FormFits(g)
      /\ Carried("composer") \cap Carried("dialog") = {}
  BY DEF ComposerInv, MessagesFit, FormsFit
<1>3. /\ sends' \in [Forms -> SendRow] /\ sends'[f] = new
      /\ \A g \in Forms \ {f} : sends'[g] = sends[g]
  BY <1>2
<1>4. \A g \in Forms : Carried(g)' = Carried(g)
  BY <1>3 DEF Carried
<1>5. ScreenFits'
  BY <1>2, ScreenStays
<1>6. d # None
  BY DEF Chats, None
<1>7. FormsFit'
  <2>1. \A g \in Forms : FormFits(g)'
    BY <1>2, <1>3, <1>6 DEF FormFits, SendRow
  <2> QED
    BY <1>2, <1>3, <1>4, <2>1 DEF FormsFit, Forms
<1>8. m \in 1 .. written /\ m \in Carried(f) /\ \A g \in Forms : m \in Carried(g) => g = f
  <2>1. m \in Nat /\ m <= written /\ m # None
    BY <1>1, <1>2 DEF FormFits, SendRow
  <2>2. m \in Carried(f)
    BY <1>1, <2>1 DEF Carried
  <2> QED
    BY <1>2, <2>1, <2>2 DEF Forms, None
<1>9. MessagesFit'
  <2>1. ASSUME NEW n \in 1 .. written, n # m PROVE MessageFits(n)'
    <3>1. MessageFits(n)
      BY <1>2 DEF ComposerInv, MessagesFit
    <3>2. \A c, i : Said(n, c, i)' <=> Said(n, c, i)
      BY <1>1, <2>1
    <3>3. n \notin unheard => \A c, i, e, k : Said(n, c, i)' /\ Said(n, e, k)' => c = e /\ i = k
      BY <3>1, <3>2 DEF MessageFits
    <3>4. n \notin unheard => meant[n].excused \/ \A c, i : Said(n, c, i)' => IsThere(n, c, i)'
      BY <3>1, <3>2 DEF MessageFits, IsThere
    <3>5. n \notin unheard =>
            \A g \in Forms : n \in Carried(g)' /\ sends'[g].pc # "done" => Unsaid(n)'
      BY <1>3, <1>4, <3>1, <3>2 DEF MessageFits, Unsaid
    <3>6. n \notin unheard => \A g \in Forms : n = sends'[g].message /\ sends'[g].pc = "sent" =>
            meant[n].excused \/ sends'[g].chat = meant[n].chat
      BY <1>3, <3>1 DEF MessageFits
    <3> QED
      BY <3>3, <3>4, <3>5, <3>6 DEF MessageFits
  <2>2. MessageFits(m)'
    <3>1. SUFFICES ASSUME m \notin unheard PROVE MessageFits(m)'
      BY DEF MessageFits
    <3>2. Unsaid(m) /\ (meant[m].excused \/ sends[f].chat = meant[m].chat)
      BY <1>1, <1>8, <3>1 DEF ComposerInv, MessagesFit, MessageFits
    <3>3. \A c, i : Said(m, c, i)' <=> c = d /\ i = place
      BY <1>1, <3>2 DEF Unsaid
    <3>4. meant'[m].excused \/ \A c, i : Said(m, c, i)' => IsThere(m, c, i)'
      BY <3>2, <3>3 DEF IsThere
    <3>5. \A g \in Forms : m \in Carried(g)' => sends'[g].pc = "done"
      BY <1>3, <1>4, <1>8
    <3>6. \A g \in Forms : m = sends'[g].message => sends'[g].pc = "done"
      BY <1>3, <1>8 DEF Carried
    <3> QED
      BY <3>3, <3>4, <3>5, <3>6 DEF MessageFits
  <2>3. \A n, c, i : Said(n, c, i)' => n <= written
    BY <1>1, <1>8 DEF ComposerInv, MessagesFit
  <2> QED
    BY <1>2, <2>1, <2>2, <2>3 DEF MessagesFit
<1> QED
  BY <1>5, <1>7, <1>9 DEF ComposerInv

\* A message that is refused, or whose request is lost, is said nowhere.
LEMMA RefusalKeepsComposer ==
  ASSUME ComposerInv, NEW f \in Forms, sends[f].pc = "sent", NEW new \in SendRow,
         new.pc = "failed", new.message = sends[f].message, new.chat = sends[f].chat,
         sends' = [sends EXCEPT ![f] = new],
         UNCHANGED <<chats, drafts, screen, fetches, written, meant, unheard, slipped>>
  PROVE  ComposerInv'
<1>1. /\ ScreenFits /\ sends \in [Forms -> SendRow] /\ drafts \in [Forms -> Nat]
      /\ \A g \in Forms : FormFits(g)
      /\ Carried("composer") \cap Carried("dialog") = {}
  BY DEF ComposerInv, FormsFit
<1>2. /\ sends' \in [Forms -> SendRow] /\ sends'[f] = new
      /\ \A g \in Forms \ {f} : sends'[g] = sends[g]
  BY <1>1
<1>3. ChatsFit' /\ SaidAsBefore /\ Chats' = Chats /\ ScreenFits'
  BY <1>1, ChatsStay, ScreenStays DEF ComposerInv
<1>4. \A g \in Forms : Carried(g)' = Carried(g)
  BY <1>2 DEF Carried
<1>5. FormsFit'
  <2>1. \A g \in Forms : FormFits(g)'
    BY <1>1, <1>2, <1>3 DEF FormFits, SendRow
  <2> QED
    BY <1>1, <1>2, <1>4, <2>1 DEF FormsFit, Forms
<1>6. ASSUME NEW n \in 1 .. written PROVE MessageFits(n)'
  <2>1. MessageFits(n)
    BY DEF ComposerInv, MessagesFit
  <2>2. \A g \in Forms : sends'[g].pc # "done" => sends[g].pc # "done"
    BY <1>2
  <2>3. \A g \in Forms : sends'[g].pc = "sent" => sends'[g] = sends[g]
    BY <1>2
  <2>4. n \notin unheard => \A c, i, d, k : Said(n, c, i)' /\ Said(n, d, k)' => c = d /\ i = k
    BY <1>3, <2>1 DEF MessageFits, SaidAsBefore
  <2>5. n \notin unheard => meant'[n].excused \/ \A c, i : Said(n, c, i)' => IsThere(n, c, i)'
    BY <1>3, <2>1 DEF MessageFits, SaidAsBefore, IsThere
  <2>6. n \notin unheard => \A g \in Forms : n \in Carried(g)' /\ sends'[g].pc # "done" => Unsaid(n)'
    BY <1>3, <1>4, <2>1, <2>2 DEF MessageFits, SaidAsBefore, Unsaid
  <2>7. n \notin unheard => \A g \in Forms : n = sends'[g].message /\ sends'[g].pc = "sent" =>
          meant'[n].excused \/ sends'[g].chat = meant'[n].chat
    BY <2>1, <2>3 DEF MessageFits
  <2> QED
    BY <2>4, <2>5, <2>6, <2>7 DEF MessageFits
<1>7. MessagesFit'
  BY <1>3, <1>6 DEF MessagesFit, ComposerInv, SaidAsBefore
<1> QED
  BY <1>3, <1>5, <1>7 DEF ComposerInv

LEMMA ComposerStarts ==
  ASSUME ComposerInit PROVE ComposerInv
<1>1. PICK n \in 0 .. 2 : chats = [c \in 1 .. n |-> [said |-> <<None>>, idle |-> TRUE]]
  BY DEF ComposerInit
<1>2. PICK T, row : T = [said : Seq(Nat), idle : BOOLEAN] /\ row = [said |-> <<None>>, idle |-> TRUE]
  OBVIOUS
<1>3. row \in T /\ row.said = <<0>>
  BY <1>2 DEF None
<1>4. chats \in Seq(T) /\ Len(chats) = n /\ \A c \in 1 .. n : chats[c] = row
  <2>1. chats = [c \in 1 .. n |-> row]
    BY <1>1, <1>2
  <2> QED
    BY <1>3, <2>1
<1>5. \A m, c, i : Said(m, c, i) => m = 0
  BY <1>3, <1>4 DEF Said, Chats
<1>6. /\ sends = [f \in Forms |-> NoSend] /\ drafts = [f \in Forms |-> None]
      /\ written = 0 /\ meant = <<>> /\ unheard = {} /\ slipped = FALSE
      /\ fetches = [selection |-> None, late |-> {}]
  BY DEF ComposerInit
<1>7. FormsFit
  <2>1. NoSend.chat = None
    BY DEF NoSend
  <2>2. \A f \in Forms : FormFits(f) /\ Carried(f) = {}
    BY <1>6, <2>1, NoSendIsSend DEF FormFits, Carried, None
  <2> QED
    BY <1>6, <2>2, NoSendIsSend DEF FormsFit, Forms, None
<1>8. MessagesFit
  BY <1>5, <1>6 DEF MessagesFit
<1>9. ScreenFits
  <2>1. PICK s \in {None} \cup Chats :
          screen = [pinned |-> FALSE, selected |-> s, open |-> [NoJob EXCEPT !.chat = s]]
    BY DEF ComposerInit
  <2>2. PICK open : open = [NoJob EXCEPT !.chat = s]
    OBVIOUS
  <2>3. s \in Nat /\ open \in [chat : Nat, idle : BOOLEAN] /\ open.chat = s
    <3>1. NoJob \in [chat : Nat, idle : BOOLEAN] /\ s \in Nat
      BY <1>4 DEF NoJob, None, Chats
    <3> QED
      BY <2>2, <3>1
  <2>4. screen = [pinned |-> FALSE, selected |-> s, open |-> open]
    BY <2>1, <2>2
  <2> QED
    BY <1>6, <2>3, <2>4 DEF ScreenFits, None
<1> QED
  BY <1>2, <1>4, <1>7, <1>8, <1>9 DEF ComposerInv, ChatsFit

LEMMA ServingKeepsComposer ==
  ASSUME ComposerInv, NEW f \in Forms, ServeSend(f)
  PROVE  ComposerInv'
<1>1. PICK c, m : c = sends[f].chat /\ m = sends[f].message
  OBVIOUS
<1>2. PICK T : T = [said : Seq(Nat), idle : BOOLEAN]
  OBVIOUS
<1>3. /\ chats \in Seq(T) /\ sends \in [Forms -> SendRow] /\ drafts \in [Forms -> Nat]
      /\ ScreenFits /\ sends[f] \in SendRow /\ m \in Nat /\ c \in {None} \cup Chats
  BY <1>1, <1>2 DEF ComposerInv, ChatsFit, FormsFit, FormFits, SendRow
<1>4. /\ sends[f].pc = "sent"
      /\ UNCHANGED <<drafts, screen, fetches, written, meant, unheard, slipped>>
  BY DEF ServeSend
<1>5. PICK old : old = sends[f]
  OBVIOUS
<1>6. CASE /\ c = None
           /\ chats' = Append(chats, [said |-> <<m>>, idle |-> FALSE])
           /\ sends' = [sends EXCEPT ![f] = [@ EXCEPT !.pc = "done", !.chat = Len(chats) + 1]]
  <2>1. PICK d, row, new : /\ d = Len(chats) + 1 /\ row = [said |-> <<m>>, idle |-> FALSE]
                           /\ new = [old EXCEPT !.pc = "done", !.chat = d]
    OBVIOUS
  <2>2. d \in Nat /\ row \in T /\ row.said = <<m>>
    BY <1>2, <1>3, <2>1
  <2>3. new \in SendRow /\ new.pc = "done" /\ new.message = m /\ new.chat = d
    BY <1>1, <1>3, <1>5, <2>1, <2>2 DEF SendRow
  <2>4. sends' = [sends EXCEPT ![f] = new] /\ chats' = Append(chats, row)
    BY <1>5, <1>6, <2>1
  <2>5. /\ chats' \in Seq(T) /\ Len(chats') = d /\ chats'[d] = row
        /\ \A e \in 1 .. Len(chats) : chats'[e] = chats[e]
    BY <1>3, <2>1, <2>2, <2>4
  <2>6. /\ Chats \subseteq Chats' /\ d \in Chats' /\ d \notin Chats
        /\ Chats' = Chats \cup {d} /\ ChatsFit'
    BY <1>2, <1>3, <2>1, <2>5 DEF Chats, ChatsFit
  <2>7. PICK place \in Nat : place = 1
    OBVIOUS
  <2>8. ASSUME NEW n, NEW e, NEW i
        PROVE  Said(n, e, i)' <=> Said(n, e, i) \/ (n = m /\ e = d /\ i = place)
    <3>1. CASE e = d
      <4>1. i \in DOMAIN <<m>> <=> i = 1
        OBVIOUS
      <4> QED
        BY <2>2, <2>5, <2>6, <2>7, <3>1, <4>1 DEF Said
    <3>2. CASE e # d
      BY <2>5, <2>6, <3>2 DEF Said, Chats
    <3> QED
      BY <3>1, <3>2
  <2>9. /\ sends[f].chat = None => place = 1
        /\ sends[f].chat # None => d = sends[f].chat
    BY <1>1, <1>6, <2>7
  <2> QED
    <3>1. new.message = sends[f].message /\ m = sends[f].message /\ place \in Nat
      BY <1>1, <2>3, <2>7
    <3> QED
      BY <1>4, <2>2, <2>3, <2>4, <2>6, <2>8, <2>9, <3>1, SayingFits
<1>7. CASE /\ c # None
           /\ chats' = [chats EXCEPT ![c] = [said |-> Append(@.said, m), idle |-> FALSE]]
           /\ sends' = [sends EXCEPT ![f].pc = "done"]
  <2>1. PICK row, new, place :
          /\ row = [said |-> Append(chats[c].said, m), idle |-> FALSE]
          /\ new = [old EXCEPT !.pc = "done"] /\ place = Len(chats[c].said) + 1
    OBVIOUS
  <2>2. /\ c \in Chats /\ c \in Nat /\ chats[c].said \in Seq(Nat) /\ place \in Nat
    BY <1>3, <1>7, <2>1, ChatsAreJobs DEF ComposerInv
  <2>3. row \in T /\ row.said = Append(chats[c].said, m)
    <3>1. Append(chats[c].said, m) \in Seq(Nat)
      BY <1>3, <2>2
    <3> QED
      BY <1>2, <2>1, <3>1
  <2>4. new \in SendRow /\ new.pc = "done" /\ new.message = m /\ new.chat = c
    BY <1>1, <1>3, <1>5, <2>1 DEF SendRow
  <2>5. sends' = [sends EXCEPT ![f] = new] /\ chats' = [chats EXCEPT ![c] = row]
    BY <1>5, <1>7, <2>1
  <2>6. c \in 1 .. Len(chats)
    BY <2>2 DEF Chats
  <2>7. /\ chats' \in Seq(T) /\ Len(chats') = Len(chats) /\ chats'[c] = row
        /\ \A e \in 1 .. Len(chats) : e # c => chats'[e] = chats[e]
    BY <1>3, <2>3, <2>5, <2>6
  <2>8. Chats' = Chats /\ ChatsFit'
    BY <1>2, <2>7 DEF Chats, ChatsFit
  <2>9. \A i : /\ i \in DOMAIN row.said <=> i \in DOMAIN chats[c].said \/ i = place
               /\ i \in DOMAIN chats[c].said => row.said[i] = chats[c].said[i] /\ i # place
               /\ i = place => row.said[i] = m
    <3>1. PICK s : s = chats[c].said
      OBVIOUS
    <3>2. s \in Seq(Nat) /\ row.said = Append(s, m) /\ place = Len(s) + 1
      BY <2>1, <2>2, <2>3, <3>1
    <3> QED
      BY <1>3, <3>1, <3>2
  <2>10. ASSUME NEW n, NEW e, NEW i
         PROVE  Said(n, e, i)' <=> Said(n, e, i) \/ (n = m /\ e = c /\ i = place)
    <3>1. CASE e = c
      BY <2>2, <2>7, <2>8, <2>9, <3>1 DEF Said
    <3>2. CASE e # c
      BY <2>7, <2>8, <3>2 DEF Said, Chats
    <3> QED
      BY <3>1, <3>2
  <2> QED
    BY <1>1, <1>4, <1>7, <2>2, <2>4, <2>5, <2>8, <2>10, SayingFits
<1>8. CASE sends' = [sends EXCEPT ![f].pc = "failed"] /\ UNCHANGED chats
  <2>1. PICK new : new = [old EXCEPT !.pc = "failed"]
    OBVIOUS
  <2>2. new \in SendRow /\ new.pc = "failed" /\ new.message = m /\ new.chat = c
    BY <1>1, <1>3, <1>5, <2>1 DEF SendRow
  <2>3. sends' = [sends EXCEPT ![f] = new]
    BY <1>5, <1>8, <2>1
  <2> QED
    BY <1>1, <1>4, <1>8, <2>2, <2>3, RefusalKeepsComposer
<1> QED
  BY <1>1, <1>6, <1>7, <1>8 DEF ServeSend

LEMMA ComposerInvariant == ComposerSpec => []ComposerInv
<1>1. ComposerInit => ComposerInv
  BY ComposerStarts
<1>2. ComposerInv /\ [ComposerNext]_composerVars => ComposerInv'
  <2> SUFFICES ASSUME ComposerInv, [ComposerNext]_composerVars PROVE ComposerInv'
    OBVIOUS
  <2>1. CASE UNCHANGED composerVars
    <3>1. drafts \in [Forms -> Nat] /\ ScreenFits
      BY DEF ComposerInv, FormsFit
    <3>2. ScreenFits'
      BY <2>1, <3>1, ScreenStays DEF composerVars, Chats
    <3> QED
      BY <2>1, <3>1, <3>2, ScreenKeepsComposer DEF composerVars
  <2>2. CASE \/ StartNewChat \/ ApprovalsChanged \/ SelectionFetched \/ FetchFails \/ StatusTold
             \/ \E c \in Chats : SelectChat(c) \/ Relist(c) \/ LateFetched(c)
    BY <2>2, ScreenMoves, ScreenKeepsComposer, Zenon
  <2>3. CASE \/ ChatCreated \/ ChatContinued \/ DialogAnswered
             \/ \E f \in Forms : AnswerGoesMissing(f) \/ SendFailed(f)
             \/ \E c \in Chats : TurnEnds(c)
    BY <2>3, AnswersKeepComposer
  <2>4. ASSUME NEW f \in Forms, WriteMessage(f) \/ Submit(f) \/ ServeSend(f) PROVE ComposerInv'
    BY <2>4, WritingKeepsComposer, SubmittingKeepsComposer, ServingKeepsComposer
  <2> QED
    BY <2>1, <2>2, <2>3, <2>4, Zenon DEF ComposerNext
<1> QED
  BY <1>1, <1>2, PTL DEF ComposerSpec

(* A message of which no answer was lost is said once at most, and in the   *)
(* chat that was on screen when it was sent, unless that chat's job was     *)
(* still being fetched or a late or failed fetch had left another one:      *)
(* whatever is selected, listed, created or answered while the request is   *)
(* under way (page.tsx submit(), JobService.create and continue).           *)
THEOREM MessagesReachTheirChat == ComposerSpec => []EachMessageInItsChat
<1>1. ComposerInv => EachMessageInItsChat
  <2> SUFFICES ASSUME ComposerInv, NEW m \in 1 .. written, m \notin unheard
               PROVE  /\ Cardinality(Places(m)) <= 1
                      /\ meant[m].excused \/ \A p \in Places(m) :
                           IF meant[m].chat = None THEN p[2] = 1 ELSE p[1] = meant[m].chat
    BY DEF EachMessageInItsChat
  <2>1. MessageFits(m)
    BY DEF ComposerInv, MessagesFit
  <2>2. \A p \in Places(m) : p = <<p[1], p[2]>> /\ Said(m, p[1], p[2])
    <3>1. ASSUME NEW p \in Places(m) PROVE p = <<p[1], p[2]>> /\ Said(m, p[1], p[2])
      <4>1. /\ p \in Chats \X (1 .. MaxSends + 1)
            /\ p[2] <= Len(chats[p[1]].said) /\ chats[p[1]].said[p[2]] = m
        BY DEF Places
      <4>2. p[1] \in Chats /\ p[2] \in 1 .. MaxSends + 1 /\ p = <<p[1], p[2]>>
        BY <4>1
      <4>3. chats[p[1]].said \in Seq(Nat) /\ Len(chats[p[1]].said) \in Nat
        BY <4>2, ChatsAreJobs DEF ComposerInv
      <4>4. p[2] \in DOMAIN chats[p[1]].said
        BY <4>1, <4>2, <4>3, ComposerAssumption
      <4> QED
        BY <4>1, <4>2, <4>4 DEF Said
    <3> QED
      BY <3>1
  <2>3. \A p, q \in Places(m) : p = q
    BY <2>1, <2>2 DEF MessageFits
  <2>4. Cardinality(Places(m)) <= 1
    <3>1. CASE Places(m) = {}
      BY <3>1, FS_EmptySet
    <3>2. CASE Places(m) # {}
      <4>1. PICK p : p \in Places(m)
        BY <3>2
      <4>2. Places(m) = {p}
        BY <2>3, <4>1
      <4>3. Cardinality({p}) = 1
        BY FS_Singleton
      <4> QED
        BY <4>2, <4>3
    <3> QED
      BY <3>1, <3>2
  <2> QED
    BY <2>1, <2>2, <2>4 DEF MessageFits, IsThere
<1> QED
  BY <1>1, ComposerInvariant, PTL

\* The bound on messages.
WrittenAreFew == written \in Nat /\ written <= MaxSends

(* What is selected, shown or fetched is a chat of the persona, whatever is *)
(* clicked, answered or lost (page.tsx, dispatch-dialog.tsx).               *)
THEOREM ComposerIsTyped == ComposerSpec => []ComposerTypeOK
<1>1. ComposerInit => WrittenAreFew
  BY ComposerAssumption DEF ComposerInit, WrittenAreFew
<1>2. WrittenAreFew /\ [ComposerNext]_composerVars => WrittenAreFew'
  <2> SUFFICES ASSUME WrittenAreFew, [ComposerNext]_composerVars PROVE WrittenAreFew'
    OBVIOUS
  <2>1. CASE UNCHANGED written
    BY <2>1 DEF WrittenAreFew
  <2>2. ASSUME NEW f \in Forms, WriteMessage(f) PROVE WrittenAreFew'
    BY <2>2, ComposerAssumption DEF WriteMessage, WrittenAreFew
  <2>3. CASE \/ StartNewChat \/ ApprovalsChanged \/ SelectionFetched \/ FetchFails
             \/ ChatCreated \/ ChatContinued \/ DialogAnswered \/ StatusTold
             \/ \E c \in Chats : SelectChat(c) \/ Relist(c) \/ LateFetched(c) \/ TurnEnds(c)
    BY <2>1, <2>3 DEF StartNewChat, ApprovalsChanged, SelectionFetched, FetchFails, ChatCreated,
         ChatContinued, DialogAnswered, StatusTold, SelectChat, Relist, LateFetched, TurnEnds
  <2>4. ASSUME NEW f \in Forms, Submit(f) \/ ServeSend(f) \/ AnswerGoesMissing(f) \/ SendFailed(f)
        PROVE  WrittenAreFew'
    BY <2>1, <2>4 DEF Submit, ServeSend, AnswerGoesMissing, SendFailed
  <2> QED
    BY <2>1, <2>2, <2>3, <2>4, Zenon DEF ComposerNext, composerVars
<1>3. ComposerInv /\ WrittenAreFew => ComposerTypeOK
  <2> SUFFICES ASSUME ComposerInv, WrittenAreFew PROVE ComposerTypeOK
    OBVIOUS
  <2>1. \A c \in Chats : chats[c].idle \in BOOLEAN
    BY ChatsAreJobs DEF ComposerInv
  <2>2. \A f \in Forms : sends[f].pc \in {"none", "sent", "done", "failed"}
    BY DEF ComposerInv, FormsFit, SendRow
  <2>3. /\ {screen.selected, screen.open.chat, fetches.selection} \cup fetches.late
             \subseteq {None} \cup Chats
        /\ slipped \in BOOLEAN
    BY DEF ComposerInv, ScreenFits
  <2> QED
    BY <2>1, <2>2, <2>3 DEF ComposerInv, MessagesFit, WrittenAreFew, ComposerTypeOK
<1> QED
  BY <1>1, <1>2, <1>3, ComposerInvariant, PTL DEF ComposerSpec

-----------------------------------------------------------------------------
(* Custom scripts (CustomScripts).  As long as nothing is clicked while a   *)
(* request is under way, one thing happens at a time: a proposal, a         *)
(* decision, or the loading that follows it; and what is not yet on screen  *)
(* is about to be read.                                                     *)

Verdicts == {"approved", "rejected"}
Statuses == Verdicts \cup {"pending"}
ShownRow == [of : Scripts, status : Statuses]
ReadingRow == [of : Scripts \cup {Nothing}, read : BOOLEAN, rows : Seq(ShownRow),
               latest : [Scripts -> Nat]]
FormRow == [pc : {"shut", "open", "sent", "read", "done", "listing", "failed"},
            key : Scripts \cup {Nothing}, new : BOOLEAN, latest : Nat]
DecisionRow == [pc : {"sent", "done", "failed"}, key : Scripts, version : Nat, status : Verdicts,
                seen : BOOLEAN]

ScriptsFit ==
  /\ proposals \in [Scripts -> Seq(Statuses)]
  /\ shelf \in [ready : BOOLEAN, latest : [Scripts -> Nat]]
  /\ panel \in [opened : Scripts \cup {Nothing}, rows : Seq(ShownRow)]
  /\ readings \subseteq ReadingRow /\ reviews \subseteq DecisionRow /\ proposal \in FormRow
  /\ proposal.pc # "shut" => proposal.key \in Scripts
  /\ proposal.pc = "read" => (proposal.new <=> proposal.latest = 0)

\* Requests and rows are of the script that is opened.
OneScript ==
  "switched" \notin bustle =>
    /\ ~ blind
    /\ panel.opened # Nothing => \A v \in DOMAIN panel.rows : panel.rows[v].of = panel.opened
    /\ \A r \in readings : /\ r.of \in {Nothing, panel.opened}
                           /\ \A v \in DOMAIN r.rows : r.rows[v].of = r.of
    /\ \A q \in reviews : q.key = panel.opened /\ q.seen

Lists == {r \in readings : r.of = Nothing}

InTurn ==
  bustle = {} =>
    /\ reviews # {} => readings = {} /\ proposal.pc \in {"shut", "open"}
    /\ \A q, p \in reviews : q = p
    /\ proposal.pc \in {"sent", "read", "done", "failed"} => readings = {} /\ reviews = {}
    /\ proposal.pc = "listing" => reviews = {} /\ readings = Lists
    /\ shelf.ready \/ Lists # {}

\* What the page is still to load of the script that is opened.
ToLoad(k) ==
  \/ \E r \in readings : r.of = k
  \/ \E q \in reviews : q.pc = "done"
  \/ proposal.pc \in {"done", "listing"} /\ proposal.key = k

CatchesUp ==
  bustle = {} =>
    /\ \A r \in Lists : r.read => \A k \in Scripts : r.latest[k] = Len(proposals[k])
    /\ \A r \in readings : r.read => \A k \in Scripts : r.of = k => r.rows = Rows(k)
    /\ \/ \A k \in Scripts : shelf.latest[k] = Len(proposals[k])
       \/ proposal.pc = "done" \/ Lists # {}
    /\ \A k \in Scripts : panel.opened = k =>
         /\ Len(proposals[k]) > 0
         /\ panel.rows = Rows(k) \/ ToLoad(k)
         /\ ~ (proposal.pc \in {"done", "listing"} /\ proposal.new /\ proposal.key = k)

ScriptsInv == ScriptsFit /\ OneScript /\ InTurn /\ CatchesUp

-----------------------------------------------------------------------------
LEMMA NewReadings ==
  /\ TheList \in ReadingRow /\ TheList.of = Nothing /\ ~ TheList.read /\ TheList.rows = <<>>
  /\ \A k \in Scripts : /\ VersionsOf(k) \in ReadingRow /\ VersionsOf(k).of = k
                        /\ ~ VersionsOf(k).read /\ VersionsOf(k).rows = <<>>
<1>1. NoneYet \in [Scripts -> Nat] /\ <<>> \in Seq(ShownRow)
  BY DEF NoneYet
<1>2. /\ TheList \in ReadingRow /\ TheList.of = Nothing /\ ~ TheList.read /\ TheList.rows = <<>>
  BY <1>1 DEF TheList, ReadingRow
<1> QED
  BY <1>2 DEF VersionsOf, ReadingRow

LEMMA NoProposalIsShut == NoProposal \in FormRow /\ NoProposal.pc = "shut"
  BY DEF NoProposal, FormRow

LEMMA RowsAreShown ==
  ASSUME ScriptsFit, NEW k \in Scripts
  PROVE  /\ Rows(k) \in Seq(ShownRow) /\ \A v \in DOMAIN Rows(k) : Rows(k)[v].of = k
         /\ proposals[k] \in Seq(Statuses) /\ Len(proposals[k]) \in Nat
<1>1. proposals[k] \in Seq(Statuses) /\ Len(proposals[k]) \in Nat
  BY DEF ScriptsFit
<1>2. \A v \in 1 .. Len(proposals[k]) : [of |-> k, status |-> proposals[k][v]] \in ShownRow
  BY <1>1 DEF ShownRow
<1> QED
  BY <1>1, <1>2 DEF Rows

LEMMA HasteIsNoted ==
  ASSUME NEW whys, Hastily(whys), whys # {}
  PROVE  /\ bustle' = {} => bustle = {} /\ ~ Underway
         /\ "switched" \notin bustle' => "switched" \notin bustle
         /\ "switched" \in whys /\ "switched" \notin bustle' => ~ Underway
  BY DEF Hastily

\* Only the form of a proposal, and what counts or excuses.
ScriptsRest == UNCHANGED <<proposals, shelf, panel, readings, reviews, blind>>

LEMMA ScriptsStay ==
  UNCHANGED proposals => \A k : Rows(k)' = Rows(k) /\ Len(proposals[k])' = Len(proposals[k])
  BY DEF Rows

LEMMA ScriptsStart == ScriptsInit => ScriptsInv
<1> SUFFICES ASSUME ScriptsInit PROVE ScriptsInv
  OBVIOUS
<1>1. PICK n \in [Scripts -> 0 .. 1] : proposals = [k \in Scripts |-> [v \in 1 .. n[k] |-> "pending"]]
  BY DEF ScriptsInit
<1>2. proposals \in [Scripts -> Seq(Statuses)]
  <2>1. ASSUME NEW k \in Scripts PROVE [v \in 1 .. n[k] |-> "pending"] \in Seq(Statuses)
    <3>1. n[k] \in Nat /\ \A v \in 1 .. n[k] : "pending" \in Statuses
      BY DEF Statuses
    <3> QED
      BY <3>1
  <2> QED
    BY <1>1, <2>1
<1>3. /\ shelf = [ready |-> FALSE, latest |-> NoneYet] /\ panel = [opened |-> Nothing, rows |-> <<>>]
      /\ readings = {TheList} /\ reviews = {} /\ proposal = NoProposal /\ blind = FALSE
  BY DEF ScriptsInit
<1>4. NoneYet \in [Scripts -> Nat] /\ Nothing \notin Scripts
  BY ScriptsAssumption DEF NoneYet, Nothing
<1>5. ScriptsFit
  BY <1>2, <1>3, <1>4, NewReadings, NoProposalIsShut DEF ScriptsFit
<1>6. Lists # {}
  BY <1>3, NewReadings DEF Lists
<1>7. OneScript
  BY <1>3, NewReadings DEF OneScript
<1>8. InTurn
  BY <1>3, <1>6, NewReadings, NoProposalIsShut DEF InTurn
<1>9. CatchesUp
  BY <1>3, <1>4, <1>6, NewReadings DEF CatchesUp, Lists
<1> QED
  BY <1>5, <1>7, <1>8, <1>9 DEF ScriptsInv
\* The form of a proposal moves, short of storing one.
LEMMA FormMoves ==
  ASSUME ScriptsInv, ScriptsRest, bustle \subseteq bustle', proposal' \in FormRow,
         proposal'.pc # "shut" => proposal'.key \in Scripts,
         proposal'.pc = "read" => (proposal'.new <=> proposal'.latest = 0),
         bustle' = {} => /\ {proposal.pc, proposal'.pc} \cap {"done", "listing"} = {}
                         /\ proposal'.pc \in {"sent", "read", "failed"} =>
                              readings = {} /\ reviews = {}
  PROVE  ScriptsInv'
<1>1. UNCHANGED <<proposals, shelf, panel, readings, reviews, blind>>
  BY DEF ScriptsRest
<1>2. \A k : Rows(k)' = Rows(k) /\ Len(proposals[k])' = Len(proposals[k])
  BY <1>1, ScriptsStay
<1>3. ScriptsFit' /\ OneScript'
  BY <1>1 DEF ScriptsInv, ScriptsFit, OneScript
<1>4. InTurn'
  BY <1>1 DEF ScriptsInv, InTurn, Lists, FormRow
<1>5. CatchesUp'
  <2> SUFFICES ASSUME bustle' = {} PROVE CatchesUp'
    BY DEF CatchesUp
  <2>1. bustle = {} /\ proposal.pc \notin {"done", "listing"} /\ proposal'.pc \notin {"done", "listing"}
    OBVIOUS
  <2>2. \A k : ToLoad(k)' <=> ToLoad(k)
    BY <1>1, <2>1 DEF ToLoad
  <2>3. Lists' = Lists
    BY <1>1 DEF Lists
  <2> QED
    BY <1>1, <1>2, <2>1, <2>2, <2>3 DEF ScriptsInv, CatchesUp
<1> QED
  BY <1>3, <1>4, <1>5 DEF ScriptsInv

LEMMA FormKeepsScripts ==
  ASSUME ScriptsInv,
         \/ CancelProposal \/ SubmitProposal \/ ReadLatest \/ ProposalFailed
         \/ \E k \in Scripts, new \in BOOLEAN : OpenProposal(k, new)
  PROVE  ScriptsInv'
<1>1. proposal \in FormRow /\ (proposal.pc # "shut" => proposal.key \in Scripts)
  BY DEF ScriptsInv, ScriptsFit
<1>2. ASSUME bustle = {}
      PROVE  /\ proposal.pc \in {"sent", "failed"} => readings = {} /\ reviews = {}
             /\ ~ Underway => readings = {} /\ reviews = {}
  BY <1>2 DEF ScriptsInv, InTurn, Underway
<1>3. CASE CancelProposal
  BY <1>3, NoProposalIsShut, FormMoves DEF CancelProposal, ScriptsRest
<1>4. CASE SubmitProposal
  <2>1. /\ proposal' \in FormRow /\ proposal'.pc = "sent" /\ proposal'.key = proposal.key
        /\ proposal.pc = "open" /\ ScriptsRest
    BY <1>1, <1>4 DEF SubmitProposal, FormRow, ScriptsRest
  <2>2. bustle \subseteq bustle' /\ (bustle' = {} => bustle = {} /\ ~ Underway)
    BY <1>4 DEF SubmitProposal, Hastily
  <2> QED
    BY <1>1, <1>2, <2>1, <2>2, FormMoves
<1>5. CASE ReadLatest
  <2>1. PICK n : n = Len(proposals[proposal.key])
    OBVIOUS
  <2>2. /\ proposal.pc = "sent" /\ ScriptsRest /\ bustle' = bustle
        /\ proposal' = IF proposal.new <=> n = 0
                       THEN [proposal EXCEPT !.pc = "read", !.latest = n]
                       ELSE [proposal EXCEPT !.pc = "failed"]
    BY <1>5, <2>1 DEF ReadLatest, ScriptsRest
  <2>3. n \in Nat
    BY <1>1, <2>1, <2>2, RowsAreShown DEF ScriptsInv
  <2>4. /\ proposal' \in FormRow /\ proposal'.key = proposal.key /\ proposal'.pc \in {"read", "failed"}
        /\ proposal'.pc = "read" => (proposal'.new <=> proposal'.latest = 0)
    BY <1>1, <2>2, <2>3 DEF FormRow
  <2> QED
    BY <1>1, <1>2, <2>2, <2>4, FormMoves
<1>6. CASE ProposalFailed
  <2>1. /\ proposal' \in FormRow /\ proposal'.pc = "open" /\ proposal'.key = proposal.key
        /\ ScriptsRest /\ proposal.pc # "shut" /\ bustle \subseteq bustle'
        /\ bustle' = {} => proposal.pc = "failed"
    BY <1>1, <1>6 DEF ProposalFailed, FormRow, ScriptsRest
  <2> QED
    BY <1>1, <2>1, FormMoves
<1>7. ASSUME NEW k \in Scripts, NEW new \in BOOLEAN, OpenProposal(k, new) PROVE ScriptsInv'
  <2>1. /\ proposal' \in FormRow /\ proposal'.pc = "open" /\ proposal'.key = k
        /\ ScriptsRest /\ proposal.pc = "shut" /\ bustle' = bustle
    BY <1>7, NoProposalIsShut DEF OpenProposal, FormRow, ScriptsRest
  <2> QED
    BY <2>1, FormMoves
<1> QED
  BY <1>3, <1>4, <1>5, <1>6, <1>7

LEMMA ReadingKeepsScripts ==
  ASSUME ScriptsInv, NEW r \in readings, ReadRows(r)
  PROVE  ScriptsInv'
<1>1. PICK s : s = IF r.of = Nothing
                   THEN [r EXCEPT !.read = TRUE, !.latest = [k \in Scripts |-> Len(proposals[k])]]
                   ELSE [r EXCEPT !.read = TRUE, !.rows = Rows(r.of)]
  OBVIOUS
<1>2. /\ readings' = (readings \ {r}) \cup {s}
      /\ UNCHANGED <<proposals, shelf, panel, proposal, reviews, blind, bustle>>
  BY <1>1 DEF ReadRows
<1>3. r \in ReadingRow /\ \A k \in Scripts : Len(proposals[k]) \in Nat /\ Rows(k) \in Seq(ShownRow)
  BY RowsAreShown DEF ScriptsInv, ScriptsFit
<1>4. /\ s \in ReadingRow /\ s.of = r.of
      /\ s.of = Nothing => s.rows = r.rows /\ \A k \in Scripts : s.latest[k] = Len(proposals[k])
      /\ \A k \in Scripts : s.of = k => s.rows = Rows(k)
  <2>1. Nothing \notin Scripts
    BY ScriptsAssumption DEF Nothing
  <2>2. CASE r.of = Nothing
    BY <1>1, <1>3, <2>1, <2>2 DEF ReadingRow
  <2>3. CASE r.of # Nothing
    BY <1>1, <1>3, <2>3 DEF ReadingRow
  <2> QED
    BY <2>2, <2>3
<1>5. \A k : Rows(k)' = Rows(k) /\ Len(proposals[k])' = Len(proposals[k])
  BY <1>2, ScriptsStay
<1>6. ScriptsFit'
  BY <1>2, <1>4 DEF ScriptsInv, ScriptsFit
<1>7. OneScript'
  <2>1. "switched" \notin bustle => \A v \in DOMAIN s.rows : s.rows[v].of = s.of
    <3>1. CASE r.of = Nothing
      BY <1>4, <3>1 DEF ScriptsInv, OneScript
    <3>2. CASE r.of # Nothing
      <4>1. PICK k \in Scripts : k = r.of
        BY <1>3, <3>2 DEF ReadingRow
      <4> QED
        BY <1>4, <4>1, RowsAreShown DEF ScriptsInv
    <3> QED
      BY <3>1, <3>2
  <2> QED
    BY <1>2, <1>4, <2>1 DEF ScriptsInv, OneScript
<1>8. /\ Lists' # {} <=> Lists # {}
      /\ readings = Lists => readings' = Lists'
      /\ readings # {} /\ readings' # {}
  BY <1>2, <1>4 DEF Lists
<1>9. InTurn'
  BY <1>2, <1>8 DEF ScriptsInv, InTurn
<1>10. CatchesUp'
  <2>1. \A k : ToLoad(k)' <=> ToLoad(k)
    BY <1>2, <1>4 DEF ToLoad
  <2>2. \A q \in Lists' : q \in Lists \/ (q = s /\ s.of = Nothing)
    BY <1>2 DEF Lists
  <2> QED
    BY <1>2, <1>4, <1>5, <1>8, <2>1, <2>2 DEF ScriptsInv, CatchesUp
<1> QED
  BY <1>6, <1>7, <1>9, <1>10 DEF ScriptsInv

LEMMA ShowingKeepsScripts ==
  ASSUME ScriptsInv, NEW r \in readings, RowsShown(r)
  PROVE  ScriptsInv'
<1>1. /\ r.read /\ readings' = readings \ {r}
      /\ UNCHANGED <<proposals, proposal, reviews, blind, bustle>>
      /\ r.of = Nothing => shelf' = [ready |-> TRUE, latest |-> r.latest] /\ UNCHANGED panel
      /\ r.of # Nothing => panel' = [panel EXCEPT !.rows = r.rows] /\ UNCHANGED shelf
  BY DEF RowsShown
<1>2. r \in ReadingRow /\ panel \in [opened : Scripts \cup {Nothing}, rows : Seq(ShownRow)]
  BY DEF ScriptsInv, ScriptsFit
<1>3. \A k : Rows(k)' = Rows(k) /\ Len(proposals[k])' = Len(proposals[k])
  BY <1>1, ScriptsStay
<1>4. /\ panel'.opened = panel.opened
      /\ panel'.rows = IF r.of = Nothing THEN panel.rows ELSE r.rows
  BY <1>1, <1>2
<1>5. ScriptsFit'
  <2>1. shelf' \in [ready : BOOLEAN, latest : [Scripts -> Nat]]
    <3>1. r.latest \in [Scripts -> Nat] /\ shelf \in [ready : BOOLEAN, latest : [Scripts -> Nat]]
      BY <1>2 DEF ScriptsInv, ScriptsFit, ReadingRow
    <3>2. CASE shelf' = [ready |-> TRUE, latest |-> r.latest]
      BY <3>1, <3>2
    <3> QED
      BY <1>1, <3>1, <3>2
  <2>2. panel' \in [opened : Scripts \cup {Nothing}, rows : Seq(ShownRow)]
    BY <1>1, <1>2 DEF ReadingRow
  <2> QED
    BY <1>1, <2>1, <2>2 DEF ScriptsInv, ScriptsFit
<1>6. OneScript'
  BY <1>1, <1>4 DEF ScriptsInv, OneScript
<1>7. InTurn'
  BY <1>1 DEF ScriptsInv, InTurn, Lists
<1>8. CatchesUp'
  <2> SUFFICES ASSUME bustle' = {} PROVE CatchesUp'
    BY DEF CatchesUp
  <2>1. bustle = {} /\ CatchesUp /\ r.of \in {Nothing, panel.opened}
    BY <1>1 DEF ScriptsInv, OneScript
  <2>2. \A k \in Scripts : k # Nothing
    BY ScriptsAssumption DEF Nothing
  <2>3. ASSUME NEW k \in Scripts, panel.opened = k
        PROVE  panel'.rows = Rows(k) \/ ToLoad(k)'
    <3>1. CASE r.of = Nothing
      BY <1>1, <1>4, <2>1, <2>2, <2>3, <3>1 DEF CatchesUp, ToLoad
    <3>2. CASE r.of # Nothing
      BY <1>1, <1>4, <2>1, <2>3, <3>2 DEF CatchesUp
    <3> QED
      BY <3>1, <3>2
  <2>4. \/ \A k \in Scripts : shelf'.latest[k] = Len(proposals[k])
        \/ proposal.pc = "done" \/ Lists' # {}
    <3>1. CASE r.of = Nothing
      BY <1>1, <2>1, <3>1 DEF CatchesUp, Lists
    <3>2. CASE r.of # Nothing
      BY <1>1, <2>1, <3>2 DEF CatchesUp, Lists
    <3> QED
      BY <3>1, <3>2
  <2>5. Lists' \subseteq Lists
    BY <1>1 DEF Lists
  <2> QED
    BY <1>1, <1>3, <1>4, <2>1, <2>3, <2>4, <2>5 DEF CatchesUp
<1> QED
  BY <1>5, <1>6, <1>7, <1>8 DEF ScriptsInv

LEMMA RowsStillFit ==
  ASSUME ScriptsFit, NEW k \in Scripts, NEW v, NEW status \in Statuses,
         proposals' = [proposals EXCEPT ![k][v] = status]
  PROVE  /\ proposals' \in [Scripts -> Seq(Statuses)]
         /\ \A q \in Scripts : Len(proposals'[q]) = Len(proposals[q])
         /\ \A q \in Scripts \ {k} : proposals'[q] = proposals[q]
<1>1. PICK old : old = proposals[k]
  OBVIOUS
<1>2. PICK new : new = [old EXCEPT ![v] = status]
  OBVIOUS
<1>3. /\ proposals \in [Scripts -> Seq(Statuses)] /\ old \in Seq(Statuses)
      /\ proposals' = [proposals EXCEPT ![k] = new]
  BY <1>1, <1>2 DEF ScriptsFit
<1>4. new \in Seq(Statuses) /\ Len(new) = Len(old)
  <2>1. old \in [1 .. Len(old) -> Statuses] /\ Len(old) \in Nat
    BY <1>3
  <2>2. new \in [1 .. Len(old) -> Statuses]
    BY <1>2, <2>1
  <2> QED
    BY <2>1, <2>2
<1> QED
  BY <1>1, <1>3, <1>4

\* What the page was not told of, or was told of in vain.
LEMMA AccidentKeepsScripts ==
  ASSUME ScriptsInv,
         (\E r \in readings : ReadFails(r)) \/ \E k \in Scripts : WrittenElsewhere(k)
  PROVE  ScriptsInv'
<1>1. ASSUME NEW r \in readings, ReadFails(r) PROVE ScriptsInv'
  <2>1. /\ bustle' = bustle \cup {"failed"} /\ readings' = readings \ {r}
        /\ UNCHANGED <<proposals, shelf, panel, proposal, reviews, blind>>
    BY <1>1 DEF ReadFails
  <2>2. InTurn' /\ CatchesUp'
    BY <2>1 DEF InTurn, CatchesUp
  <2>3. ScriptsFit' /\ OneScript'
    BY <2>1 DEF ScriptsInv, ScriptsFit, OneScript
  <2> QED
    BY <2>2, <2>3 DEF ScriptsInv
<1>2. ASSUME NEW k \in Scripts, WrittenElsewhere(k) PROVE ScriptsInv'
  <2>1. /\ bustle' = bustle \cup {"elsewhere"}
        /\ UNCHANGED <<shelf, panel, readings, proposal, reviews, blind>>
    BY <1>2 DEF WrittenElsewhere
  <2>2. InTurn' /\ CatchesUp'
    BY <2>1 DEF InTurn, CatchesUp
  <2>3. proposals' \in [Scripts -> Seq(Statuses)]
    <3>1. CASE proposals' = [proposals EXCEPT ![k] = Append(@, "pending")]
      <4>1. proposals \in [Scripts -> Seq(Statuses)] /\ "pending" \in Statuses
        BY DEF ScriptsInv, ScriptsFit, Statuses
      <4> QED
        BY <3>1, <4>1
    <3>2. CASE \E v : proposals' = [proposals EXCEPT ![k][v] = "rejected"]
      <4>1. PICK v : proposals' = [proposals EXCEPT ![k][v] = "rejected"]
        BY <3>2
      <4>2. "rejected" \in Statuses /\ ScriptsFit
        BY DEF ScriptsInv, Statuses, Verdicts
      <4> QED
        BY <4>1, <4>2, RowsStillFit
    <3> QED
      BY <1>2, <3>1, <3>2 DEF WrittenElsewhere
  <2>4. ScriptsFit' /\ OneScript'
    BY <2>1, <2>3 DEF ScriptsInv, ScriptsFit, OneScript
  <2> QED
    BY <2>2, <2>4 DEF ScriptsInv
<1> QED
  BY <1>1, <1>2

LEMMA RetryKeepsScripts ==
  ASSUME ScriptsInv, RetryList
  PROVE  ScriptsInv'
<1>1. /\ ~ shelf.ready /\ Lists = {} /\ readings' = readings \cup {TheList}
      /\ UNCHANGED <<proposals, shelf, panel, proposal, reviews, blind, bustle>>
  BY DEF RetryList, Lists
<1>2. bustle' # {}
  BY <1>1 DEF ScriptsInv, InTurn
<1>3. ScriptsFit' /\ OneScript'
  BY <1>1, NewReadings DEF ScriptsInv, ScriptsFit, OneScript
<1> QED
  BY <1>2, <1>3 DEF ScriptsInv, InTurn, CatchesUp

LEMMA OpeningKeepsScripts ==
  ASSUME ScriptsInv, NEW k \in Scripts, OpenScript(k)
  PROVE  ScriptsInv'
<1>1. /\ shelf.ready /\ proposal = NoProposal /\ shelf.latest[k] > 0
      /\ UNCHANGED <<proposals, shelf, proposal, reviews, blind>>
  BY DEF OpenScript
<1>2. /\ bustle' = {} => bustle = {} /\ ~ Underway
      /\ "switched" \notin bustle' => "switched" \notin bustle /\ ~ Underway
  BY HasteIsNoted DEF OpenScript
<1>3. ~ Underway => readings = {} /\ reviews = {}
  BY DEF Underway
<1>4. panel \in [opened : Scripts \cup {Nothing}, rows : Seq(ShownRow)] /\ k # Nothing
  BY ScriptsAssumption DEF ScriptsInv, ScriptsFit, Nothing
<1>5. \/ panel'.opened = Nothing /\ panel'.rows = panel.rows /\ readings' = readings
      \/ panel'.opened = k /\ panel'.rows = <<>> /\ readings' = readings \cup {VersionsOf(k)}
  BY <1>4 DEF OpenScript, EmptyRows
<1>6. panel' \in [opened : Scripts \cup {Nothing}, rows : Seq(ShownRow)]
  <2>1. \/ panel' = [panel EXCEPT !.opened = Nothing]
        \/ panel' = [opened |-> k, rows |-> <<>>]
    BY DEF OpenScript, EmptyRows
  <2>2. PICK T, none : T = Seq(ShownRow) /\ none = <<>>
    OBVIOUS
  <2>3. none \in T /\ panel \in [opened : Scripts \cup {Nothing}, rows : T]
    BY <1>4, <2>2
  <2>4. \/ panel' = [panel EXCEPT !.opened = Nothing]
        \/ panel' = [opened |-> k, rows |-> none]
    BY <2>1, <2>2
  <2>5. panel' \in [opened : Scripts \cup {Nothing}, rows : T]
    BY <2>3, <2>4
  <2> QED
    BY <2>2, <2>5
<1>7. ScriptsFit'
  BY <1>1, <1>5, <1>6, NewReadings DEF ScriptsInv, ScriptsFit
<1>8. OneScript'
  BY <1>1, <1>2, <1>3, <1>5, NewReadings DEF ScriptsInv, OneScript
<1>9. InTurn'
  BY <1>1, <1>2, <1>3, NoProposalIsShut DEF ScriptsInv, InTurn
<1>10. CatchesUp'
  <2> SUFFICES ASSUME bustle' = {} PROVE CatchesUp'
    BY DEF CatchesUp
  <2>1. CatchesUp /\ bustle = {} /\ readings = {} /\ proposal.pc = "shut"
    BY <1>1, <1>2, <1>3, NoProposalIsShut DEF ScriptsInv
  <2>2. \A q \in Scripts : shelf.latest[q] = Len(proposals[q])
    BY <2>1 DEF CatchesUp, Lists
  <2>3. \A r \in readings' : r = VersionsOf(k) /\ ~ r.read
    BY <1>5, <2>1, NewReadings
  <2>4. panel'.opened = k => ToLoad(k)'
    BY <1>4, <1>5, NewReadings DEF ToLoad
  <2>5. Lists' \subseteq readings'
    BY DEF Lists
  <2>6. \A q \in Scripts : panel'.opened = q => q = k /\ Len(proposals[q]) > 0
    BY <1>1, <1>5, <2>2, ScriptsAssumption DEF Nothing
  <2> QED
    BY <1>1, <2>1, <2>2, <2>3, <2>4, <2>5, <2>6 DEF CatchesUp
<1> QED
  BY <1>7, <1>8, <1>9, <1>10 DEF ScriptsInv

LEMMA InsertingKeepsScripts ==
  ASSUME ScriptsInv, InsertVersion
  PROVE  ScriptsInv'
<1>1. PICK k : k = proposal.key
  OBVIOUS
<1>2. /\ proposal.pc = "read" /\ k \in Scripts /\ (proposal.new <=> proposal.latest = 0)
      /\ proposal \in FormRow /\ proposals \in [Scripts -> Seq(Statuses)]
  BY <1>1 DEF InsertVersion, ScriptsInv, ScriptsFit
<1>3. UNCHANGED <<shelf, panel, readings, reviews, blind, bustle>>
  BY DEF InsertVersion
<1>4. CASE proposal' = [proposal EXCEPT !.pc = "failed"] /\ UNCHANGED proposals
  <2>1. proposal' \in FormRow /\ proposal'.pc = "failed" /\ proposal'.key = k
    BY <1>1, <1>2, <1>4 DEF FormRow
  <2>2. bustle = {} => readings = {} /\ reviews = {}
    BY <1>2 DEF ScriptsInv, InTurn
  <2> QED
    BY <1>2, <1>3, <1>4, <2>1, <2>2, FormMoves DEF ScriptsRest
<1>5. CASE /\ Len(proposals[k]) <= proposal.latest
           /\ proposals' = [proposals EXCEPT ![k] = Append(@, "pending")]
           /\ proposal' = [proposal EXCEPT !.pc = "done"]
  <2>1. /\ proposal' \in FormRow /\ proposal'.pc = "done" /\ proposal'.key = k
        /\ proposal'.new = proposal.new
    BY <1>1, <1>2, <1>5 DEF FormRow
  <2>2. /\ proposals' \in [Scripts -> Seq(Statuses)]
        /\ \A q \in Scripts : Len(proposals'[q]) >= Len(proposals[q])
        /\ \A q \in Scripts \ {k} : proposals'[q] = proposals[q]
    <3>1. PICK old, new : old = proposals[k] /\ new = Append(old, "pending")
      OBVIOUS
    <3>2. old \in Seq(Statuses) /\ "pending" \in Statuses
      BY <1>2, <3>1 DEF Statuses
    <3>3. new \in Seq(Statuses) /\ Len(new) >= Len(old)
      BY <3>1, <3>2
    <3>4. proposals' = [proposals EXCEPT ![k] = new]
      BY <1>5, <3>1
    <3>5. \A q \in Scripts : Len(proposals[q]) \in Nat
      BY <1>2
    <3> QED
      BY <1>2, <3>1, <3>3, <3>4, <3>5
  <2>3. ScriptsFit' /\ OneScript'
    BY <1>2, <1>3, <2>1, <2>2 DEF ScriptsInv, ScriptsFit, OneScript
  <2>4. bustle' = {} => bustle = {} /\ readings = {} /\ reviews = {}
    BY <1>2, <1>3 DEF ScriptsInv, InTurn
  <2>5. InTurn'
    BY <1>3, <2>1, <2>4 DEF ScriptsInv, InTurn, Lists
  <2>6. CatchesUp'
    <3> SUFFICES ASSUME bustle' = {} PROVE CatchesUp'
      BY DEF CatchesUp
    <3>1. CatchesUp /\ bustle = {} /\ readings' = {} /\ Lists' = {} /\ ~ \E q \in reviews : q.pc = "done"
      BY <1>3, <2>4 DEF ScriptsInv, Lists
    <3>2. ASSUME NEW q \in Scripts, panel.opened = q
          PROVE  /\ Len(proposals'[q]) > 0
                 /\ panel.rows = Rows(q)' \/ ToLoad(q)'
                 /\ ~ (proposal'.new /\ k = q)
      <4>1. Len(proposals[q]) > 0 /\ (panel.rows = Rows(q) \/ ToLoad(q))
        BY <3>1, <3>2 DEF CatchesUp
      <4>2. Len(proposals'[q]) > 0
        BY <2>2, <4>1, RowsAreShown DEF ScriptsInv
      <4>3. ~ (proposal'.new /\ k = q)
        BY <1>2, <1>5, <2>1, <4>1
      <4>4. CASE q = k
        BY <2>1, <4>2, <4>3, <4>4 DEF ToLoad
      <4>5. CASE q # k
        <5>1. Rows(q)' = Rows(q)
          BY <2>2, <4>5 DEF Rows
        <5>2. ~ ToLoad(q)
          BY <1>2, <1>3, <3>1 DEF ToLoad
        <5> QED
          BY <4>1, <4>2, <4>3, <5>1, <5>2
      <4> QED
        BY <4>4, <4>5
    <3> QED
      BY <1>3, <2>1, <3>1, <3>2 DEF CatchesUp
  <2> QED
    BY <2>3, <2>5, <2>6 DEF ScriptsInv
<1>6. Len(proposals[k]) \in Nat /\ proposal.latest \in Nat
  BY <1>2 DEF FormRow
<1> QED
  BY <1>1, <1>4, <1>5, <1>6 DEF InsertVersion

LEMMA SavedKeepsScripts ==
  ASSUME ScriptsInv, ProposalSaved
  PROVE  ScriptsInv'
<1>1. /\ proposal.pc = "done" /\ proposal \in FormRow /\ proposal.key \in Scripts
      /\ shelf \in [ready : BOOLEAN, latest : [Scripts -> Nat]]
  BY DEF ProposalSaved, ScriptsInv, ScriptsFit
<1>2. /\ UNCHANGED <<proposals, panel, reviews, blind, bustle>>
      /\ readings' = readings \cup {TheList}
      /\ shelf' = [shelf EXCEPT !.ready = FALSE]
  BY DEF ProposalSaved
<1>3. /\ proposal' \in FormRow /\ proposal'.pc = "listing" /\ proposal'.key = proposal.key
      /\ proposal'.new = proposal.new
  BY <1>1 DEF ProposalSaved, FormRow
<1>4. \A k : Rows(k)' = Rows(k) /\ Len(proposals[k])' = Len(proposals[k])
  BY <1>2, ScriptsStay
<1>5. ScriptsFit'
  BY <1>1, <1>2, <1>3, NewReadings DEF ScriptsInv, ScriptsFit
<1>6. OneScript'
  BY <1>2, NewReadings DEF ScriptsInv, OneScript
<1>7. bustle = {} => readings = {} /\ reviews = {}
  BY <1>1 DEF ScriptsInv, InTurn
<1>8. Lists' # {} /\ (bustle = {} => readings' = Lists' /\ \A r \in readings' : ~ r.read)
  BY <1>2, <1>7, NewReadings DEF Lists
<1>9. InTurn'
  BY <1>2, <1>3, <1>7, <1>8 DEF ScriptsInv, InTurn
<1>10. \A k : ToLoad(k) => ToLoad(k)'
  BY <1>1, <1>2, <1>3 DEF ToLoad
<1>11. Lists' \subseteq readings'
  BY DEF Lists
<1>12. CatchesUp'
  BY <1>1, <1>2, <1>3, <1>4, <1>8, <1>10, <1>11 DEF ScriptsInv, CatchesUp
<1> QED
  BY <1>5, <1>6, <1>9, <1>12 DEF ScriptsInv

LEMMA ListedKeepsScripts ==
  ASSUME ScriptsInv, ProposalListed
  PROVE  ScriptsInv'
<1>1. PICK key : key = proposal.key
  OBVIOUS
<1>2. /\ proposal.pc = "listing" /\ key \in Scripts /\ key # Nothing /\ Lists = {}
      /\ UNCHANGED <<proposals, shelf, reviews, blind, bustle>>
      /\ panel \in [opened : Scripts \cup {Nothing}, rows : Seq(ShownRow)]
      /\ proposal' = NoProposal
  BY <1>1, ScriptsAssumption DEF ProposalListed, ScriptsInv, ScriptsFit, Lists, Nothing
<1>3. \/ /\ panel.opened = key /\ panel'.opened = key /\ panel'.rows = <<>>
         /\ readings' = readings \cup {VersionsOf(key)}
      \/ /\ panel.opened = key => proposal.new
         /\ UNCHANGED <<panel, readings>>
  BY <1>1, <1>2 DEF ProposalListed, EmptyRows
<1>4. panel' \in [opened : Scripts \cup {Nothing}, rows : Seq(ShownRow)]
  <2>1. CASE panel' = [panel EXCEPT !.rows = <<>>]
    <3>1. PICK T, none : T = Seq(ShownRow) /\ none = <<>>
      OBVIOUS
    <3>2. none \in T /\ panel \in [opened : Scripts \cup {Nothing}, rows : T]
      BY <1>2, <3>1
    <3>3. panel' = [panel EXCEPT !.rows = none]
      BY <2>1, <3>1
    <3>4. panel' \in [opened : Scripts \cup {Nothing}, rows : T]
      BY <3>2, <3>3
    <3> QED
      BY <3>1, <3>4
  <2> QED
    BY <1>2, <2>1 DEF ProposalListed, EmptyRows
<1>5. \A k : Rows(k)' = Rows(k) /\ Len(proposals[k])' = Len(proposals[k])
  BY <1>2, ScriptsStay
<1>6. ScriptsFit'
  BY <1>2, <1>3, <1>4, NewReadings, NoProposalIsShut DEF ScriptsInv, ScriptsFit
<1>7. OneScript'
  BY <1>2, <1>3, NewReadings DEF ScriptsInv, OneScript
<1>8. bustle = {} => reviews = {} /\ readings = {} /\ shelf.ready
  BY <1>2 DEF ScriptsInv, InTurn
<1>9. InTurn'
  BY <1>2, <1>8, NoProposalIsShut DEF InTurn
<1>10. CatchesUp'
  <2> SUFFICES ASSUME bustle' = {} PROVE CatchesUp'
    BY DEF CatchesUp
  <2>1. CatchesUp /\ bustle = {} /\ readings = {} /\ reviews = {} /\ proposal'.pc = "shut"
    BY <1>2, <1>8, NoProposalIsShut DEF ScriptsInv
  <2>2. \A q \in Scripts : shelf.latest[q] = Len(proposals[q])
    BY <1>2, <2>1 DEF CatchesUp
  <2>3. (\A r \in readings' : ~ r.read) /\ Lists' \subseteq readings'
    BY <1>2, <1>3, <2>1, NewReadings DEF Lists
  <2>4. ASSUME NEW q \in Scripts, panel'.opened = q
        PROVE  Len(proposals[q]) > 0 /\ (panel'.rows = Rows(q) \/ ToLoad(q)')
    <3>1. /\ Len(proposals[q]) > 0 /\ (panel.rows = Rows(q) \/ ToLoad(q))
          /\ ~ (proposal.new /\ key = q)
      BY <1>1, <1>2, <1>3, <2>1, <2>4 DEF CatchesUp
    <3>2. CASE key = q
      BY <1>2, <1>3, <2>4, <3>1, <3>2, NewReadings DEF ToLoad
    <3>3. CASE key # q
      BY <1>1, <1>3, <2>1, <2>4, <3>1, <3>3 DEF ToLoad
    <3> QED
      BY <3>2, <3>3
  <2> QED
    BY <1>2, <1>5, <2>1, <2>2, <2>3, <2>4 DEF CatchesUp
<1> QED
  BY <1>6, <1>7, <1>9, <1>10 DEF ScriptsInv

LEMMA AskingKeepsScripts ==
  ASSUME ScriptsInv, NEW v \in Nat, NEW status \in Verdicts, Review(v, status)
  PROVE  ScriptsInv'
<1>1. PICK q : q = [pc |-> "sent", key |-> panel.opened, version |-> v, status |-> status,
                    seen |-> panel.rows[v].of = panel.opened]
  OBVIOUS
<1>2. /\ reviews' = reviews \cup {q} /\ panel.opened # Nothing /\ v \in DOMAIN panel.rows
      /\ shelf.ready /\ proposal.pc = "shut"
      /\ UNCHANGED <<proposals, shelf, panel, readings, proposal, blind>>
  BY <1>1, NoProposalIsShut DEF Review
<1>3. /\ bustle' = {} => bustle = {} /\ ~ Underway
      /\ "switched" \notin bustle' => "switched" \notin bustle
  BY HasteIsNoted DEF Review
<1>4. ~ Underway => readings = {} /\ reviews = {}
  BY DEF Underway
<1>5. q \in DecisionRow /\ q.pc = "sent" /\ q.key = panel.opened
  <2>1. panel.opened \in Scripts
    BY <1>2 DEF ScriptsInv, ScriptsFit
  <2> QED
    BY <1>1, <2>1 DEF DecisionRow
<1>6. "switched" \notin bustle => q.seen
  BY <1>1, <1>2 DEF ScriptsInv, OneScript
<1>7. ScriptsFit' /\ OneScript'
  BY <1>2, <1>3, <1>5, <1>6 DEF ScriptsInv, ScriptsFit, OneScript
<1>8. InTurn'
  BY <1>2, <1>3, <1>4 DEF ScriptsInv, InTurn, Lists
<1>9. CatchesUp'
  <2>1. \A k : Rows(k)' = Rows(k) /\ Len(proposals[k])' = Len(proposals[k])
    BY <1>2, ScriptsStay
  <2>2. \A k : ToLoad(k) => ToLoad(k)'
    BY <1>2 DEF ToLoad
  <2>3. Lists' = Lists
    BY <1>2 DEF Lists
  <2> QED
    BY <1>2, <1>3, <2>1, <2>2, <2>3 DEF ScriptsInv, CatchesUp
<1> QED
  BY <1>7, <1>8, <1>9 DEF ScriptsInv

LEMMA ServingKeepsScripts ==
  ASSUME ScriptsInv, NEW q \in reviews, ServeReview(q)
  PROVE  ScriptsInv'
<1>1. PICK s : s = IF IsPending(q.key, q.version) THEN [q EXCEPT !.pc = "done"]
                   ELSE [q EXCEPT !.pc = "failed"]
  OBVIOUS
<1>2. /\ q.pc = "sent" /\ reviews' = (reviews \ {q}) \cup {s}
      /\ UNCHANGED <<shelf, panel, readings, proposal, bustle>>
      /\ IF IsPending(q.key, q.version)
         THEN /\ proposals' = [proposals EXCEPT ![q.key][q.version] = q.status]
              /\ blind' = (blind \/ ~ q.seen)
         ELSE UNCHANGED <<proposals, blind>>
  BY <1>1 DEF ServeReview, ReviewIs
<1>3. q \in DecisionRow /\ q.key \in Scripts /\ q.status \in Statuses
  BY DEF ScriptsInv, ScriptsFit, DecisionRow, Statuses
<1>4. /\ s \in DecisionRow /\ s.key = q.key /\ s.seen = q.seen
      /\ s.pc = IF IsPending(q.key, q.version) THEN "done" ELSE "failed"
  BY <1>1, <1>3 DEF DecisionRow
<1>5. /\ proposals' \in [Scripts -> Seq(Statuses)]
      /\ \A k \in Scripts : Len(proposals'[k]) = Len(proposals[k])
      /\ s.pc = "done" \/ UNCHANGED proposals
  <2>1. CASE IsPending(q.key, q.version)
    <3>1. PICK k, v, status : k = q.key /\ v = q.version /\ status = q.status
      OBVIOUS
    <3>2. proposals' = [proposals EXCEPT ![k][v] = status]
      BY <1>2, <2>1, <3>1
    <3>3. /\ proposals' \in [Scripts -> Seq(Statuses)]
          /\ \A p \in Scripts : Len(proposals'[p]) = Len(proposals[p])
      BY <1>3, <3>1, <3>2, RowsStillFit DEF ScriptsInv
    <3> QED
      BY <1>4, <2>1, <3>3
  <2>2. CASE ~ IsPending(q.key, q.version)
    BY <1>2, <2>2 DEF ScriptsInv, ScriptsFit
  <2> QED
    BY <2>1, <2>2
<1>6. ScriptsFit'
  BY <1>2, <1>4, <1>5 DEF ScriptsInv, ScriptsFit
<1>7. OneScript'
  BY <1>2, <1>4 DEF ScriptsInv, OneScript
<1>8. InTurn'
  BY <1>2 DEF ScriptsInv, InTurn, Lists
<1>9. CatchesUp'
  <2> SUFFICES ASSUME bustle' = {} PROVE CatchesUp'
    BY DEF CatchesUp
  <2>1. /\ CatchesUp /\ bustle = {} /\ readings' = {} /\ Lists' = {} /\ Lists = {}
        /\ \A r \in reviews : r = q
        /\ proposal.pc \notin {"done", "listing"}
    BY <1>2 DEF ScriptsInv, InTurn, Lists
  <2>2. ASSUME NEW k \in Scripts, panel.opened = k PROVE panel.rows = Rows(k)' \/ ToLoad(k)'
    <3>1. CASE s.pc = "done"
      BY <1>2, <3>1 DEF ToLoad
    <3>2. CASE UNCHANGED proposals
      <4>1. ~ ToLoad(k)
        BY <1>2, <2>1 DEF ToLoad
      <4>2. panel.rows = Rows(k)
        BY <2>1, <2>2, <4>1 DEF CatchesUp
      <4> QED
        BY <3>2, <4>2, ScriptsStay
    <3> QED
      BY <1>5, <3>1, <3>2
  <2> QED
    BY <1>2, <1>5, <2>1, <2>2 DEF CatchesUp
<1> QED
  BY <1>6, <1>7, <1>8, <1>9 DEF ScriptsInv

LEMMA AnsweringKeepsScripts ==
  ASSUME ScriptsInv, NEW q \in reviews, ReviewAnswered(q)
  PROVE  ScriptsInv'
<1>1. PICK new : new = {TheList, VersionsOf(q.key)}
  OBVIOUS
<1>2. /\ reviews' = reviews \ {q} /\ readings' = readings \cup new
      /\ shelf' = [shelf EXCEPT !.ready = FALSE]
      /\ UNCHANGED <<proposals, proposal, blind, bustle>>
  BY <1>1 DEF ReviewAnswered
<1>3. q.key \in Scripts /\ panel \in [opened : Scripts \cup {Nothing}, rows : Seq(ShownRow)]
  BY DEF ScriptsInv, ScriptsFit, DecisionRow
<1>4. /\ panel'.opened = panel.opened /\ panel'.rows = <<>>
      /\ panel' \in [opened : Scripts \cup {Nothing}, rows : Seq(ShownRow)]
  <2>1. PICK T, none : T = Seq(ShownRow) /\ none = <<>>
    OBVIOUS
  <2>2. none \in T /\ panel \in [opened : Scripts \cup {Nothing}, rows : T]
    BY <1>3, <2>1
  <2>3. panel' = [panel EXCEPT !.rows = none]
    BY <2>1 DEF ReviewAnswered, EmptyRows
  <2>4. panel' \in [opened : Scripts \cup {Nothing}, rows : T] /\ panel'.opened = panel.opened
        /\ panel'.rows = none
    BY <2>2, <2>3
  <2> QED
    BY <2>1, <2>4
<1>5. new \subseteq ReadingRow /\ \A r \in new : ~ r.read /\ r.rows = <<>> /\ r.of \in {Nothing, q.key}
  BY <1>1, <1>3, NewReadings
<1>6. ScriptsFit'
  <2>1. shelf' \in [ready : BOOLEAN, latest : [Scripts -> Nat]] /\ shelf'.latest = shelf.latest
    BY <1>2 DEF ScriptsInv, ScriptsFit
  <2> QED
    BY <1>2, <1>4, <1>5, <2>1 DEF ScriptsInv, ScriptsFit
<1>7. OneScript'
  BY <1>2, <1>4, <1>5 DEF ScriptsInv, OneScript
<1>8. bustle = {} => /\ readings = {} /\ reviews' = {} /\ proposal.pc \in {"shut", "open"}
                     /\ q.key = panel.opened
  BY <1>2 DEF ScriptsInv, InTurn, OneScript
<1>9. Lists' # {} /\ Lists' \subseteq readings'
  BY <1>1, <1>2, NewReadings DEF Lists
<1>10. InTurn'
  BY <1>2, <1>8, <1>9 DEF InTurn
<1>11. CatchesUp'
  <2> SUFFICES ASSUME bustle' = {} PROVE CatchesUp'
    BY DEF CatchesUp
  <2>1. CatchesUp /\ bustle = {} /\ readings' = new
    BY <1>2, <1>8 DEF ScriptsInv
  <2>2. ASSUME NEW k \in Scripts, panel'.opened = k PROVE Len(proposals[k]) > 0 /\ ToLoad(k)'
    BY <1>1, <1>2, <1>3, <1>4, <1>8, <2>1, <2>2, NewReadings DEF CatchesUp, ToLoad
  <2> QED
    BY <1>2, <1>5, <1>8, <1>9, <2>1, <2>2 DEF CatchesUp
<1> QED
  BY <1>6, <1>7, <1>10, <1>11 DEF ScriptsInv

LEMMA FailingKeepsScripts ==
  ASSUME ScriptsInv, NEW q \in reviews, ReviewFailed(q)
  PROVE  ScriptsInv'
<1>1. /\ reviews' = reviews \ {q}
      /\ UNCHANGED <<proposals, shelf, panel, readings, proposal, blind>>
      /\ bustle \subseteq bustle' /\ (bustle' = {} => q.pc = "failed")
  BY DEF ReviewFailed
<1>2. ScriptsFit' /\ OneScript'
  BY <1>1 DEF ScriptsInv, ScriptsFit, OneScript
<1>3. InTurn'
  BY <1>1 DEF ScriptsInv, InTurn, Lists
<1>4. CatchesUp'
  <2>1. \A k : Rows(k)' = Rows(k) /\ Len(proposals[k])' = Len(proposals[k])
    BY <1>1, ScriptsStay
  <2>2. bustle' = {} => bustle = {} /\ \A k : ToLoad(k) => ToLoad(k)'
    BY <1>1 DEF ToLoad
  <2>3. Lists' = Lists
    BY <1>1 DEF Lists
  <2> QED
    BY <1>1, <2>1, <2>2, <2>3 DEF ScriptsInv, CatchesUp
<1> QED
  BY <1>2, <1>3, <1>4 DEF ScriptsInv

LEMMA ScriptsInvariant == ScriptsSpec => []ScriptsInv
<1>1. ScriptsInv /\ [ScriptsNext]_scriptsVars => ScriptsInv'
  <2> SUFFICES ASSUME ScriptsInv, [ScriptsNext]_scriptsVars PROVE ScriptsInv'
    OBVIOUS
  <2>1. CASE UNCHANGED scriptsVars
    <3>1. UNCHANGED <<proposals, shelf, panel, readings, proposal, reviews, blind, bustle>>
      BY <2>1 DEF scriptsVars
    <3>2. \A k : Rows(k)' = Rows(k) /\ (ToLoad(k)' <=> ToLoad(k))
      BY <3>1 DEF Rows, ToLoad
    <3>3. Lists' = Lists
      BY <3>1 DEF Lists
    <3> QED
      BY <3>1, <3>2, <3>3 DEF ScriptsInv, ScriptsFit, OneScript, InTurn, CatchesUp
  <2>2. CASE \/ CancelProposal \/ SubmitProposal \/ ReadLatest \/ ProposalFailed
             \/ \E k \in Scripts, new \in BOOLEAN : OpenProposal(k, new)
    BY <2>2, FormKeepsScripts
  <2>3. CASE InsertVersion \/ ProposalSaved \/ ProposalListed \/ RetryList
    BY <2>3, InsertingKeepsScripts, SavedKeepsScripts, ListedKeepsScripts, RetryKeepsScripts
  <2>4. CASE \/ \E r \in readings : ReadFails(r)
             \/ \E k \in Scripts : WrittenElsewhere(k)
    BY <2>4, AccidentKeepsScripts
  <2>5. ASSUME NEW r \in readings, ReadRows(r) \/ RowsShown(r) PROVE ScriptsInv'
    BY <2>5, ReadingKeepsScripts, ShowingKeepsScripts
  <2>6. ASSUME NEW k \in Scripts, OpenScript(k) PROVE ScriptsInv'
    BY <2>6, OpeningKeepsScripts
  <2>7. ASSUME NEW v \in 1 .. MaxVersions, NEW s \in {"approved", "rejected"}, Review(v, s)
        PROVE  ScriptsInv'
    BY <2>7, AskingKeepsScripts DEF Verdicts
  <2>8. ASSUME NEW q \in reviews, ServeReview(q) \/ ReviewAnswered(q) \/ ReviewFailed(q)
        PROVE  ScriptsInv'
    BY <2>8, ServingKeepsScripts, AnsweringKeepsScripts, FailingKeepsScripts
  <2> QED
    BY <2>1, <2>2, <2>3, <2>4, <2>5, <2>6, <2>7, <2>8, Zenon DEF ScriptsNext
<1> QED
  BY <1>1, ScriptsStart, PTL DEF ScriptsSpec

(* The page stores a decision only for a version that it shows, unless     *)
(* another script was opened while a request was under way; and once       *)
(* nothing is under way it tells the rows, unless something was clicked    *)
(* meanwhile, a request failed or another tab wrote                        *)
(* (custom-scripts-content.tsx, reviewCustomToolVersion).                  *)
THEOREM DecisionsAreOfWhatIsShown == ScriptsSpec => []ReviewedAsShown
<1>1. ScriptsInv => ReviewedAsShown
  <2> SUFFICES ASSUME ScriptsInv PROVE ReviewedAsShown
    OBVIOUS
  <2>1. blind => "switched" \in bustle
    BY DEF ScriptsInv, OneScript
  <2>2. ASSUME ~ Underway, bustle = {}
        PROVE  /\ shelf.latest = [k \in Scripts |-> Len(proposals[k])]
               /\ panel.opened # Nothing => panel.rows = Rows(panel.opened)
    <3>1. /\ readings = {} /\ reviews = {} /\ Lists = {} /\ proposal.pc \notin {"done", "listing"}
          /\ \A k : ~ ToLoad(k)
      BY <2>2 DEF Underway, Lists, ToLoad
    <3>2. /\ \A k \in Scripts : shelf.latest[k] = Len(proposals[k])
          /\ \A k \in Scripts : panel.opened = k => panel.rows = Rows(k)
      BY <2>2, <3>1 DEF ScriptsInv, CatchesUp
    <3>3. shelf.latest \in [Scripts -> Nat] /\ panel.opened \in Scripts \cup {Nothing}
      BY DEF ScriptsInv, ScriptsFit
    <3> QED
      BY <3>2, <3>3
  <2> QED
    BY <2>1, <2>2 DEF ReviewedAsShown
<1> QED
  BY <1>1, ScriptsInvariant, PTL

\* The bounds on versions and turns, of what the page shows and reads too.
VersionsAreFew ==
  /\ \A k \in Scripts : Len(proposals[k]) <= MaxVersions /\ shelf.latest[k] <= MaxVersions
  /\ \A r \in readings : \A k \in Scripts : r.latest[k] <= MaxVersions
  /\ turns \in Nat /\ turns <= MaxTurns /\ blind \in BOOLEAN
  /\ bustle \subseteq {"failed", "elsewhere", "hasty", "switched"}

\* No step but these changes what is bounded.
LEMMA QuietKeepsVersionsFew ==
  ASSUME VersionsAreFew, UNCHANGED proposals, readings' \subseteq readings,
         shelf'.latest = shelf.latest, turns' = turns, blind' = blind,
         bustle' \subseteq bustle \cup {"failed", "hasty", "switched"}
  PROVE  VersionsAreFew'
BY DEF VersionsAreFew

(* However readings, proposals and decisions interleave, a script has no    *)
(* more versions than the bound, and the list tells of no more than there   *)
(* may be (custom-tool-repo.ts, custom-scripts-content.tsx).                *)
THEOREM ScriptsAreTyped == ScriptsSpec => []ScriptsTypeOK
<1>1. ScriptsInit => VersionsAreFew
  <2> SUFFICES ASSUME ScriptsInit PROVE VersionsAreFew
    OBVIOUS
  <2>1. \A k \in Scripts : NoneYet[k] = 0
    BY DEF NoneYet
  <2>2. \A k \in Scripts : Len(proposals[k]) <= 1
    <3>1. PICK n \in [Scripts -> 0 .. 1] :
            proposals = [k \in Scripts |-> [v \in 1 .. n[k] |-> "pending"]]
      BY DEF ScriptsInit
    <3>2. ASSUME NEW k \in Scripts PROVE Len(proposals[k]) <= 1
      <4>1. PICK c : c = n[k]
        OBVIOUS
      <4>2. c \in 0 .. 1 /\ proposals[k] = [v \in 1 .. c |-> "pending"]
        BY <3>1, <4>1
      <4> QED
        BY <4>2
    <3> QED
      BY <3>2
  <2>3. \A k \in Scripts : Len(proposals[k]) \in Nat
    BY ScriptsStart DEF ScriptsInv, ScriptsFit
  <2> QED
    <3>1. MaxVersions \in Nat /\ MaxVersions # 0 /\ MaxTurns \in Nat
      BY ScriptsAssumption
    <3>2. MaxVersions \in Nat /\ 1 <= MaxVersions /\ 0 \in Nat /\ 0 <= MaxTurns
      BY <3>1
    <3>3. TheList.latest = NoneYet /\ shelf.latest = NoneYet
      BY DEF ScriptsInit, TheList
    <3>4. ASSUME NEW k \in Scripts
          PROVE  Len(proposals[k]) <= MaxVersions /\ NoneYet[k] <= MaxVersions
      <4>1. PICK n : n = Len(proposals[k])
        OBVIOUS
      <4>2. n <= MaxVersions
        BY <2>2, <2>3, <3>2, <4>1
      <4>3. NoneYet[k] <= MaxVersions
        BY <2>1, <3>2
      <4> QED
        BY <4>1, <4>2, <4>3
    <3>5. readings = {TheList} /\ turns = 0 /\ blind = FALSE /\ bustle = {}
      BY DEF ScriptsInit
    <3> QED
      BY <3>2, <3>3, <3>4, <3>5 DEF VersionsAreFew
<1>2. ScriptsInv /\ VersionsAreFew /\ [ScriptsNext]_scriptsVars => VersionsAreFew'
  <2> SUFFICES ASSUME ScriptsInv, VersionsAreFew, [ScriptsNext]_scriptsVars PROVE VersionsAreFew'
    OBVIOUS
  <2>1. /\ proposals \in [Scripts -> Seq(Statuses)]
        /\ shelf \in [ready : BOOLEAN, latest : [Scripts -> Nat]]
        /\ readings \subseteq ReadingRow
        /\ MaxVersions \in Nat /\ MaxTurns \in Nat
        /\ proposal.pc # "shut" => proposal.key \in Scripts
    BY ScriptsAssumption DEF ScriptsInv, ScriptsFit
  <2>2. \A k \in Scripts : NoneYet[k] = 0
    BY DEF NoneYet
  <2>3. TheList.latest = NoneYet /\ \A k : VersionsOf(k).latest = NoneYet
    BY DEF TheList, VersionsOf
  <2>4. CASE UNCHANGED scriptsVars
    BY <2>4 DEF scriptsVars, VersionsAreFew
  <2>5. CASE \/ CancelProposal \/ ReadLatest \/ ProposalFailed
             \/ \E k \in Scripts, new \in BOOLEAN : OpenProposal(k, new)
             \/ \E r \in readings : ReadFails(r)
             \/ \E q \in reviews : ReviewFailed(q)
    BY <2>5, QuietKeepsVersionsFew DEF CancelProposal, ReadLatest, ProposalFailed, OpenProposal,
         ReadFails, ReviewFailed
  <2>6. CASE SubmitProposal \/ \E v \in 1 .. MaxVersions, s \in {"approved", "rejected"} : Review(v, s)
    BY <2>1, <2>6 DEF SubmitProposal, Review, Hastily, VersionsAreFew
  <2>7. CASE RetryList
    BY <2>1, <2>2, <2>3, <2>7 DEF RetryList, VersionsAreFew
  <2>8. ASSUME NEW k \in Scripts, OpenScript(k) PROVE VersionsAreFew'
    BY <2>1, <2>2, <2>3, <2>8 DEF OpenScript, Hastily, VersionsAreFew
  <2>9. CASE InsertVersion
    <3>1. CASE UNCHANGED proposals
      BY <2>9, <3>1, QuietKeepsVersionsFew DEF InsertVersion
    <3>2. CASE proposals' # proposals
      <4>1. PICK k, old : k = proposal.key /\ old = proposals[k]
        OBVIOUS
      <4>2. /\ k \in Scripts /\ old \in Seq(Statuses) /\ Len(old) < MaxVersions
            /\ proposals' = [proposals EXCEPT ![k] = Append(old, "pending")]
            /\ UNCHANGED <<shelf, readings, turns, blind, bustle>>
        BY <2>1, <2>9, <3>2, <4>1 DEF InsertVersion
      <4>3. Len(Append(old, "pending")) <= MaxVersions
        BY <2>1, <4>2
      <4>4. \A j \in Scripts : Len(proposals'[j]) <= MaxVersions
        BY <2>1, <4>2, <4>3 DEF VersionsAreFew
      <4> QED
        BY <4>2, <4>4 DEF VersionsAreFew
    <3> QED
      BY <3>1, <3>2
  <2>10. CASE ProposalSaved \/ \E q \in reviews : ReviewAnswered(q)
    <3>1. /\ \A r \in readings' : r \in readings \/ r.latest = NoneYet
          /\ UNCHANGED <<proposals, turns, blind, bustle>>
          /\ shelf' = [shelf EXCEPT !.ready = FALSE]
      BY <2>3, <2>10 DEF ProposalSaved, ReviewAnswered
    <3>2. shelf'.latest = shelf.latest
      BY <2>1, <3>1
    <3>3. \A r \in readings' : \A k \in Scripts : r.latest[k] <= MaxVersions
      BY <2>1, <2>2, <3>1 DEF VersionsAreFew
    <3> QED
      BY <3>1, <3>2, <3>3 DEF VersionsAreFew
  <2>11. CASE ProposalListed
    BY <2>1, <2>2, <2>3, <2>11 DEF ProposalListed, VersionsAreFew
  <2>12. ASSUME NEW r \in readings, ReadRows(r) PROVE VersionsAreFew'
    <3>1. PICK lengths : lengths = [k \in Scripts |-> Len(proposals[k])]
      OBVIOUS
    <3>2. PICK rows : rows = Rows(r.of)
      OBVIOUS
    <3>3. PICK s : s = IF r.of = Nothing THEN [r EXCEPT !.read = TRUE, !.latest = lengths]
                       ELSE [r EXCEPT !.read = TRUE, !.rows = rows]
      OBVIOUS
    <3>4. readings' = (readings \ {r}) \cup {s}
      BY <2>12, <3>1, <3>2, <3>3 DEF ReadRows
    <3>5. s.latest = lengths \/ s.latest = r.latest
      <4>1. r \in ReadingRow
        BY <2>1
      <4> QED
        BY <3>3, <4>1 DEF ReadingRow
    <3>6. \A k \in Scripts : s.latest[k] <= MaxVersions
      BY <3>1, <3>5 DEF VersionsAreFew
    <3> QED
      BY <2>12, <3>6, <3>4 DEF ReadRows, VersionsAreFew
  <2>13. ASSUME NEW r \in readings, RowsShown(r) PROVE VersionsAreFew'
    BY <2>1, <2>13 DEF RowsShown, VersionsAreFew
  <2>14. ASSUME NEW q \in reviews, ServeReview(q) PROVE VersionsAreFew'
    <3>1. q.key \in Scripts /\ proposals[q.key] \in Seq(Statuses)
      BY <2>1 DEF ScriptsInv, ScriptsFit, DecisionRow
    <3>2. PICK k, old, new : k = q.key /\ old = proposals[k] /\ new = [old EXCEPT ![q.version] = q.status]
      OBVIOUS
    <3>3. Len(new) = Len(old) /\ Len(old) <= MaxVersions
      BY <3>1, <3>2 DEF VersionsAreFew
    <3>4. proposals' \in {proposals, [proposals EXCEPT ![k] = new]}
      BY <2>14, <3>2 DEF ServeReview
    <3>5. \A j \in Scripts : Len(proposals'[j]) <= MaxVersions
      BY <2>1, <3>1, <3>2, <3>3, <3>4 DEF VersionsAreFew
    <3>6. blind' \in BOOLEAN /\ UNCHANGED <<shelf, readings, turns, bustle>>
      BY <2>14 DEF ServeReview, VersionsAreFew
    <3> QED
      BY <3>5, <3>6 DEF VersionsAreFew
  <2>15. ASSUME NEW k \in Scripts, WrittenElsewhere(k) PROVE VersionsAreFew'
    <3>1. PICK old : old = proposals[k]
      OBVIOUS
    <3>2. PICK new : /\ proposals' = [proposals EXCEPT ![k] = new]
                     /\ \/ Len(old) < MaxVersions /\ new = Append(old, "pending")
                        \/ \E v \in DOMAIN old : new = [old EXCEPT ![v] = "rejected"]
      BY <2>15, <3>1 DEF WrittenElsewhere
    <3>3. old \in Seq(Statuses) /\ Len(old) <= MaxVersions
      BY <2>1, <3>1 DEF VersionsAreFew
    <3>4. Len(new) <= MaxVersions
      BY <2>1, <3>2, <3>3
    <3>5. \A j \in Scripts : Len(proposals'[j]) <= MaxVersions
      BY <2>1, <3>2, <3>4 DEF VersionsAreFew
    <3> QED
      BY <2>15, <3>5 DEF WrittenElsewhere, VersionsAreFew
  <2> QED
    BY <2>4, <2>5, <2>6, <2>7, <2>8, <2>9, <2>10, <2>11, <2>12, <2>13, <2>14, <2>15, Zenon DEF ScriptsNext
<1>3. ScriptsInv /\ VersionsAreFew => ScriptsTypeOK
  <2> SUFFICES ASSUME ScriptsInv, VersionsAreFew PROVE ScriptsTypeOK
    OBVIOUS
  <2>1. \A k \in Scripts : \A v \in DOMAIN proposals[k] :
          proposals[k][v] \in {"pending", "approved", "rejected"}
    BY DEF ScriptsInv, ScriptsFit, Statuses, Verdicts
  <2>2. /\ panel.opened \in Scripts \cup {Nothing} /\ shelf.ready \in BOOLEAN
        /\ \A r \in readings : r.of \in Scripts \cup {Nothing}
        /\ proposal.pc \in {"shut", "open", "sent", "read", "done", "listing", "failed"}
        /\ \A q \in reviews : q.pc \in {"sent", "done", "failed"}
    BY DEF ScriptsInv, ScriptsFit, ReadingRow, FormRow, DecisionRow
  <2> QED
    BY <2>1, <2>2 DEF VersionsAreFew, ScriptsTypeOK
<1> QED
  BY <1>1, <1>2, <1>3, ScriptsInvariant, PTL DEF ScriptsSpec

=============================================================================
