\* One chat: two turns of two workers with an effectful and a read-only call;
\* three turns of one worker with pause, resume, stop, retry and continue; or
\* two chats of one turn.
SPECIFICATION Spec
CONSTANTS
  j1 = j1
  j2 = j2
  w1 = w1
  w2 = w2
  c1 = c1
  c2 = c2
  Jobs = {j1, j2}
  Workers = {w1, w2}
  Calls = {c1, c2}
  EffectCalls = {c1}
  MaxAttempts = 3
  None = None
SYMMETRY WorkerSymmetry
CONSTRAINT Bounded
CHECK_DEADLOCK FALSE
INVARIANTS
  TypeOK
  CancelHonoured
  UncertaintyKept
  OnePendingApproval
  AggregateAgrees
  NoticesTellTheOutcome
  TranscriptOnlyFromStandingTurns
PROPERTIES
  SettledIsFinal
  DecisionsStand
  FirstCancelWins
  ImplementsLifecycle
