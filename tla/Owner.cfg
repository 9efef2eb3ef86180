\* Five calls of four tools, answered in any way, with and without edits; a
\* chat of two turns with a lost connection; a notice and three changes.
SPECIFICATION OwnerSpec
CONSTANTS
  mail = mail
  note = note
  look = look
  delegate = delegate
  Tools = {mail, note, look, delegate}
  ToolOf <- Batch
  Permission <- LookAllowed
  Destructive = {mail}
  OriginAllowed = {mail, note, look, delegate}
  Delegating = {delegate}
  MaxEdits = 2
  Fetches = {1, 2}
  Hasty = FALSE
  MaxTurns = 2
  MaxReads = 1
  MaxDrops = 1
  Notices = {"n1"}
  Devices = {"phone"}
  Webhook = TRUE
  MaxChanges = 3
CHECK_DEADLOCK FALSE
INVARIANTS
  DecisionsAreCarriedOut
  PushedOnceUnlessRaced
PROPERTIES
  EveryBatchEnds
  ScreenCatchesUp
  HeldApprovalsAreReleased
