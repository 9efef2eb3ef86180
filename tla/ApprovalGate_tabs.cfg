\* Is a declined call left undone when its tool becomes Allow meanwhile?
SPECIFICATION GateSpec
CONSTANTS
  mail = mail
  note = note
  look = look
  delegate = delegate
  Tools = {note}
  ToolOf <- OneNote
  Permission <- AllAsk
  Destructive = {}
  OriginAllowed = {note}
  Delegating = {}
  MaxEdits = 1
CHECK_DEADLOCK FALSE
INVARIANT
  DeclinedNeverRuns
