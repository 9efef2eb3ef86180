\* Is a delegation at Ask that the owner declined left undone?
SPECIFICATION GateSpec
CONSTANTS
  mail = mail
  note = note
  look = look
  delegate = delegate
  Tools = {delegate}
  ToolOf <- OneDelegation
  Permission <- AllAsk
  Destructive = {}
  OriginAllowed = {delegate}
  Delegating = {delegate}
  MaxEdits = 0
CHECK_DEADLOCK FALSE
INVARIANT
  DeclinedNeverRunsUnedited
