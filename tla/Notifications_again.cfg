\* One approval, one device, a webhook: the recovery loop delivers it again.
SPECIFICATION NotificationsSpec
CONSTANTS
  Notices = {"n1"}
  Devices = {"phone"}
  Webhook = TRUE
  MaxChanges = 1
CHECK_DEADLOCK FALSE
INVARIANT
  DeliveredIsNotReleased
