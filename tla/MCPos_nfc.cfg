\* The comment on nfc_scan_error: a failed card reading bumps the timeout.
SPECIFICATION Spec
CONSTANTS
  alice = alice
  bob = bob
  User = {alice}
  Item = {cola}
  Card = {}
  Unknown = Unknown
  Nobody = Nobody
  MaxTask = 2
  SpareArrays = 1
  Price = 1
  Bill = 5
  SessionTicks = 2
PROPERTY NfcErrorBumps
CHECK_DEADLOCK FALSE
