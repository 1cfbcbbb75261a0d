\* Nobody at the kiosk any more: sessions end whatever answers still come.
SPECIFICATION LiveSpec
CONSTANTS
  alice = alice
  bob = bob
  User = {alice}
  Item = {cola}
  Card = {}
  Unknown = Unknown
  Nobody = Nobody
  MaxTask = 2
  SpareArrays = 1
  Price = 1
  Bill = 5
  SessionTicks = 2
PROPERTY SessionsEnd
CHECK_DEADLOCK FALSE
