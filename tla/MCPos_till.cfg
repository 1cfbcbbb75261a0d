\* Two users who sign in with their names, three operations in flight.
SPECIFICATION Spec
CONSTANTS
  alice = alice
  bob = bob
  User = {alice, bob}
  Item = {cola}
  Card = {}
  Unknown = Unknown
  Nobody = Nobody
  MaxTask = 3
  SpareArrays = 1
  Price = 1
  Bill = 5
  SessionTicks = 1
SYMMETRY Users
PROPERTIES ImplementsTill
CHECK_DEADLOCK FALSE
