\* The comment on SESSION_TIME: the time after any interaction.
SPECIFICATION Spec
CONSTANTS
  alice = alice
  bob = bob
  User = {alice}
  Item = {cola}
  Card = {}
  Unknown = Unknown
  Nobody = Nobody
  MaxTask = 2
  SpareArrays = 1
  Price = 1
  Bill = 5
  SessionTicks = 2
PROPERTY ResetOnlyWhenIdle
CHECK_DEADLOCK FALSE
