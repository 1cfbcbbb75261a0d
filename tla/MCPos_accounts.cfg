\* Two users, a card that is blank or registered, three operations in flight.
SPECIFICATION Spec
CONSTANTS
  alice = alice
  bob = bob
  User = {alice, bob}
  Item = {cola}
  Card = {card}
  Unknown = Unknown
  Nobody = Nobody
  MaxTask = 3
  SpareArrays = 1
  Price = 1
  Bill = 5
  SessionTicks = 1
SYMMETRY Users
INVARIANTS ChargedWhoAsked ShownIsCharged BalanceIsExact
PROPERTIES CardsStay
CHECK_DEADLOCK FALSE
