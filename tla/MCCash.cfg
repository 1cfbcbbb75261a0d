\* Two bills; the reader disables itself twice, the service restarts once.
SPECIFICATION LiveSpec
CONSTANTS
  b1 = b1
  b2 = b2
  Bill = {b1, b2}
  NoBill = NoBill
  MaxDisabled = 2
  MaxRestarts = 1
INVARIANTS TakenWithConsent NoFreeMoney
PROPERTIES ImplementsEscrow NoBillStuck
