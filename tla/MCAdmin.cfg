\* Each part of the administration on its own, with two threads or requests.
SPECIFICATION PartSpec
CONSTANTS
    None = None
    u1 = u1
    u2 = u2
    ann = ann
    Ann = Ann
    bob = bob
    upce = upce
    upca = upca
    ean13 = ean13
    i1 = i1
    t1 = t1
    t2 = t2
    f1 = f1
    f2 = f2
    Thread = {t1, t2}
    Code = {upce, upca, ean13}
    Candidates <- Spellings
    Item = {1, 2, 3}
    Form = {f1, f2}
    MaxSave = 2
    Email = {u1, u2, stranger}
    Customer = {u1, u2}
    Goods = {i1}
    Cost <- Costs
    Limit = 1
    MaxRow = 2
    MaxWork = 3
    Name = {ann, Ann, bob}
    Lower <- SmallLetters
    Batch = 1
    Lists <- EmailLists
    MaxUser = 3
    MaxJob = 3
SYMMETRY Symmetry
INVARIANTS PartTypeOK AnswersAreTrue AllOrNothing AuditIsTrue RefundedWasBought NoVariants SavedCanBeScanned OneProduct PackIsKept
PROPERTIES InOrder ImplementsCatalogue
CHECK_DEADLOCK FALSE
