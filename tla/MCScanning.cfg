\* Each of the scanning parts on its own.
SPECIFICATION PartSpec
CONSTANTS
    None = None
    Code = {c1, c2}
    MaxSession = 5
    MaxImage = 3
    MaxWork = 2
    Barcode = {b1, b2}
    NoBarcode = {n1}
    MaxEdit = 2
    MaxRetry = 1
    MaxLost = 2
    MaxStartOver = 1
    Digit = {"1"}
    Reader = {"acr122"}
    Card = {"04a1"}
    Debounce = 1
    MaxTime = 4
    MaxKey = 2
    MaxScan = 3
    MaxLife = 3
SYMMETRY Symmetry
INVARIANTS PartTypeOK CameraGivenBack NothingFromBefore WarnsUnlessRaced UnbarcodedOnce ScansAreReported
PROPERTIES EditsKept
CHECK_DEADLOCK FALSE
