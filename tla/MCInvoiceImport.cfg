\* Two previews; two lines and one item that is edited once, with two
\* applications; or one line whose units are typed twice.
SPECIFICATION PartSpec
CONSTANTS
    Preview = {p1, p2}
    l1 = l1
    Line = {l1, l2}
    Item = {i1}
    Row = {r1, r2}
    Count = {1, 2}
    MaxVersion = 2
    MaxEdit = 1
    Slot = {1, 2}
    None = None
SYMMETRY Symmetry
INVARIANTS TypeOK AppliedOnce AppliedIsShown PriceIsOfUnits
PROPERTIES NoEditLost
