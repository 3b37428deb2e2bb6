SPECIFICATION Spec
CONSTANTS
    p1 = p1
    p2 = p2
    m1 = m1
    e1 = e1
    b1 = b1
    x1 = x1
    A = A
    B = B
    Cards = {c1}
    Titles = {A, B}
    Managers = {boss, other}
    First = boss
    Files = {f}
    NoColumn = NoColumn
    Blank = Blank
    Columns <- MCColumns
    Seeded <- MCSeeded
    SeedTitle <- MCTitle
    SeedGates <- MCGates
    MaxEdits = 1
    Edited = {"plan"}
    NewGates = {TRUE}
    MaxMishaps = 1
INVARIANTS
    TreeMirrorsBoard
    RoutedRight
PROPERTIES
    LivesItsLife
CHECK_DEADLOCK FALSE
