CONSTANTS
    p1 = p1
    t1 = t1
    j1 = j1
    d1 = d1
    c1 = c1
    c2 = c2
    None = None
    Works = {p1, j1, t1, d1}
    Contents = {c1, c2}
    MaxChanges = 2
    Kind <- MCKind
    Blocks <- MCBlocks
SPECIFICATION MCSpec
INVARIANTS StageInv
PROPERTIES MovesAreEarned
CHECK_DEADLOCK FALSE
