SPECIFICATION Spec
CONSTANTS
    Procs = {p1, p2}
    Proposals = {x1, x2}
    Decisions = {d1, d2}
    Issues = {i1}
    Contents = {c1}
    MaxVersion = 3
    None = None
SYMMETRY Symmetry
PROPERTIES DispositionsHold
