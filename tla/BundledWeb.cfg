SPECIFICATION Spec
CONSTANTS
    r1 = r1
    r2 = r2
    c1 = c1
    c2 = c2
    Requests = {r1, r2}
    Calls = {c1, c2}
SYMMETRY MCSymmetry
INVARIANTS
    OptOutIsLive
    FormIsNeverDead
