SPECIFICATION Spec
CONSTANTS
    Paths = {1, 2}
    Texts = {t1, t2}
    Runs = {r1, r2, r3}
    MaxEdits = 2
    Missing = Missing
    Unreadable = Unreadable
INVARIANTS HashIsIndexed
SYMMETRY Symmetry
CHECK_DEADLOCK FALSE
