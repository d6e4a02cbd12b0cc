SPECIFICATION Spec
CONSTANTS
    Uploads = {u1, u2, u3}
    Contents = {c1, c2}
    Refused = Refused
    MaxFiles = 2
    MaxAttempts = 1
    MaxTaken = 4
    MaxRetries = 1
    Page = Page
    None = None
    Nothing = Nothing
INVARIANTS NoLateDuplicate HeldIsFound
SYMMETRY Symmetry
CHECK_DEADLOCK FALSE
