SPECIFICATION Spec
CONSTANTS
    Clients = {c1, c2}
    Rpm = 3
    Window = 6
    Second = 3
INVARIANTS RetryAfterIsEnough
PROPERTIES LimitIsExact
