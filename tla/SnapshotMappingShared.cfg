CONSTANTS
    c1 = c1
    c2 = c2
    Callers = {c1, c2}
    Minors <- MCMinors
    MaxCalls = 2
    MaxFailures = 1
SPECIFICATION Spec
INVARIANTS
    TypeOK
    NoLeftoverDevices
