CONSTANTS
    c1 = c1
    c2 = c2
    Callers = {c1, c2}
    Minors <- MCMinors
    MaxCalls = 1
    MaxFailures = 0
SPECIFICATION Spec
INVARIANTS
    StackOverItsDevices
