CONSTANTS
    c1 = c1
    c2 = c2
    Callers = {c1}
    Minors <- MCMinors
    MaxCalls = 3
    MaxFailures = 2
SPECIFICATION Spec
INVARIANTS
    StackOverItsDevices
