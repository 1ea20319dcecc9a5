CONSTANTS
    TimeoutsMs = {0, 1}
    TicksPerUs = 2
    UsPerMs = 2
    MaxChunks = 2
    MaxSignals = 1
SPECIFICATION Spec
INVARIANTS
    TypeOK
    DumpForwardedOnSuccess
