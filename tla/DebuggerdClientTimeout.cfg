CONSTANTS
    TimeoutsMs = {1}
    TicksPerUs = 2
    UsPerMs = 2
    MaxChunks = 1
    MaxSignals = 0
SPECIFICATION Spec
INVARIANT BoundedWait
