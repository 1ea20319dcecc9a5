\* MapPartitionWithSnapshot with a budget of two ticks and no failures:
\* does the call wait longer than its timeout?
CONSTANTS
    Timeouts = {2}
    MaxFailures = 0
SPECIFICATION Spec
INVARIANT WaitsWithinTimeout
