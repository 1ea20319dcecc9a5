\* MapPartitionWithSnapshot with no timeout and one failure: does an error
\* return leave a device of <n> mapped?
CONSTANTS
    Timeouts = {0}
    MaxFailures = 1
SPECIFICATION Spec
INVARIANT NoDevicesLeftOnFailure
