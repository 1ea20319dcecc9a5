\* One MapPartitionWithSnapshot call, over every shape of partition, with
\* no timeout and with a budget of two ticks, and up to two failures.
CONSTANTS
    Timeouts = {0, 2}
    MaxFailures = 2
SPECIFICATION Spec
INVARIANTS
    TypeOK
    OnlyUnreadSnapshotLeft
    StackOnSuccess
    NodesReadyOnSuccess
