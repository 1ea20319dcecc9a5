CONSTANTS
    ShutdownTimeoutProp = 4
    WatchdogProp = 1
    MaxLag = 1
    MaxFsck = 1
    HangFinalSync = TRUE
SPECIFICATION FairSpec
PROPERTIES
    ShutdownCompletes
