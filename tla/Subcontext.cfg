CONSTANTS
    Pids = {1, 2, 3, 4, 5, 6}
    MaxCommands = 3
    MaxDeaths = 1
    MaxServices = 1
SPECIFICATION FairSpec
INVARIANTS
    TypeOK
PROPERTY
    TransmitMessageReturns
