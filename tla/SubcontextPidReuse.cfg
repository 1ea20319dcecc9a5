CONSTANTS
    Pids = {1, 2}
    MaxCommands = 1
    MaxDeaths = 1
    MaxServices = 1
SPECIFICATION Spec
INVARIANT RestartKillsOnlySubcontext
