SPECIFICATION Spec
CONSTANTS
    Turns = {t1}
    t1 = t1
    Connections = {1}
    ToolIds = {1, 2, 3}
    Builtins <- MCBuiltins
    ToolNames = {"own", "ssh_execute", "new"}
    Rules <- MCRules
    Commands <- MCCommands
    Hosts = {"old", "new"}
    First <- MCFirst
    DefaultRetries = 1
    MaxCalls = 2
    MaxEdits = 2
    MaxFaults = 1
    MaxVersions = 2
CHECK_DEADLOCK FALSE
INVARIANTS
    ReachedWasAllowed
    ModelToolsHaveSource
