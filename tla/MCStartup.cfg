CONSTANTS
    s1 = s1
    s2 = s2
    Processes = {s1, s2}
    Types <- MCTypes
    AgentTools <- MCAgentTools
    FileTools <- MCFileTools
    Databases <- MCDatabases
    MaxStarts = 3
    MaxEdits = 1
SYMMETRY Alike
SPECIFICATION StartupSpec
\* Starts and edits are bounded.
CHECK_DEADLOCK FALSE
INVARIANTS
    ListeningIsSeeded
    OnlyDeletedRowsStopIt
