SPECIFICATION Spec
CONSTANTS
    Wildcard = 0
    Checks = {"c1"}
    Changes = {"w1", "w2"}
    Caller = 7
    Type = "ssh_connection"
    Resource = 3
    Required = "write"
    Roles = {5}
    Given = {"write"}
    InitialTables <- MCTables
    MaxRows = 2
    MaxFaults = 1
CHECK_DEADLOCK FALSE
INVARIANTS
    FreshUnlessRaced
    AnswerWasTrue
