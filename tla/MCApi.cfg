SPECIFICATION Spec
CONSTANTS
    Wildcard = 0
    Clients = {1, 2}
    Users = {1, 2}
    Ids = {1, 2, 3, 4, 5}
    Parts <- MCParts
    KeyedById <- MCKeyedById
    MaxRequests = 2
    MaxFaults = 1
CHECK_DEADLOCK FALSE
INVARIANTS
    ShownWasReadable
    NothingLostAlone
    OneKeyEach
    PartsHaveTheirWhole
    CreatorIsGranted
PROPERTIES
    ChangeWasAllowed
    DeletedIsGone
