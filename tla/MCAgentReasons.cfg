SPECIFICATION Spec
CONSTANTS
    MaxToolIterations = 2
    MaxCalls = 2
    Calls <- MCCalls
    Histories <- MCHistories
    BuiltinNames = {"create_custom_tool", "ssh_execute"}
    FreshNames = {"fresh"}
    Creator = "create_custom_tool"
INVARIANTS
    FailureReasonReachesModel
