SPECIFICATION Spec
CONSTANTS
    s1 = s1
    s2 = s2
    plain = plain
    garbled = garbled
    unknown = unknown
    Servers = {s1, s2}
    Jobs = {plain, garbled}
    Handled = {plain, garbled}
    Garbled = {garbled}
    Home <- AtHomeOn1
    DefaultRetries = 1
    MaxFaults = 1
    MaxCrashes = 0
CHECK_DEADLOCK FALSE
INVARIANTS
    RunsBounded
    OneCopy
PROPERTIES
    PromiseKept
