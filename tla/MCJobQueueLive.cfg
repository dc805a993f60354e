SPECIFICATION Spec
CONSTANTS
    s1 = s1
    s2 = s2
    plain = plain
    garbled = garbled
    unknown = unknown
    Servers = {s1, s2}
    Jobs = {plain, unknown}
    Handled = {plain}
    Garbled = {}
    Home <- AtHomeOn1
    DefaultRetries = 1
    MaxFaults = 0
    MaxCrashes = 1
CHECK_DEADLOCK FALSE
PROPERTIES
    QueueDrains
    WakesWhenSubscribed
