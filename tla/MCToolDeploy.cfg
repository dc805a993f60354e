\* Two servers, two tools with two versions, binaries of two pieces, one lost connection.
CONSTANTS
    Servers = {s1, s2}
    Names = {a, b}
    Versions = {v1, v2}
    a = a
    b = b
    v1 = v1
    v2 = v2
    Tools <- ThreeTools
    None = None
    Pieces = 2
    MaxFaults = 1
SYMMETRY Alike
SPECIFICATION Spec
INVARIANTS ListedIsDeployed GarbledByOverlap
