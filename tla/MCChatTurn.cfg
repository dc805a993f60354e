\* Two tabs, a rename or archiving, a deletion, and one statement that fails.
CONSTANTS
    Turns = {t1, t2}
    Edits = {e}
    Deletes = {d}
    Requests <- MCRequests
    Batches <- MCBatches
    MaxFaults = 1
SYMMETRY Tabs
SPECIFICATION Spec
INVARIANTS HistoryIsWhole DoneMeansStored OrphansAreLate NamedByFirst
PROPERTIES StaysGone
CHECK_DEADLOCK FALSE
