SPECIFICATION HttpSpec
CONSTANTS
    Peers = {p1, p2}
    MaxBody = 2
INVARIANTS WholeUploads
CHECK_DEADLOCK FALSE
