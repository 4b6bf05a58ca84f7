SPECIFICATION Spec
CHECK_DEADLOCK FALSE
CONSTANTS
    Pairs = {"p", "q"}
    Pool = 3
    MaxLosses = 1
    Users = {"u"}
    Scripts = {"s", "t"}
    Starts = {"x", "y"}
    Careful = TRUE
    Displays = {1, 2, 3}
    First = {1, 2, 3}
    Late = FALSE
    MaxCopies = 3
    MaxInstalls = 1
    Apps = {"a", "b"}
    Routed = {2, 3}
    Fixed <- NoneFixed
    Selkies = TRUE
    Patient = TRUE
    Threads = {"x"}
    MaxRows = 2
    MaxFaults = 2
INVARIANTS TypeOK OwnScreen SameSubnet
PROPERTIES BuildsEnd AppComesBack NoOlderCopy OneClipboard RunsOnce
