SPECIFICATION Spec
CHECK_DEADLOCK FALSE
CONSTANTS
    Senders = {"a", "b"}
    Requests = {"r", "q"}
    Codes = {"c"}
    NoSender = "nobody"
    LockAfter = 2
    LockTime = 2
    BrakeAfter = 1
    BrakeTime = 1
    BrakeMax = 2
    OneAtATime = TRUE
    SecondFactor = TRUE
    Patience = 2
    Browsers = {"desk", "laptop"}
    Tabs = {"x", "y"}
    BrowserOf <- OnDesk
    IdleTime = 2
    NoteTime = 2
    Overlap = FALSE
    MaxRevocations = 2
    Users = {"u", "v"}
    NoUser = "none"
    Names = {"a", "b"}
    NoName = "noname"
    Aside <- AltOf
    Places = {}
    Owner <- UsersOfDesk
    Workers = {"takt", "x"}
    Calm = TRUE
    Turns = TRUE
    MaxTokens = 0
    MaxSecrets = 1
    MaxUpdates = 0
    MaxOffs = 0
    MaxFaults = 1
    MaxCrashes = 1
INVARIANTS TypeOK OwnMistakesOnly SignInsHold OwnRepositories
PROPERTIES  GroupsAgree
