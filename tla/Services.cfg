SPECIFICATION Spec
CHECK_DEADLOCK FALSE
CONSTANTS
    Users = {"u"}
    Places = {"p"}
    Owner <- UsersOfDesk
    Workers = {"takt", "x"}
    Calm = TRUE
    MaxTokens = 1
    MaxSecrets = 1
    MaxFaults = 1
    People = {"u", "v"}
    Groups = {"g", "h"}
    GroupNames = {"m", "n"}
    Requests = {"x"}
    Serial = TRUE
    FreshNames = TRUE
    Slipping = {"create", "lost", "undo"}
    MaxSlips = 1
INVARIANTS TypeOK LiveTokenKept LetsInMembers
PROPERTIES WithdrawnAtLast SignInComesBack LearnsAtLast
