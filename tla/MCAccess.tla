------------------------------- MODULE MCAccess -------------------------------
(* Small instances of what decides who gets in, side by side: the sign-in here,  *)
(* the sessions of browsers, the accounts here, in Keycloak and in Forgejo, and   *)
(* the groups.  focus says which of them moves, the others stay as they begin.   *)
EXTENDS LocalLogin, BrowserSessions, Git

VARIABLES
    focus,
    users, keycloak, run, crashes, faults,
    rows, directory, coupled, active, central, missed, jobs, misses

accountVars == <<users, keycloak, run, crashes, faults>>
groupVars == <<rows, directory, coupled, active, central, missed, jobs, misses>>
vars == <<focus, loginVars, sessionVars, gitVars, accountVars, groupVars>>

OnDesk(t) == "desk"
UsersOfDesk(p) == "u"
AltOf(n) == CASE n = "a" -> "a.alt" [] n = "b" -> "b.alt"

\* Two people beside the emergency account, three accounts in Keycloak.
Moving == INSTANCE Accounts WITH Rows <- {"e", "p", "q"}, Emergency <- "e",
    Subs <- {"d", "m", "n"}, Domain <- {"d"}, Logins <- {"a", "b"}, EmergencyName <- "emergency",
    NoSub <- "none", Renames <- FALSE, TakesBackForGood <- TRUE, LosesAnswers <- FALSE,
    MaxAborts <- 0, MaxFails <- 1
Shaken == INSTANCE Accounts WITH Rows <- {"e", "p", "q"}, Emergency <- "e",
    Subs <- {"d", "m"}, Domain <- {"d"}, Logins <- {"a", "b"}, EmergencyName <- "emergency",
    NoSub <- "none", Renames <- TRUE, TakesBackForGood <- FALSE, LosesAnswers <- TRUE,
    MaxAborts <- 1, MaxFails <- 1

\* One transaction at a time, and with transfers that Keycloak misses; three beside one another.
Joining == INSTANCE Groups WITH Members <- {"u", "v"}, NoMember <- "none", Beside <- FALSE,
    MaxMisses <- 0
Missing == INSTANCE Groups WITH Members <- {"u"}, NoMember <- "none", Beside <- FALSE,
    MaxMisses <- 2
Crossing == INSTANCE Groups WITH Members <- {"u"}, NoMember <- "none", Beside <- TRUE,
    MaxMisses <- 0

ASSUME LocalLoginAssumption /\ BrowserSessionsAssumption /\ GitAssumption
ASSUME Moving!AccountsAssumption /\ Shaken!AccountsAssumption
ASSUME Joining!GroupsAssumption /\ Missing!GroupsAssumption /\ Crossing!GroupsAssumption

Init ==
    /\ focus \in {"login", "browsers", "moving", "shaken", "joining", "missing", "crossing", "renaming"}
    /\ LoginInit /\ BrowserInit /\ GitInit
    /\ IF focus = "shaken" THEN Shaken!AccountsInit ELSE Moving!AccountsInit
    /\ IF focus \in {"missing", "crossing"} THEN Crossing!GroupsInit ELSE Joining!GroupsInit
    \* what does not move begins in one way only
    /\ focus # "browsers" => local
    /\ focus # "renaming" => user["u"].name = "a"
    /\ focus \notin {"moving", "shaken"} => users["p"].name = "a"
    /\ focus \notin {"joining", "missing", "crossing"} => \A u \in DOMAIN directory : directory[u] = "in"

Next ==
    \/ /\ focus = "login" /\ LoginNext
       /\ UNCHANGED <<focus, sessionVars, gitVars, accountVars, groupVars>>
    \/ /\ focus = "browsers" /\ BrowserNext
       /\ UNCHANGED <<focus, loginVars, gitVars, accountVars, groupVars>>
    \/ /\ focus = "moving" /\ Moving!AccountsNext
       /\ UNCHANGED <<focus, loginVars, sessionVars, gitVars, groupVars>>
    \/ /\ focus = "shaken" /\ Shaken!AccountsNext
       /\ UNCHANGED <<focus, loginVars, sessionVars, gitVars, groupVars>>
    \/ /\ focus = "joining" /\ Joining!GroupsNext
       /\ UNCHANGED <<focus, loginVars, sessionVars, gitVars, accountVars>>
    \/ /\ focus = "missing" /\ Missing!GroupsNext
       /\ UNCHANGED <<focus, loginVars, sessionVars, gitVars, accountVars>>
    \/ /\ focus = "crossing" /\ Crossing!GroupsNext
       /\ UNCHANGED <<focus, loginVars, sessionVars, gitVars, accountVars>>
    \/ /\ focus = "renaming" /\ GitNext
       /\ UNCHANGED <<focus, loginVars, sessionVars, accountVars, groupVars>>

Spec == Init /\ [][Next]_vars

\* The types of the component that moves.
TypeOK ==
    /\ LoginTypeOK /\ BrowserTypeOK /\ GitTypeOK
    /\ focus = "moving" => Moving!AccountsTypeOK
    /\ focus = "shaken" => Shaken!AccountsTypeOK
    /\ focus = "joining" => Joining!GroupsTypeOK
    /\ focus = "missing" => Missing!GroupsTypeOK
    /\ focus = "crossing" => Crossing!GroupsTypeOK


\* Groups: each side changes only its own half of a membership, and Keycloak has the members
\* that OTA has.
GroupsAgree ==
    [][/\ focus = "joining" => Joining!GroupsAgree
       /\ focus = "missing" => Missing!GroupsAgree
       /\ focus = "crossing" => Crossing!GivesApart]_vars
=============================================================================
