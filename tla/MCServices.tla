------------------------------ MODULE MCServices ------------------------------
(* Small instances of the services beside the desks: OTA-Git, an extension and a  *)
(* web application.  focus says which of them moves, the others stay as they      *)
(* begin.  The extension is that of Extensions itself, which moves when focus is  *)
(* "coupled", the application that of WebApps.                                    *)
EXTENDS Extensions, WebApps

VARIABLES
    focus,
    on, client, source, container, way, gitUser, konto, pending, accounts, prohibited, place, row,
    flushed, valid, desk, work, count

gitVars == <<on, client, source, container, way, gitUser, konto, pending, accounts, prohibited, place, row,
             flushed, valid, desk, work, count>>
vars == <<focus, gitVars, extVars, webVars>>

UsersOfDesk(p) == "u"
AltOf(n) == CASE n = "a" -> "a.alt"

Tokens == INSTANCE Git WITH Users <- {"u"}, NoUser <- "none", Names <- {"a"},
    NoName <- "noname", Aside <- AltOf, Places <- {"p"}, Owner <- UsersOfDesk,
    Workers <- {"takt", "x"}, Calm <- TRUE, Turns <- TRUE, MaxTokens <- 3, MaxSecrets <- 1,
    MaxUpdates <- 0, MaxOffs <- 0, MaxFaults <- 2, MaxCrashes <- 0, user <- gitUser
\* Tokens as its property reads it: the instances below have no such user and no such desk.
Padded(f, of, default) == IF of \in DOMAIN f THEN f ELSE [x \in {of} |-> default]
Withdrawing == INSTANCE Git WITH Users <- {"u"}, NoUser <- "none", Names <- {"a"},
    NoName <- "noname", Aside <- AltOf, Places <- {"p"}, Owner <- UsersOfDesk,
    Workers <- {"takt", "x"}, Calm <- TRUE, Turns <- TRUE, MaxTokens <- 3, MaxSecrets <- 1,
    MaxUpdates <- 0, MaxOffs <- 0, MaxFaults <- 2, MaxCrashes <- 0,
    place <- Padded(place, "p", "none"), konto <- Padded(konto, "u", [name |-> "noname"]),
    user <- Padded(gitUser, "u", [may |-> TRUE])
Switching == INSTANCE Git WITH Users <- {}, NoUser <- "none", Names <- {"a"},
    NoName <- "noname", Aside <- AltOf, Places <- {}, Owner <- UsersOfDesk,
    Workers <- {"takt", "x"}, Calm <- TRUE, Turns <- TRUE, MaxTokens <- 0, MaxSecrets <- 6,
    MaxUpdates <- 3, MaxOffs <- 2, MaxFaults <- 0, MaxCrashes <- 0, user <- gitUser

ASSUME Tokens!GitAssumption /\ Switching!GitAssumption
ASSUME ExtensionsAssumption /\ WebAppsAssumption

Init ==
    /\ focus \in {"tokens", "switching", "coupled", "web"}
    /\ IF focus = "switching" THEN Switching!GitInit ELSE Tokens!GitInit
    /\ ExtInit /\ WebInit

Next ==
    \/ /\ focus = "tokens" /\ Tokens!GitNext
       /\ UNCHANGED <<focus, extVars, webVars>>
    \/ /\ focus = "switching" /\ Switching!GitNext
       /\ UNCHANGED <<focus, extVars, webVars>>
    \/ /\ focus = "coupled" /\ ExtNext
       /\ UNCHANGED <<focus, gitVars, webVars>>
    \/ /\ focus = "web" /\ WebNext
       /\ UNCHANGED <<focus, gitVars, extVars>>

\* GitFairness, of the instance that moves.
GitIsFair ==
    /\ SF_gitVars(
         \/ focus = "tokens" /\ Tokens!TaktBegins
         \/ focus = "switching" /\ Switching!TaktBegins)
    /\ SF_gitVars(
         \/ focus = "tokens" /\ Tokens!SwitchBegins("takt")
         \/ focus = "switching" /\ Switching!SwitchBegins("takt"))
    /\ WF_gitVars(
         \/ focus = "tokens" /\ Tokens!Sweeping
         \/ focus = "switching" /\ Switching!Sweeping)
    /\ \A x \in {"takt", "x"} : WF_gitVars(
         \/ focus = "tokens" /\ (Tokens!Switched(x) \/ Tokens!Run(x))
         \/ focus = "switching" /\ (Switching!Switched(x) \/ Switching!Run(x)))
    /\ WF_gitVars(focus = "tokens" /\ Tokens!SignInCommits("u"))
    /\ WF_gitVars(focus = "tokens" /\ \E well \in BOOLEAN : Tokens!StartEnds("p", well))

Spec == Init /\ [][Next]_vars /\ GitIsFair /\ ExtFairness

\* The types of the component that moves.
TypeOK ==
    /\ focus = "tokens" => Tokens!GitTypeOK
    /\ focus = "switching" => Switching!GitTypeOK
    /\ focus = "coupled" => ExtTypeOK
    /\ focus = "web" => WebTypeOK

\* Git: what someone may use no longer is withdrawn.
WithdrawnAtLast == focus = "tokens" => Withdrawing!WithdrawnAtLast

\* Git: once it is on, one can sign in there again, also after an update.
SignInComesBack == focus = "switching" => Switching!SignInComesBack
=============================================================================
