-------------------------------- MODULE WebApps --------------------------------
(***************************************************************************)
(* A foreign web application in the catalogue: its row in OTA, its client  *)
(* in Keycloak, and who gets in there.  Keycloak knows groups by name only *)
(* and keeps them, so what OTA carries over has to follow every change of  *)
(* the application, of a group's name and of its members.                  *)
(***************************************************************************)
EXTENDS FiniteSets, Integers

CONSTANTS
    People, Groups, \* central accounts; identities of groups, each used once
    GroupNames,     \* names of groups
    Requests,       \* requests of administrators that are under way
    Serial,         \* one request at a time
    FreshNames,     \* no new group takes a name Keycloak still knows members of
    Slipping,       \* the requests in which a call of Keycloak may fail, and which failures
    MaxSlips

WebAppsAssumption ==
    /\ Serial \in BOOLEAN /\ FreshNames \in BOOLEAN /\ MaxSlips \in Nat
    /\ Slipping \subseteq {"create", "undo", "edit", "delete", "follow", "transfer",
                        "lost",   \* an error that passes by, a client made though the answer is lost
                        "silent"} \* a refusal that is not looked at
    /\ GroupNames \cap {"", "gone"} = {}

VARIABLES
    groups,         \* groups: the name of each, "" if it is not there
    members,        \* group_members
    app,            \* web_apps, group_web_apps: the one application
    appClient,      \* Keycloak: the client, its own sign-in flow (and whether that asks for the
                    \* role), the groups with role `zugang`, and whether its secret was shown
    central,        \* Keycloak: members of /ota/<name>
    requests,       \* what the requests are doing
    slips

webVars == <<groups, members, app, appClient, central, requests, slips>>

NoApp == [there |-> FALSE, groups |-> {}, all |-> FALSE]
NoClient == [there |-> FALSE, bound |-> FALSE, checks |-> FALSE, told |-> FALSE, mapped |-> {}]
NewClient == \* open to all accounts
    [there |-> TRUE, bound |-> FALSE, checks |-> FALSE, told |-> FALSE, mapped |-> {}]
NoWork == [kind |-> "none", pc |-> "idle", app |-> NoApp, soll |-> {}, left |-> {}]

WebTypeOK ==
    /\ groups \in [Groups -> GroupNames \cup {"", "gone"}]
    /\ members \subseteq People \X Groups
    /\ app \in [there : BOOLEAN, groups : SUBSET Groups, all : BOOLEAN]
    /\ appClient \in [there : BOOLEAN, bound : BOOLEAN, checks : BOOLEAN, told : BOOLEAN,
                     mapped : SUBSET GroupNames]
    /\ central \subseteq People \X GroupNames
    /\ requests \in [Requests ->
           [kind : {"none", "create", "edit", "delete", "follow"},
            pc : {"idle", "client", "read", "map", "unmap", "bind", "save", "undo", "transfer"},
            app : [there : BOOLEAN, groups : SUBSET Groups, all : BOOLEAN],
            soll : SUBSET GroupNames, left : SUBSET People]]
    /\ slips \in 0 .. MaxSlips

WebInit ==
    /\ groups = [g \in Groups |-> ""] /\ members = {} /\ app = NoApp /\ appClient = NoClient
    /\ central = {} /\ requests = [r \in Requests |-> NoWork] /\ slips = 0

Present == {g \in Groups : groups[g] \in GroupNames}
NamesOf(G) == {groups[g] : g \in G \cap Present}
GroupsOf(u, m) == {g \in Present : <<u, g>> \in m}

Free(r) == requests[r].pc = "idle" /\ (Serial => \A q \in Requests : requests[q].pc = "idle")
Stands(r, pc) == requests[r].pc = pc
Moves(r, pc) == requests' = [requests EXCEPT ![r].pc = pc]
Done(r) == requests' = [requests EXCEPT ![r] = NoWork]
MayFail(kind) == kind \in Slipping /\ slips < MaxSlips
Slips(kind) == MayFail(kind) /\ slips' = slips + 1

----------------------------------------------------------------------------
(* The application: anlegen, aendern, entfernen. *)

Create(r, G, all) ==
    /\ Free(r) /\ ~app.there /\ ~appClient.there
    /\ appClient' = NewClient
    /\ \/ /\ requests' = [requests EXCEPT ![r] = [NoWork EXCEPT !.kind = "create", !.pc = "read",
                          !.app = [there |-> TRUE, groups |-> G, all |-> all]]]
          /\ UNCHANGED slips
       \/ Slips("lost") /\ UNCHANGED requests \* it is answered with an error, the client stays
    /\ UNCHANGED <<groups, members, app, central>>

Edit(r, G, all, moved) == \* with another redirect_uri the client is made anew
    /\ Free(r) /\ app.there
    /\ \/ /\ appClient' = IF moved THEN NewClient ELSE appClient
          /\ requests' = [requests EXCEPT ![r] = [NoWork EXCEPT !.kind = "edit", !.pc = "read",
                          !.app = [there |-> TRUE, groups |-> G, all |-> all]]]
          /\ UNCHANGED slips
       \/ /\ moved /\ Slips("edit") /\ UNCHANGED requests
          /\ appClient' \in {appClient, NoClient, NewClient}
    /\ UNCHANGED <<groups, members, app, central>>

NewSecret == \* neues_geheimnis
    /\ Serial => \A r \in Requests : Stands(r, "idle")
    /\ app.there /\ appClient.there
    /\ appClient' = [appClient EXCEPT !.told = TRUE]
    /\ UNCHANGED <<groups, members, app, central, requests, slips>>

Remove(r) == \* its flow goes first; an error of Keycloak does not keep the row
    /\ Free(r) /\ app.there
    /\ appClient' = [appClient EXCEPT !.bound = FALSE]
    /\ requests' = [requests EXCEPT ![r] = [NoWork EXCEPT !.kind = "delete", !.pc = "client"]]
    /\ UNCHANGED <<groups, members, app, central, slips>>
RemoveClient(r) ==
    /\ Stands(r, "client") /\ Done(r) /\ app' = NoApp
    /\ \/ appClient' = NoClient /\ UNCHANGED slips
       \/ Slips("delete") /\ UNCHANGED appClient
    /\ UNCHANGED <<groups, members, central>>

----------------------------------------------------------------------------
(* _zugang, keycloak.anwendung_zugang: in the order of its calls. *)

Wanted(r) == IF requests[r].app.all THEN {} ELSE NamesOf(requests[r].app.groups)

Mapped(c, names) == [c EXCEPT !.mapped = @ \cup names]
Unmapped(c, names) == [c EXCEPT !.mapped = @ \ names]
\* Its own flow, once built, is not looked into again; heard: nothing was refused.
Bound(c, all, heard) ==
    [c EXCEPT !.bound = c.there /\ IF all THEN @ /\ ~heard ELSE TRUE,
              !.checks = IF c.bound THEN @ ELSE heard]

Added(r) == requests[r].soll
TooMany(r) == appClient.mapped \ requests[r].soll
Heard(heard) == IF heard THEN UNCHANGED slips ELSE Slips("silent")

Access(r) ==
    /\ UNCHANGED <<groups, members, central>>
    /\ \/ /\ Stands(r, "read") /\ appClient.there
          /\ requests' = [requests EXCEPT ![r].pc = "map", ![r].soll = Wanted(r)]
          /\ UNCHANGED <<app, appClient, slips>>
       \/ Stands(r, "read") /\ ~appClient.there /\ Done(r) /\ UNCHANGED <<app, appClient, slips>>
       \/ /\ Stands(r, "map") /\ Moves(r, "unmap") /\ UNCHANGED app
          /\ \E names \in SUBSET Added(r) :
                Heard(names = Added(r)) /\ appClient' = Mapped(appClient, names)
       \/ /\ Stands(r, "unmap") /\ Moves(r, "bind") /\ UNCHANGED app
          /\ \E names \in SUBSET TooMany(r) :
                Heard(names = TooMany(r)) /\ appClient' = Unmapped(appClient, names)
       \/ /\ Stands(r, "bind") /\ UNCHANGED app
          /\ \E heard \in BOOLEAN :
                Heard(heard) /\ appClient' = Bound(appClient, requests[r].app.all, heard)
          /\ IF requests[r].kind = "follow" THEN Done(r) ELSE Moves(r, "save")
       \/ /\ Stands(r, "save") /\ Done(r) /\ UNCHANGED slips
          /\ app' = [requests[r].app EXCEPT !.groups = @ \cap Present]
          /\ appClient' = [appClient EXCEPT !.told = @ \/ requests[r].kind = "create"]

\* A failure that is noticed, after some of the step's calls.  The row of a new application is
\* not written, and its client is taken away again, unless the error is none of Keycloak's.
AccessFails(r) ==
    /\ requests[r].pc \in {"read", "map", "unmap", "bind"}
    /\ \/ UNCHANGED appClient
       \/ /\ Stands(r, "map")
          /\ \E names \in SUBSET Added(r) : appClient' = Mapped(appClient, names)
       \/ /\ Stands(r, "unmap")
          /\ \E names \in SUBSET TooMany(r) : appClient' = Unmapped(appClient, names)
       \/ Stands(r, "bind") /\ appClient' = Bound(appClient, requests[r].app.all, TRUE)
    /\ \/ /\ Slips(requests[r].kind)
          /\ IF requests[r].kind = "create" THEN Moves(r, "undo") ELSE Done(r)
       \/ requests[r].kind = "create" /\ Slips("lost") /\ Done(r)
    /\ UNCHANGED <<groups, members, app, central>>
Undo(r) ==
    /\ Stands(r, "undo") /\ Done(r)
    /\ \/ appClient' = NoClient /\ UNCHANGED slips
       \/ Slips("undo") /\ UNCHANGED appClient
    /\ UNCHANGED <<groups, members, app, central>>

----------------------------------------------------------------------------
(* Groups and their members. *)

NameKnown(n) == \E u \in People : <<u, n>> \in central
NewName(n) == n \notin {groups[g] : g \in Groups} /\ (FreshNames => ~NameKnown(n))

CreateGroup(g, n) ==
    /\ groups[g] = "" /\ NewName(n)
    /\ Serial => \A r \in Requests : Stands(r, "idle")
    /\ groups' = [groups EXCEPT ![g] = n]
    /\ UNCHANGED <<members, app, appClient, central, requests, slips>>

\* zugang_alle: the row as it is read now
FollowUp == [NoWork EXCEPT !.kind = "follow", !.app = app']
ThenAll(r, left) ==
    requests' = [requests EXCEPT ![r] =
        IF ~app'.there THEN [NoWork EXCEPT !.pc = IF left = {} THEN "idle" ELSE "transfer",
                                           !.left = left]
        ELSE [FollowUp EXCEPT !.pc = IF left = {} THEN "read" ELSE "transfer", !.left = left]]

DeleteGroup(r, g) == \* nobody is taken out of /ota/<name>
    /\ Free(r) /\ g \in Present
    /\ groups' = [groups EXCEPT ![g] = "gone"]
    /\ members' = {m \in members : m[2] # g}
    /\ app' = [app EXCEPT !.groups = @ \ {g}]
    /\ ThenAll(r, {})
    /\ UNCHANGED <<appClient, central, slips>>

MovingRows(g) == {m \in members : m[2] = g}
Moving(g) == {u \in People : <<u, g>> \in members}
Rename(r, g, n) ==
    /\ Free(r) /\ g \in Present /\ NewName(n)
    /\ groups' = [groups EXCEPT ![g] = n]
    /\ UNCHANGED <<members, app, appClient, central, slips>>
    /\ ThenAll(r, Moving(g))

\* nach_keycloak: an account's groups, as OTA has them
CarriesMore(u, m) == central \cup {<<u, groups[g]>> : g \in GroupsOf(u, m)}
Carries(u, m) == {c \in central : c[1] # u} \cup {<<u, groups[g]>> : g \in GroupsOf(u, m)}
Transfer(r, u) ==
    /\ Stands(r, "transfer") /\ u \in requests[r].left
    /\ \/ central' = Carries(u, members) /\ UNCHANGED slips
       \/ Slips("transfer") /\ UNCHANGED central
    /\ LET left == requests[r].left \ {u}
       IN  requests' = [requests EXCEPT ![r] =
               IF left # {} THEN [@ EXCEPT !.left = left]
               ELSE IF @.kind = "follow" THEN [@ EXCEPT !.pc = "read", !.left = {}] ELSE NoWork]
    /\ UNCHANGED <<groups, members, app, appClient>>

Member(u, G) == \* update_user
    /\ Serial => \A r \in Requests : Stands(r, "idle")
    /\ G \subseteq Present
    /\ members' = {m \in members : m[1] # u} \cup ({u} \X G)
    /\ \/ central' = Carries(u, members') /\ UNCHANGED slips
       \/ Slips("transfer") /\ UNCHANGED central
    /\ UNCHANGED <<groups, app, appClient, requests>>

\* The API starts: zugang_alle for what there is.
Restart(r) ==
    /\ Free(r) /\ app.there /\ app' = app
    /\ ThenAll(r, {})
    /\ UNCHANGED <<groups, members, appClient, central, slips>>

WebNext ==
    \/ \E r \in Requests :
          \/ \E G \in SUBSET Present, all \in BOOLEAN :
                \/ Create(r, G, all)
                \/ \E moved \in BOOLEAN : Edit(r, G, all, moved)
          \/ Remove(r) \/ RemoveClient(r) \/ Access(r) \/ AccessFails(r) \/ Undo(r)
          \/ \E g \in Groups : DeleteGroup(r, g)
          \/ \E g \in Groups, n \in GroupNames : Rename(r, g, n)
          \/ \E u \in People : Transfer(r, u)
          \/ Restart(r)
    \/ NewSecret
    \/ \E g \in Groups, n \in GroupNames : CreateGroup(g, n)
    \/ \E u \in People, G \in SUBSET Groups : Member(u, G)

WebSpec == WebInit /\ [][WebNext]_webVars

----------------------------------------------------------------------------
LetIn ==
    IF ~appClient.there THEN {}
    ELSE IF ~appClient.bound \/ ~appClient.checks THEN People
    ELSE {u \in People : \E n \in appClient.mapped : <<u, n>> \in central}
MayEnter ==
    IF ~app.there THEN {}
    ELSE IF app.all THEN People
    ELSE {u \in People : \E g \in app.groups : <<u, g>> \in members}
Quiet == \A r \in Requests : requests[r].pc = "idle"

\* Keycloak lets in whom the application's groups say, nobody else: whatever was changed,
\* renamed or deleted in between (_zugang, zugang_alle, nach_keycloak).  A client that a failed
\* creation left behind without a row may be open, but nobody was given its secret (anlegen).
LetsInMembers ==
    Quiet => IF app.there THEN LetIn = MayEnter ELSE ~appClient.there \/ ~appClient.told
=============================================================================
