---------------------------------- MODULE Git ----------------------------------
(***************************************************************************)
(* OTA-Git (git.py, git_dienst.py): a Forgejo that OTA switches on and     *)
(* off, the accounts OTA keeps there, and one token per workspace.  Every  *)
(* call to Forgejo takes effect at once, the rows of OTA when the          *)
(* transaction around it commits.  An account of Forgejo's is known by the *)
(* user it was made for; the name it has there may change.                 *)
(***************************************************************************)
EXTENDS Integers, FiniteSets

CONSTANTS
    Users, NoUser,
    Names, NoName,
    Aside(_),    \* the name an account gets that is in the way, one per name and day
    Places,      \* workspaces (rows of sessions) with Git set up in them
    Owner(_),
    Workers,     \* "takt", and requests of the administration
    Calm,        \* names are not handed on, and a sign-in that brings a new one meets no round
    Turns,       \* one worker at a time, and no workspace is started again during a sweep
    MaxTokens, MaxSecrets, MaxUpdates, MaxOffs, MaxFaults, MaxCrashes

GitAssumption ==
    /\ NoUser \notin Users /\ NoName \notin Names /\ "takt" \in Workers
    /\ Calm \in BOOLEAN /\ Turns \in BOOLEAN
    /\ \A p \in Places : Owner(p) \in Users
    /\ \A n \in Names : Aside(n) \notin Names \cup {NoName}
    /\ {"nobody", "sign-in"} \cap Places = {}
    /\ {MaxTokens, MaxSecrets, MaxUpdates, MaxOffs, MaxFaults, MaxCrashes} \subseteq Nat

AllNames == Names \cup {Aside(n) : n \in Names}

VARIABLES
    on,          \* settings: git.an
    client,      \* secret of the client ota-git in Keycloak, 0: there is none
    source,      \* secret Forgejo has stored, and the one its running server has read
    container,   \* of Forgejo, and whether it was made from an older image
    way,         \* Traefik stands in the network over which Forgejo reaches Keycloak
    user, konto, \* tables users and git_konten
    pending,     \* what a transaction on an account has written and not committed, and which
    accounts,    \* Forgejo: for whom the account of that name was made
    prohibited,  \* Forgejo: whose accounts are locked
    place, row,  \* tables sessions and git_tokens
    flushed,     \* the token of a start that is not committed yet
    valid,       \* tokens Forgejo accepts
    desk,        \* the token in the container of the workspace
    work,        \* a worker: where it is, its secret, what it has read and not committed
    count        \* what the bounds count

forgejoVars == <<accounts, prohibited, valid>>
serviceVars == <<client, source, container, way>>
placeVars == <<place, row, flushed, desk>>
peopleVars == <<user, konto, pending>>
gitVars == <<on, serviceVars, peopleVars, forgejoVars, placeVars, work, count>>

NoToken == [id |-> 0, name |-> NoName]
NoKonto == [name |-> NoName, locked |-> FALSE]
NoPending == [by |-> "nobody", name |-> NoName, konto |-> NoKonto]
Idle == [pc |-> "idle", secret |-> 0, seen |-> <<>>, left |-> {}, drop |-> {}, konto |-> <<>>]
Tokens == [id : 0 .. MaxTokens, name : AllNames \cup {NoName}]

GitTypeOK ==
    /\ on \in BOOLEAN /\ way \in BOOLEAN
    /\ client \in 0 .. MaxSecrets /\ source \in [stored : 0 .. MaxSecrets, read : 0 .. MaxSecrets]
    /\ container \in [state : {"none", "running", "exited"}, old : BOOLEAN]
    /\ user \in [Users -> [there : BOOLEAN, may : BOOLEAN, name : Names \cup {NoName}]]
    /\ konto \in [Users -> [name : Names \cup {NoName}, locked : BOOLEAN]]
    /\ pending \in [Users -> [by : {"nobody", "sign-in"} \cup Places, name : Names \cup {NoName},
                              konto : [name : Names \cup {NoName}, locked : BOOLEAN]]]
    /\ accounts \in [AllNames -> Users \cup {NoUser}] /\ prohibited \subseteq Users
    /\ place \in [Places -> {"none", "starting", "asked", "live", "ended"}]
    /\ row \in [Places -> Tokens] /\ flushed \in [Places -> Tokens]
    /\ valid \subseteq [id : 1 .. MaxTokens, of : Users, place : Places]
    /\ desk \in [Places -> 0 .. MaxTokens]
    /\ \A x \in Workers :
         /\ work[x].pc \in {"idle", "container", "source", "commit", "read", "sweep", "users", "accounts"}
         /\ work[x].secret \in 0 .. MaxSecrets /\ DOMAIN work[x].konto \subseteq Users
         /\ work[x].left \subseteq Users \cup Places /\ work[x].drop \subseteq Places

GitInit ==
    /\ on = FALSE /\ way = FALSE /\ client = 0 /\ source = [stored |-> 0, read |-> 0]
    /\ container = [state |-> "none", old |-> FALSE]
    /\ \E name \in [Users -> Names] :
         /\ \A u, v \in Users : u # v => name[u] # name[v]
         /\ user = [u \in Users |-> [there |-> TRUE, may |-> TRUE, name |-> name[u]]]
    /\ konto = [u \in Users |-> NoKonto] /\ pending = [u \in Users |-> NoPending]
    /\ accounts = [n \in AllNames |-> NoUser] /\ prohibited = {} /\ valid = {}
    /\ place = [p \in Places |-> "none"] /\ desk = [p \in Places |-> 0]
    /\ row = [p \in Places |-> NoToken] /\ flushed = [p \in Places |-> NoToken]
    /\ work = [x \in Workers |-> Idle]
    /\ count = [tokens |-> 0, secrets |-> 0, updates |-> 0, offs |-> 0, faults |-> 0, crashes |-> 0]

Up == container.state = "running"
Tallied(what) == count' = [count EXCEPT ![what] = @ + 1]
Fault == count.faults < MaxFaults /\ Tallied("faults")
MayWork(x) == work[x].pc = "idle" /\ (Turns => \A y \in Workers : work[y].pc = "idle")
Works(x, job) == work' = [work EXCEPT ![x] = job]
Goes(x, pc) == Works(x, [work[x] EXCEPT !.pc = pc])
GivesUp(x) == Works(x, Idle)

\* -- one account: konto_sorgen.  It ends in a state of the accounts, with a row for its user.
Holds(x, u) == u \in DOMAIN work[x].konto
InHand(u) == pending[u] # NoPending \/ \E x \in Workers : Holds(x, u)
State(made, shut, k, ok) == [accounts |-> made, prohibited |-> shut, konto |-> k, ok |-> ok]
AsBefore(k, ok) == State(accounts, prohibited, k, ok)

\* _umbenennen
RenamedAnyway(from, to) == \* leaves it at that when the name is taken
    IF accounts[from] # NoUser /\ accounts[to] = NoUser
    THEN State([accounts EXCEPT ![from] = NoUser, ![to] = accounts[from]], prohibited, NoKonto, TRUE)
    ELSE AsBefore(NoKonto, accounts[from] # NoUser)
PutAside(to) == [accounts EXCEPT ![to] = NoUser, ![Aside(to)] = accounts[to]]
Renamed(from, to) ==
    LET shut == prohibited \cup {accounts[to]}
    IN  IF accounts[from] = NoUser THEN AsBefore(NoKonto, FALSE)
        ELSE IF accounts[to] = NoUser
        THEN State([accounts EXCEPT ![from] = NoUser, ![to] = accounts[from]], prohibited, NoKonto, TRUE)
        ELSE IF accounts[Aside(to)] # NoUser THEN State(accounts, shut, NoKonto, FALSE)
        ELSE State([PutAside(to) EXCEPT ![from] = NoUser, ![to] = accounts[from]], shut, NoKonto, TRUE)

\* The account has its name, and the row: made, or renamed, or as it was.
Brought(u, as, k) ==
    IF k.name = NoName
    THEN State([accounts EXCEPT ![as.name] = IF @ = NoUser THEN u ELSE @], prohibited,
               [name |-> as.name, locked |-> FALSE], TRUE)
    ELSE IF k.name = as.name THEN AsBefore(k, TRUE)
    ELSE LET done == Renamed(k.name, as.name)
         IN  [done EXCEPT !.konto = IF done.ok THEN [k EXCEPT !.name = as.name] ELSE k]

\* The last call: who may not is locked, whoever bears the name.
PutRight(made, as) ==
    LET whose == {made.accounts[as.name]} \ {NoUser}
    IN  [made EXCEPT !.prohibited = IF as.may THEN @ \ whose ELSE @ \cup whose]

Cared(u, as, k) ==
    LET made == Brought(u, as, k)
    IN  IF k.name = NoName /\ ~as.may THEN AsBefore(k, TRUE)
        ELSE IF ~made.ok \/ made.accounts[as.name] = NoUser THEN [made EXCEPT !.ok = FALSE]
        ELSE [PutRight(made, as) EXCEPT !.konto = [name |-> as.name, locked |-> ~as.may]]

\* Where it stops when a call fails: the calls before it are done, and perhaps that one as well.
Renaming(from, to) ==
    IF accounts[from] = NoUser \/ accounts[to] = NoUser THEN {}
    ELSE {State(accounts, prohibited \cup {accounts[to]}, NoKonto, FALSE)}
         \cup (IF accounts[Aside(to)] # NoUser THEN {}
               ELSE {State(PutAside(to), prohibited \cup {accounts[to]}, NoKonto, FALSE)})
Broken(u, as, k) ==
    LET made == [Brought(u, as, k) EXCEPT !.ok = FALSE]
    IN  IF k.name = NoName /\ ~as.may THEN {}
        ELSE {AsBefore(k, FALSE), [made EXCEPT !.konto = k]}
             \cup (IF Brought(u, as, k).ok THEN {made, PutRight(made, as)} ELSE {})
             \cup (IF k.name \in {NoName, as.name} THEN {}
                   ELSE {[stop EXCEPT !.konto = k] : stop \in Renaming(k.name, as.name)})

\* Forgejo answers, or it does not.
Cares(u, as, k, to) ==
    /\ \/ Up /\ to = Cared(u, as, k) /\ UNCHANGED count
       \/ ~Up /\ to = AsBefore(k, FALSE) /\ UNCHANGED count
       \/ Up /\ Fault /\ to \in Broken(u, as, k)
    /\ accounts' = to.accounts /\ prohibited' = to.prohibited
Outcomes(u, as, k) == {Cared(u, as, k), AsBefore(k, FALSE)} \cup Broken(u, as, k)

\* -- one token: widerrufen.  No such account and no such token is as good as revoked.
Reached(t) == {v \in valid : v.id = t.id /\ t.name \in AllNames /\ accounts[t.name] = v.of}
RevokedOrNot(t, gone) == \* takes the row away, whatever Forgejo says
    \/ t = NoToken /\ gone = FALSE /\ UNCHANGED <<valid, count>>
    \/ t # NoToken /\ Up /\ gone = TRUE /\ valid' = valid \ Reached(t) /\ UNCHANGED count
    \/ t # NoToken /\ ~Up /\ gone = TRUE /\ UNCHANGED <<valid, count>>
    \/ t # NoToken /\ Up /\ Fault /\ gone = TRUE /\ UNCHANGED valid
Revoked(t, gone) ==
    \/ t = NoToken /\ gone = FALSE /\ UNCHANGED <<valid, count>>
    \/ t # NoToken /\ Up /\ gone = TRUE /\ valid' = valid \ Reached(t) /\ UNCHANGED count
    \/ t # NoToken /\ ~Up /\ gone = FALSE /\ UNCHANGED <<valid, count>>
    \/ t # NoToken /\ Up /\ Fault /\ gone = FALSE /\ UNCHANGED valid

\* -- switching on: einschalten, by the administration or because the image is old
SwitchBegins(x) == \* _katalog: a new client, whatever there was
    /\ MayWork(x) /\ count.secrets < MaxSecrets
    /\ x = "takt" => on /\ container.old
    /\ client' = count.secrets + 1 /\ Tallied("secrets")
    /\ Works(x, [work[x] EXCEPT !.pc = "container", !.secret = count.secrets + 1])
    /\ UNCHANGED <<on, source, container, way, peopleVars, forgejoVars, placeVars>>

AfterFailure(x) == IF x = "takt" THEN Goes(x, "read") ELSE GivesUp(x)
SwitchContainer(x) == \* git_an: the way to Keycloak, the files, the container
    /\ work[x].pc = "container"
    /\ \/ /\ container' = [state |-> "running", old |-> FALSE]
          /\ way' = TRUE
          /\ source' = [source EXCEPT !.read = source.stored]
          /\ Goes(x, "source") /\ UNCHANGED count
       \/ /\ Fault /\ AfterFailure(x) /\ UNCHANGED source
          /\ way' \in {way, TRUE}
          /\ container' \in {container, [state |-> "none", old |-> FALSE]}
    /\ UNCHANGED <<on, client, peopleVars, forgejoVars, placeVars>>

ConfiguredOnly(x) == [stored |-> work[x].secret,
                      read |-> IF source.stored = 0 THEN work[x].secret ELSE source.read]
Configured(x) == [stored |-> work[x].secret, read |-> work[x].secret]
SwitchSource(x) == \* git_einrichten: the source of the sign-in, and Forgejo starts again
    /\ work[x].pc = "source"
    /\ \/ Up /\ source' = Configured(x) /\ Goes(x, "commit") /\ UNCHANGED count
       \/ Fault /\ AfterFailure(x) /\ source' \in {source, [source EXCEPT !.stored = work[x].secret]}
       \/ ~Up /\ AfterFailure(x) /\ UNCHANGED <<source, count>>
    /\ UNCHANGED <<on, client, container, way, peopleVars, forgejoVars, placeVars>>

SwitchCommits(x) ==
    /\ work[x].pc = "commit"
    /\ on' = TRUE
    /\ Goes(x, IF x = "takt" THEN "read" ELSE "users")
    /\ UNCHANGED <<serviceVars, peopleVars, forgejoVars, placeVars, count>>

SwitchOff == \* ausschalten; the agent and Keycloak may fail, the rest is done all the same
    /\ on /\ count.offs < MaxOffs /\ Tallied("offs")
    /\ \A x \in Workers : Turns => work[x].pc = "idle"
    /\ on' = FALSE /\ client' = 0
    /\ container' = [container EXCEPT !.state = IF @ = "running" THEN "exited" ELSE @]
    /\ row' = [p \in Places |-> NoToken]
    /\ UNCHANGED <<source, way, peopleVars, forgejoVars, place, flushed, desk, work>>

Update == \* make update: Traefik is new, the container of Forgejo is not
    /\ count.updates < MaxUpdates /\ Tallied("updates")
    /\ way' = FALSE
    /\ container' = [container EXCEPT !.old = @ \/ container.state # "none"]
    /\ UNCHANGED <<on, client, source, peopleVars, forgejoVars, placeVars, work>>

\* -- every quarter of an hour: _git_takt
TaktBegins == \* git_status: the agent puts the way right
    /\ on /\ MayWork("takt") /\ (container.old => count.secrets = MaxSecrets)
    /\ way' = (way \/ Up)
    /\ Goes("takt", "read")
    /\ UNCHANGED <<on, client, source, container, peopleVars, forgejoVars, placeVars, count>>

\* tokens_aufraeumen
Live(p) == place[p] \in {"starting", "asked", "live"}
SweepReads ==
    /\ work["takt"].pc = "read"
    /\ Works("takt", [work["takt"] EXCEPT !.pc = "sweep", !.drop = {}, !.seen = row,
                          !.left = {p \in Places : row[p] # NoToken /\ ~Live(p)}])
    /\ UNCHANGED <<on, serviceVars, peopleVars, forgejoVars, placeVars, count>>

SweepRevokes(p) ==
    /\ work["takt"].pc = "sweep" /\ p \in work["takt"].left
    /\ \E gone \in BOOLEAN :
         /\ Revoked(work["takt"].seen[p], gone)
         /\ Works("takt", [work["takt"] EXCEPT !.left = @ \ {p},
                                               !.drop = IF gone THEN @ \cup {p} ELSE @])
    /\ UNCHANGED <<on, serviceVars, peopleVars, accounts, prohibited, placeVars>>

SweepCommits == \* the rows are deleted by their key, whatever stands in them now
    /\ work["takt"].pc = "sweep" /\ work["takt"].left = {}
    /\ row' = [p \in Places |-> IF p \in work["takt"].drop THEN NoToken ELSE row[p]]
    /\ Works("takt", [Idle EXCEPT !.pc = "users"])
    /\ UNCHANGED <<on, serviceVars, peopleVars, forgejoVars, place, flushed, desk, count>>

\* konten_abgleichen, also on its own by a request
RunBegins(x) ==
    /\ x # "takt" /\ on /\ MayWork(x)
    /\ Goes(x, "users")
    /\ UNCHANGED <<on, serviceVars, peopleVars, forgejoVars, placeVars, count>>

RunReads(x) ==
    /\ work[x].pc = "users"
    /\ Works(x, [work[x] EXCEPT !.pc = "accounts", !.seen = user, !.secret = 0,
                                !.left = {u \in Users : on /\ user[u].there}])
    /\ UNCHANGED <<on, serviceVars, peopleVars, forgejoVars, placeVars, count>>

RunCares(x, u) == \* what a call that failed leaves of the row is committed all the same
    /\ work[x].pc = "accounts" /\ u \in work[x].left /\ ~InHand(u)
    /\ \E to \in Outcomes(u, work[x].seen[u], konto[u]) :
         /\ Cares(u, work[x].seen[u], konto[u], to)
         /\ Works(x, [work[x] EXCEPT !.left = @ \ {u},
               !.konto = [v \in DOMAIN @ \cup (IF to.konto = konto[u] THEN {} ELSE {u}) |->
                             IF v = u THEN to.konto ELSE work[x].konto[v]]])
    /\ UNCHANGED <<on, serviceVars, peopleVars, valid, placeVars>>

KontoOf(x, u) == IF Holds(x, u) THEN work[x].konto[u] ELSE konto[u]
RunCommits(x) ==
    /\ work[x].pc = "accounts" /\ work[x].left = {}
    /\ konto' = [u \in Users |-> IF user[u].there THEN KontoOf(x, u) ELSE NoKonto]
    /\ GivesUp(x)
    /\ UNCHANGED <<on, serviceVars, user, pending, forgejoVars, placeVars, count>>

\* -- people: a sign-in over Keycloak, the administration
FreeName(u, n) ==
    /\ \A v \in Users \ {u} : user[v].there => n \notin {user[v].name, pending[v].name}
    /\ Calm => /\ \A v \in Users \ {u} : user[v].there => n \notin {konto[v].name, pending[v].konto.name}
               /\ \/ accounts[n] \in {NoUser, u}
                  \/ konto[u].name # NoName /\ accounts[n] \in {v \in Users : ~user[v].there}
               /\ \A x \in Workers : work[x].pc \notin {"users", "accounts"}

Flushes(who, u, name, k) ==
    pending' = IF name = user[u].name /\ k = konto[u] THEN pending
               ELSE [pending EXCEPT ![u] = [by |-> who, name |-> name, konto |-> k]]
SignIn(u, n) == \* the directory may have given the account another name; bei_anmeldung
    /\ user[u].there /\ user[u].may /\ ~InHand(u)
    /\ n # user[u].name => FreeName(u, n)
    /\ IF on THEN \E to \in Outcomes(u, [user[u] EXCEPT !.name = n], konto[u]) :
                     /\ Cares(u, [user[u] EXCEPT !.name = n], konto[u], to)
                     /\ Flushes("sign-in", u, n, to.konto)
       ELSE Flushes("sign-in", u, n, konto[u]) /\ UNCHANGED <<accounts, prohibited, count>>
    /\ UNCHANGED <<on, serviceVars, user, konto, valid, placeVars, work>>

Committed(u) == \* the transaction commits
    /\ user' = [user EXCEPT ![u].name = pending[u].name]
    /\ konto' = [konto EXCEPT ![u] = pending[u].konto]
    /\ pending' = [pending EXCEPT ![u] = NoPending]
SignInCommits(u) ==
    /\ pending[u].by = "sign-in" /\ Committed(u)
    /\ UNCHANGED <<on, serviceVars, forgejoVars, placeVars, work, count>>

Entitled(u, may) == \* groups, rights and locks of an account; nach_aenderung keeps no row of a call that failed
    /\ user[u].there /\ user[u].may # may
    /\ user' = [user EXCEPT ![u].may = may]
    /\ IF on THEN /\ ~InHand(u)
                  /\ \E to \in Outcomes(u, user'[u], konto[u]) :
                       /\ Cares(u, user'[u], konto[u], to)
                       /\ konto' = IF to.ok THEN [konto EXCEPT ![u] = to.konto] ELSE konto
       ELSE UNCHANGED <<konto, accounts, prohibited, count>>
    /\ UNCHANGED <<on, serviceVars, pending, valid, placeVars, work>>

FirstSignIn(u) == \* Forgejo makes an account of its own for whom Keycloak lets in
    /\ on /\ Up /\ user[u].there /\ user[u].may /\ accounts[user[u].name] = NoUser
    /\ konto[u].name = NoName
    /\ accounts' = [accounts EXCEPT ![user[u].name] = u]
    /\ UNCHANGED <<on, serviceVars, peopleVars, prohibited, valid, placeVars, work, count>>

Deleted(u) == \* vor_dem_loeschen, and the rows that go with the account
    LET name == konto[u].name
        known == on /\ Up /\ name # NoName
    IN  /\ user[u].there /\ \A x \in Workers : work[x].pc = "idle"
        /\ pending[u] = NoPending /\ \A p \in Places : Owner(p) = u => flushed[p] = NoToken
        /\ user' = [user EXCEPT ![u].there = FALSE]
        /\ konto' = [konto EXCEPT ![u] = NoKonto]
        /\ prohibited' = IF known /\ accounts[name] # NoUser THEN prohibited \cup {accounts[name]}
                         ELSE prohibited
        /\ LET gone == {p \in Places : known /\ row[p].name = name}
           IN  /\ row' = [p \in Places |-> IF p \in gone THEN NoToken ELSE row[p]]
               /\ valid' = valid \ UNION {Reached(row[p]) : p \in gone}
        /\ place' = [p \in Places |-> IF Owner(p) = u THEN "ended" ELSE place[p]]
        /\ UNCHANGED <<on, serviceVars, pending, accounts, flushed, desk, work, count>>

\* -- workspaces
StartBegins(p) == \* the row is committed before anything else happens
    /\ place[p] \in {"none", "ended"} /\ user[Owner(p)].there
    /\ Turns => work["takt"].pc # "sweep"
    /\ place' = [place EXCEPT ![p] = "starting"]
    /\ UNCHANGED <<on, serviceVars, peopleVars, forgejoVars, row, flushed, desk, work, count>>

AsksForGit(p) == \* fuer_sitzung: the account, the old token, the new one
    /\ place[p] = "starting" /\ on /\ user[Owner(p)].there /\ user[Owner(p)].may /\ ~InHand(Owner(p))
    /\ place' = [place EXCEPT ![p] = "asked"]
StartIssues(p) ==
    LET u == Owner(p)
        now == Cared(u, user[u], konto[u])
    IN  /\ AsksForGit(p) /\ Up /\ now.ok /\ count.tokens < MaxTokens
        /\ accounts' = now.accounts /\ prohibited' = now.prohibited
        /\ Flushes(p, u, user[u].name, now.konto)
        /\ valid' = (valid \ Reached(row[p]))
                \cup {[id |-> count.tokens + 1, of |-> accounts'[user[u].name], place |-> p]}
        /\ flushed' = [flushed EXCEPT ![p] = [id |-> count.tokens + 1, name |-> user[u].name]]
        /\ Tallied("tokens")
        /\ UNCHANGED <<on, serviceVars, user, konto, row, desk, work>>
StartSkips(p) == \* the account is not to be had: the workspace starts without Git
    LET u == Owner(p)
    IN  /\ AsksForGit(p)
        /\ \E to \in Outcomes(u, user[u], konto[u]) :
             ~to.ok /\ Cares(u, user[u], konto[u], to) /\ Flushes(p, u, user[u].name, to.konto)
        /\ UNCHANGED <<on, serviceVars, user, konto, valid, row, flushed, desk, work>>

StartEnds(p, well) == \* both outcomes commit what is flushed
    /\ place[p] \in {"starting", "asked"}
    /\ place' = [place EXCEPT ![p] = IF well THEN "live" ELSE "ended"]
    /\ row' = [row EXCEPT ![p] = IF flushed[p] = NoToken THEN @ ELSE flushed[p]]
    /\ desk' = [desk EXCEPT ![p] = IF well THEN flushed[p].id ELSE @]
    /\ flushed' = [flushed EXCEPT ![p] = NoToken]
    /\ IF pending[Owner(p)].by = p THEN Committed(Owner(p)) ELSE UNCHANGED peopleVars
    /\ UNCHANGED <<on, serviceVars, forgejoVars, work, count>>

Closes(p) == \* delete_session, platz_anhalten, platz_ohne_lauf
    /\ place[p] = "live"
    /\ place' = [place EXCEPT ![p] = "ended"]
    /\ \E gone \in BOOLEAN :
         /\ Revoked(row[p], gone)
         /\ row' = [row EXCEPT ![p] = IF gone THEN NoToken ELSE @]
    /\ UNCHANGED <<on, serviceVars, peopleVars, accounts, prohibited, flushed, desk, work>>

ClosesQuietly(p) == \* the reaper closes the row and leaves the token to the next round
    /\ place[p] = "live"
    /\ place' = [place EXCEPT ![p] = "ended"]
    /\ UNCHANGED <<on, serviceVars, peopleVars, forgejoVars, row, flushed, desk, work, count>>

Crash == \* of the API: what is not committed is lost, what Forgejo did is done
    /\ count.crashes < MaxCrashes /\ Tallied("crashes")
    /\ work' = [x \in Workers |-> Idle]
    /\ flushed' = [p \in Places |-> NoToken] /\ pending' = [u \in Users |-> NoPending]
    /\ UNCHANGED <<on, serviceVars, user, konto, forgejoVars, place, row, desk>>

Sweeping == SweepReads \/ SweepCommits \/ \E p \in Places : SweepRevokes(p)
Switched(x) == SwitchContainer(x) \/ SwitchSource(x) \/ SwitchCommits(x)
Run(x) == RunReads(x) \/ RunCommits(x) \/ \E u \in Users : RunCares(x, u)

GitNext ==
    \/ TaktBegins \/ Sweeping \/ SwitchOff \/ Update \/ Crash
    \/ \E x \in Workers : SwitchBegins(x) \/ Switched(x) \/ RunBegins(x) \/ Run(x)
    \/ \E u \in Users : FirstSignIn(u) \/ Deleted(u) \/ SignInCommits(u) \/ \E may \in BOOLEAN : Entitled(u, may)
    \/ \E u \in Users, n \in Names : SignIn(u, n)
    \/ \E p \in Places :
         \/ StartBegins(p) \/ StartIssues(p) \/ StartSkips(p) \/ Closes(p) \/ ClosesQuietly(p)
         \/ \E well \in BOOLEAN : StartEnds(p, well)

\* The clock of the API comes round again, and what began ends.
GitFairness ==
    /\ SF_gitVars(TaktBegins) /\ SF_gitVars(SwitchBegins("takt"))
    /\ WF_gitVars(Sweeping) /\ \A x \in Workers : WF_gitVars(Switched(x) \/ Run(x))
    /\ \A u \in Users : WF_gitVars(SignInCommits(u))
    /\ \A p \in Places : WF_gitVars(\E well \in BOOLEAN : StartEnds(p, well))

GitSpec == GitInit /\ [][GitNext]_gitVars
FairGitSpec == GitSpec /\ GitFairness

\* A user of OTA gets at his own repositories and at nobody else's: his row names the account
\* that was made for him (models.py, GitKonto: by id, not by name).  When a call fails or the API
\* stops, a rename may be half done: the row then names no account, but never another's.
OwnRepositories ==
    \A u \in Users : user[u].there /\ konto[u].name # NoName =>
        /\ accounts[konto[u].name] \in {NoUser, u}
        /\ count.faults = 0 /\ count.crashes = 0 /\ ~InHand(u) => accounts[konto[u].name] = u

\* What someone may use no longer is withdrawn: the token of a workspace that has ended is
\* revoked, and the account of who may not is locked (git.py, _git_takt).
WithdrawnAtLast ==
    /\ \A p \in Places : <>[](on /\ place[p] = "ended") => <>[](\A v \in valid : v.place # p)
    /\ \A u \in Users :
         <>[](on /\ konto[u].name # NoName /\ ~user[u].may) => <>[](u \in prohibited)

\* Once Git is on and nothing fails any more, Forgejo signs in at Keycloak: it knows the secret
\* and has a way there, also after an update (einschalten, anmeldeweg).
SignInComesBack == <>[]on => <>[](way /\ Up /\ source.read = client)
=============================================================================
