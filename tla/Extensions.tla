------------------------------ MODULE Extensions ------------------------------
(***************************************************************************)
(* One extension (erweiterungen.py): a service of its own that OTA tells   *)
(* which workspaces run, who may use it and whose data it must delete.     *)
(* What it knows changes with the call, the rows of OTA when the           *)
(* transaction commits.  Calls are repeated every quarter of an hour.      *)
(***************************************************************************)
EXTENDS Integers, FiniteSets

CONSTANTS
    Users, Places, Owner(_),
    Workers,     \* "takt", and requests of the administration
    Calm,        \* no workspace starts while the round looks for tokens to revoke
    MaxTokens, MaxSecrets, MaxFaults

ExtensionsAssumption ==
    /\ Calm \in BOOLEAN /\ {MaxTokens, MaxSecrets, MaxFaults} \subseteq Nat
    /\ \A p \in Places : Owner(p) \in Users
    /\ "takt" \in Workers

VARIABLES
    coupled,   \* table erweiterungen: the row, switched on, its secret
    user,      \* table users, and whether groups and locks allow the extension
    status,    \* table sessions
    booked,    \* table erweiterung_tokens
    fresh,     \* a start that is not committed yet: its token, and if it adds the row
    orders,    \* table erweiterung_auftraege
    routes,    \* Traefik's file: the extension is open
    secret,    \* the extension: the secret it accepts,
    accepted,  \*   the token it accepts for a workspace, 0: none,
    locked,    \*   who is locked
    kept,      \*   of whom it has data
    inside,    \* the token in the container of a workspace
    task,      \* a worker: where it is, what it has read
    tally

extVars == <<coupled, user, status, booked, fresh, orders, routes, secret, accepted, locked,
             kept, inside, task, tally>>

Idle == [pc |-> "idle", live |-> {}, todo |-> {}, drop |-> {}, may |-> {}, open |-> FALSE]
Nothing == [token |-> 0, adds |-> FALSE]
Steps == {"idle", "rows", "ask", "delete", "orders", "read", "tell", "push", "write"}

ExtTypeOK ==
    /\ coupled \in [there : BOOLEAN, on : BOOLEAN, secret : 0 .. MaxSecrets]
    /\ user \in [Users -> [there : BOOLEAN, may : BOOLEAN]]
    /\ status \in [Places -> {"none", "starting", "live", "ended"}]
    /\ booked \subseteq Places /\ fresh \in [Places -> [token : 0 .. MaxTokens, adds : BOOLEAN]]
    /\ orders \subseteq Users /\ routes \in BOOLEAN /\ secret \in 0 .. MaxSecrets
    /\ accepted \in [Places -> 0 .. MaxTokens] /\ inside \in [Places -> 0 .. MaxTokens]
    /\ locked \subseteq Users /\ kept \subseteq Users
    /\ task \in [Workers -> [pc : Steps, live : SUBSET Places, todo : SUBSET (Places \cup Users),
                             drop : SUBSET Places, may : SUBSET Users, open : BOOLEAN]]
    /\ tally \in [tokens : 0 .. MaxTokens, secrets : 0 .. MaxSecrets, faults : 0 .. MaxFaults]

ExtInit ==
    /\ coupled = [there |-> FALSE, on |-> FALSE, secret |-> 0]
    /\ user = [u \in Users |-> [there |-> TRUE, may |-> TRUE]]
    /\ status = [p \in Places |-> "none"] /\ booked = {}
    /\ fresh = [p \in Places |-> Nothing] /\ inside = [p \in Places |-> 0]
    /\ accepted = [p \in Places |-> 0]
    /\ orders = {} /\ routes = FALSE /\ secret = 0 /\ locked = {} /\ kept = {}
    /\ task = [x \in Workers |-> Idle]
    /\ tally = [tokens |-> 0, secrets |-> 0, faults |-> 0]

\* berechtigt
Entitled(u) == coupled.on /\ user[u].there /\ user[u].may

\* aufruf: the extension answers, does not answer, or does not know the secret.
Known == coupled.there /\ coupled.secret = secret
Fault == tally.faults < MaxFaults /\ tally' = [tally EXCEPT !.faults = @ + 1]
Fails == (Known /\ Fault) \/ (~Known /\ UNCHANGED tally)
Answers == Known /\ UNCHANGED tally
Goes(x, pc) == task' = [task EXCEPT ![x].pc = pc]

\* -- the administration
Couples == \* koppeln; the extension has the new secret before the row is committed
    /\ tally.secrets < MaxSecrets
    /\ secret' = tally.secrets + 1
    /\ \/ /\ coupled' = [coupled EXCEPT !.there = TRUE, !.secret = tally.secrets + 1]
          /\ tally' = [tally EXCEPT !.secrets = @ + 1]
       \/ /\ tally.faults < MaxFaults /\ UNCHANGED coupled
          /\ tally' = [tally EXCEPT !.secrets = @ + 1, !.faults = @ + 1]
    /\ UNCHANGED <<user, status, booked, fresh, orders, routes, accepted, locked, kept, inside, task>>

Configures(x, on) == \* einstellen; routes and users follow
    /\ x # "takt" /\ task[x].pc = "idle" /\ coupled.there
    /\ coupled' = [coupled EXCEPT !.on = on]
    /\ Goes(x, "push")
    /\ UNCHANGED <<user, status, booked, fresh, orders, routes, secret, accepted, locked, kept, inside, tally>>

Decouples(x) == \* entfernen; its data stay with the extension
    /\ x # "takt" /\ task[x].pc = "idle" /\ coupled.there
    /\ \/ Answers /\ accepted' = [p \in Places |-> IF p \in booked THEN 0 ELSE accepted[p]]
       \/ Fails /\ UNCHANGED accepted
    /\ coupled' = [there |-> FALSE, on |-> FALSE, secret |-> 0]
    /\ booked' = {} /\ orders' = {}
    /\ Goes(x, "push")
    /\ UNCHANGED <<user, status, fresh, routes, secret, locked, kept, inside>>

\* -- people
Changes(u, may) == \* an account changes, then nutzer_abgleichen
    /\ user[u].there /\ user[u].may # may
    /\ user' = [user EXCEPT ![u].may = may]
    /\ \/ /\ Answers
          /\ locked' = IF may /\ coupled.on THEN locked \ {u} ELSE locked \cup {u}
       \/ Fails /\ UNCHANGED locked
    /\ UNCHANGED <<coupled, status, booked, fresh, orders, routes, secret, accepted, kept, inside, task>>

OrderForgotten(u) == UNCHANGED orders
OrderStays(u) == orders' = IF coupled.there THEN orders \cup {u} ELSE orders
Deleted(u) == \* vor_dem_loeschen: an order, and the first attempt to carry it out
    /\ user[u].there
    /\ \A p \in Places : Owner(p) = u => status[p] # "starting"
    /\ user' = [user EXCEPT ![u].there = FALSE]
    /\ status' = [p \in Places |-> IF Owner(p) = u THEN "ended" ELSE status[p]]
    /\ \/ Answers /\ kept' = kept \ {u} /\ UNCHANGED orders
       \/ Fails /\ OrderStays(u) /\ UNCHANGED kept
    /\ UNCHANGED <<coupled, booked, fresh, routes, secret, accepted, locked, inside, task>>

\* -- workspaces
StartBegins(p) ==
    /\ status[p] \in {"none", "ended"} /\ user[Owner(p)].there
    /\ Calm => task["takt"].pc \notin {"rows", "ask", "delete"}
    /\ status' = [status EXCEPT ![p] = "starting"]
    /\ UNCHANGED <<coupled, user, booked, fresh, orders, routes, secret, accepted, locked, kept, inside, task, tally>>

StartIssues(p) == \* fuer_sitzung; the new token takes the place of the old one
    /\ status[p] = "starting" /\ fresh[p].token = 0
    /\ Entitled(Owner(p)) /\ Known /\ tally.tokens < MaxTokens
    /\ tally' = [tally EXCEPT !.tokens = @ + 1]
    /\ fresh' = [fresh EXCEPT ![p] = [token |-> tally.tokens + 1, adds |-> p \notin booked]]
    /\ accepted' = [accepted EXCEPT ![p] = tally.tokens + 1]
    /\ kept' = kept \cup {Owner(p)}
    /\ UNCHANGED <<coupled, user, status, booked, orders, routes, secret, locked, inside, task>>

StartEnds(p, well) ==
    /\ status[p] = "starting"
    /\ status' = [status EXCEPT ![p] = IF well THEN "live" ELSE "ended"]
    /\ booked' = IF fresh[p].adds THEN booked \cup {p} ELSE booked
    /\ inside' = [inside EXCEPT ![p] = fresh[p].token]
    /\ fresh' = [fresh EXCEPT ![p] = Nothing]
    /\ UNCHANGED <<coupled, user, orders, routes, secret, accepted, locked, kept, task, tally>>

\* widerrufen: the row stays until the extension has confirmed
Revokes(p, gone) ==
    \/ ~coupled.there /\ gone = TRUE /\ UNCHANGED <<accepted, tally>>
    \/ coupled.there /\ Answers /\ gone = TRUE /\ accepted' = [accepted EXCEPT ![p] = 0]
    \/ coupled.there /\ Fails /\ gone = FALSE /\ UNCHANGED accepted

Ends(p) == \* delete_session, platz_anhalten, platz_ohne_lauf
    /\ status[p] = "live"
    /\ status' = [status EXCEPT ![p] = "ended"]
    /\ IF p \in booked
       THEN \E gone \in BOOLEAN : Revokes(p, gone) /\ booked' = (IF gone THEN booked \ {p} ELSE booked)
       ELSE UNCHANGED <<booked, accepted, tally>>
    /\ UNCHANGED <<coupled, user, fresh, orders, routes, secret, locked, kept, inside, task>>

EndsQuietly(p) == \* the reaper closes the row
    /\ status[p] = "live"
    /\ status' = [status EXCEPT ![p] = "ended"]
    /\ UNCHANGED <<coupled, user, booked, fresh, orders, routes, secret, accepted, locked, kept, inside, task, tally>>

\* -- every quarter of an hour: takt
Ready(p) == status[p] = "live"
Running(p) == status[p] \in {"starting", "live"}
TaktReads == \* abgleichen: the workspaces that run
    /\ task["takt"].pc = "idle" /\ coupled.there
    /\ task' = [task EXCEPT !["takt"] = [Idle EXCEPT !.pc = "rows",
                   !.live = {p \in Places : Running(p)}]]
    /\ UNCHANGED <<coupled, user, status, booked, fresh, orders, routes, secret, accepted, locked, kept, inside, tally>>

RowsRead == \* the rows, read after it
    /\ task["takt"].pc = "rows"
    /\ task' = [task EXCEPT !["takt"].pc = "ask", !["takt"].todo = booked \ task["takt"].live]
    /\ UNCHANGED <<coupled, user, status, booked, fresh, orders, routes, secret, accepted, locked, kept, inside, tally>>

RowRevoked(p) ==
    /\ task["takt"].pc = "ask" /\ p \in task["takt"].todo
    /\ \E gone \in BOOLEAN :
         /\ Revokes(p, gone)
         /\ task' = [task EXCEPT !["takt"].todo = @ \ {p},
                                 !["takt"].drop = IF gone THEN @ \cup {p} ELSE @]
    /\ UNCHANGED <<coupled, user, status, booked, fresh, orders, routes, secret, locked, kept, inside>>

Asked == \* what the extension says runs, also what OTA knows nothing about
    /\ task["takt"].pc = "ask" /\ task["takt"].todo = {}
    /\ \/ /\ Answers
          /\ task' = [task EXCEPT !["takt"].pc = "delete",
                 !["takt"].todo = {p \in Places : accepted[p] # 0} \ task["takt"].live]
       \/ Fails /\ Goes("takt", "delete")
    /\ UNCHANGED <<coupled, user, status, booked, fresh, orders, routes, secret, accepted, locked, kept, inside>>

TokenDeleted(p) ==
    /\ task["takt"].pc = "delete" /\ p \in task["takt"].todo
    /\ \/ Answers /\ accepted' = [accepted EXCEPT ![p] = 0]
       \/ Fails /\ UNCHANGED accepted
    /\ task' = [task EXCEPT !["takt"].todo = @ \ {p}]
    /\ UNCHANGED <<coupled, user, status, booked, fresh, orders, routes, secret, locked, kept, inside>>

RoundCommits ==
    /\ task["takt"].pc = "delete" /\ task["takt"].todo = {}
    /\ booked' = booked \ task["takt"].drop
    /\ task' = [task EXCEPT !["takt"] = [Idle EXCEPT !.pc = "orders", !.todo = orders]]
    /\ UNCHANGED <<coupled, user, status, fresh, orders, routes, secret, accepted, locked, kept, inside, tally>>

\* auftraege_abarbeiten: an order stays until the extension has confirmed it
CarriedOut(u) ==
    \/ ~coupled.there /\ orders' = orders \ {u} /\ UNCHANGED <<kept, tally>>
    \/ coupled.there /\ Answers /\ orders' = orders \ {u} /\ kept' = kept \ {u}
    \/ coupled.there /\ Fails /\ UNCHANGED <<orders, kept>>
Order(u) ==
    /\ task["takt"].pc = "orders" /\ u \in task["takt"].todo
    /\ IF u \in orders THEN CarriedOut(u) ELSE UNCHANGED <<orders, kept, tally>>
    /\ task' = [task EXCEPT !["takt"].todo = @ \ {u}]
    /\ UNCHANGED <<coupled, user, status, booked, fresh, routes, secret, accepted, locked, inside>>

OrdersDone ==
    /\ task["takt"].pc = "orders" /\ task["takt"].todo = {}
    /\ Goes("takt", "read")
    /\ UNCHANGED <<coupled, user, status, booked, fresh, orders, routes, secret, accepted, locked, kept, inside, tally>>

\* alle_nutzer_abgleichen, of the round and after a change of the settings
UsersRead(x) ==
    /\ task[x].pc = "read"
    /\ task' = [task EXCEPT ![x] = [Idle EXCEPT !.pc = "tell", !.may = {u \in Users : Entitled(u)},
                   !.todo = {u \in Users : coupled.there /\ user[u].there}]]
    /\ UNCHANGED <<coupled, user, status, booked, fresh, orders, routes, secret, accepted, locked, kept, inside, tally>>

UserTold(x, u) ==
    /\ task[x].pc = "tell" /\ u \in task[x].todo
    /\ \/ Answers /\ locked' = IF u \in task[x].may THEN locked \ {u} ELSE locked \cup {u}
       \/ Fails /\ UNCHANGED locked
    /\ task' = [task EXCEPT ![x].todo = @ \ {u}]
    /\ UNCHANGED <<coupled, user, status, booked, fresh, orders, routes, secret, accepted, kept, inside>>

UsersTold(x) ==
    /\ task[x].pc = "tell" /\ task[x].todo = {}
    /\ IF x = "takt" THEN Goes(x, "push") ELSE task' = [task EXCEPT ![x] = Idle]
    /\ UNCHANGED <<coupled, user, status, booked, fresh, orders, routes, secret, accepted, locked, kept, inside, tally>>

\* routen_schieben: what the table says, then the agent writes the file
RoutesRead(x) ==
    /\ task[x].pc = "push"
    /\ task' = [task EXCEPT ![x].pc = "write", ![x].open = coupled.on]
    /\ UNCHANGED <<coupled, user, status, booked, fresh, orders, routes, secret, accepted, locked, kept, inside, tally>>

RoutesWritten(x) ==
    /\ task[x].pc = "write"
    /\ \/ routes' = task[x].open /\ UNCHANGED tally
       \/ Fault /\ UNCHANGED routes
    /\ IF x # "takt" /\ coupled.there THEN Goes(x, "read") ELSE task' = [task EXCEPT ![x] = Idle]
    /\ UNCHANGED <<coupled, user, status, booked, fresh, orders, secret, accepted, locked, kept, inside>>

Round ==
    \/ TaktReads \/ RowsRead \/ Asked \/ RoundCommits \/ OrdersDone
    \/ \E p \in Places : RowRevoked(p) \/ TokenDeleted(p)
    \/ \E u \in Users : Order(u)
Follows(x) ==
    \/ UsersRead(x) \/ UsersTold(x) \/ RoutesRead(x) \/ RoutesWritten(x)
    \/ \E u \in Users : UserTold(x, u)

ExtNext ==
    \/ Couples \/ Round
    \/ \E x \in Workers : Decouples(x) \/ Follows(x) \/ \E on \in BOOLEAN : Configures(x, on)
    \/ \E u \in Users : Deleted(u) \/ \E may \in BOOLEAN : Changes(u, may)
    \/ \E p \in Places :
         \/ StartBegins(p) \/ StartIssues(p) \/ Ends(p) \/ EndsQuietly(p)
         \/ \E well \in BOOLEAN : StartEnds(p, well)

\* The clock of the API comes round again, and what began ends.
ExtFairness == WF_extVars(Round) /\ \A x \in Workers : WF_extVars(Follows(x))
ExtSpec == ExtInit /\ [][ExtNext]_extVars
FairExtSpec == ExtSpec /\ ExtFairness

\* Whatever the extension missed, it learns at last, as long as OTA and it know the same secret:
\* tokens of workspaces that have ended are revoked, who may not is locked, the data of an account
\* are deleted unless it was decoupled after the account, and an extension that is switched off
\* is closed (takt; entfernen forgets the orders).
LearnsAtLast ==
    <>[]Known =>
        /\ \A p \in Places : <>[](status[p] = "ended") => <>[](accepted[p] = 0)
        /\ \A u \in Users :
             /\ <>[](user[u].there /\ ~Entitled(u)) => <>[](u \in locked)
             /\ [](user[u].there \/ coupled.there) /\ <>[](~user[u].there) => <>[](u \notin kept)
        /\ <>[](~coupled.on) => <>[]~routes

\* The token of a workspace ends with it, and not before (erweiterungen.py): as long as its
\* row is there, what lies in a running one is what the extension accepts.
LiveTokenKept ==
    \A p \in booked : status[p] = "live" /\ inside[p] # 0 => accepted[p] = inside[p]
=============================================================================
