------------------------------- MODULE Accounts -------------------------------
(***************************************************************************)
(* Accounts of OTA and of Keycloak, and how they come together: sign-in    *)
(* over Keycloak, accounts made by the administration, an account that     *)
(* moves with its password, the run that takes over old accounts and its   *)
(* way back, and a domain account linked to an older one.  The accounts    *)
(* other than the emergency account belong to one person, who may be known *)
(* under several names.                                                    *)
(***************************************************************************)
EXTENDS Integers, FiniteSets

CONSTANTS
    Rows, Emergency,    \* rows of table users; the one of the emergency account
    Subs, Domain,       \* accounts of Keycloak; those among them that come from a directory
    Logins, EmergencyName, NoSub,
    Renames,            \* the directory may rename an account
    TakesBackForGood,   \* no account is taken back before or during a run, only after the last one
    LosesAnswers,       \* Keycloak may make an account and its answer not reach the run
    MaxAborts, MaxFails

AccountsAssumption ==
    /\ Emergency \in Rows /\ Domain \subseteq Subs /\ NoSub \notin Subs
    /\ EmergencyName \notin Logins
    /\ {Renames, TakesBackForGood, LosesAnswers} \subseteq BOOLEAN /\ {MaxAborts, MaxFails} \subseteq Nat

VARIABLES
    users,      \* table users
    keycloak,   \* accounts in Keycloak
    run,        \* a run of uebernahme: what is left to do, what is flushed, whose passwords it shows
    crashes, faults

accountVars == <<users, keycloak, run, crashes, faults>>

NoPerson == [is |-> "none", name |-> EmergencyName, sub |-> NoSub, hash |-> FALSE, active |-> FALSE]
NoAccount == [is |-> "none", name |-> EmergencyName, enabled |-> FALSE, known |-> FALSE]
NoRun == [on |-> FALSE, todo |-> {}, done |-> {}, shown |-> {}]

AccountsTypeOK ==
    /\ users \in [Rows -> [is : {"none", "local", "keycloak"}, name : Logins \cup {EmergencyName},
                           sub : Subs \cup {NoSub}, hash : BOOLEAN, active : BOOLEAN]]
    /\ keycloak \in [Subs -> [is : {"none", "made", "domain"}, name : Logins \cup {EmergencyName},
                              enabled : BOOLEAN, known : BOOLEAN]]
    /\ run \in [on : BOOLEAN, todo : SUBSET Rows, done : SUBSET (Rows \X Subs),
               shown : SUBSET Subs]
    /\ crashes \in 0 .. MaxAborts /\ faults \in 0 .. MaxFails

Local(n) == [is |-> "local", name |-> n, sub |-> NoSub, hash |-> TRUE, active |-> TRUE]
Central(n, k) == [is |-> "keycloak", name |-> n, sub |-> k, hash |-> FALSE, active |-> TRUE]

\* Old accounts are local ones; nobody has used Keycloak yet.
AccountsInit ==
    /\ \E old \in Rows \ {Emergency}, n \in Logins :
           users = [r \in Rows |-> CASE r = Emergency -> Local(EmergencyName)
                                     [] r = old -> Local(n)
                                     [] OTHER -> NoPerson]
    /\ keycloak = [k \in Subs |-> NoAccount]
    /\ run = NoRun
    /\ crashes = 0 /\ faults = 0

RowsNamed(n) == {r \in Rows : users[r].is # "none" /\ users[r].name = n}
OfSub(k) == {r \in Rows : users[r].is = "keycloak" /\ users[r].sub = k}           \* finde
Found(n) == {k \in Subs : keycloak[k].is # "none" /\ keycloak[k].name = n}        \* konto_finden
FreeRows == {r \in Rows : users[r].is = "none"}
FreeSubs == {k \in Subs \ Domain : keycloak[k].is = "none"}

\* The rows a run has flushed are locked until it commits.
Unlocked(r) == \A d \in run.done : d[1] # r
AllUnlocked == run.done = {}
NoFault == UNCHANGED <<crashes, faults>>
Fails == faults < MaxFails /\ faults' = faults + 1 /\ UNCHANGED crashes

\* -- the directory behind Keycloak
DomainAppears(k, n) ==
    /\ k \in Domain /\ keycloak[k].is = "none" /\ Found(n) = {}
    /\ keycloak' = [keycloak EXCEPT ![k] = [is |-> "domain", name |-> n, enabled |-> TRUE, known |-> TRUE]]
    /\ UNCHANGED <<users, run>> /\ NoFault

DomainRenames(k, n) ==
    /\ Renames /\ keycloak[k].is = "domain" /\ Found(n) = {}
    /\ keycloak' = [keycloak EXCEPT ![k].name = n]
    /\ UNCHANGED <<users, run>> /\ NoFault

\* -- anmelden: by the sub, never by the name
MaySignIn(k) == keycloak[k].enabled /\ keycloak[k].known

SignInFollows(k, r) ==
    /\ MaySignIn(k) /\ r \in OfSub(k) /\ users[r].active /\ Unlocked(r)
    /\ RowsNamed(keycloak[k].name) \subseteq {r}            \* otherwise users.username is not unique
    /\ users' = [users EXCEPT ![r].name = keycloak[k].name]
    /\ UNCHANGED <<keycloak, run>> /\ NoFault

SignInCreates(k, r) ==
    /\ MaySignIn(k) /\ OfSub(k) = {} /\ RowsNamed(keycloak[k].name) = {}
    /\ AllUnlocked /\ r \in FreeRows
    /\ users' = [users EXCEPT ![r] = Central(keycloak[k].name, k)]
    /\ UNCHANGED <<keycloak, run>> /\ NoFault

\* -- the administration; what it saves goes to Keycloak, too, if Keycloak answers (nach_keycloak)
Made(n, k) == [keycloak EXCEPT ![k] = [is |-> "made", name |-> n, enabled |-> TRUE, known |-> TRUE]]

\* create_user, _in_keycloak_anlegen: link what Keycloak has under this name, and unlock it.
CreateLinked(n, r) ==
    /\ RowsNamed(n) = {} /\ r \in FreeRows /\ AllUnlocked
    /\ \E k \in Found(n) :
           /\ keycloak' = [keycloak EXCEPT ![k].enabled = TRUE]
           /\ users' = [users EXCEPT ![r] = Central(n, k)]
    /\ UNCHANGED run /\ NoFault

CreateMade(n, r) ==
    /\ RowsNamed(n) = {} /\ r \in FreeRows /\ Found(n) = {} /\ AllUnlocked
    /\ \E k \in FreeSubs :
           /\ keycloak' = Made(n, k)
           /\ users' = [users EXCEPT ![r] = Central(n, k)]
    /\ UNCHANGED run /\ NoFault

\* update_user: the switch, and a password, here or there.
UpdateAccount(r, active, password) ==
    LET k == users[r].sub
        silent == faults' > faults
    IN  /\ users[r].is # "none" /\ Unlocked(r)
        /\ users' = [users EXCEPT ![r].active = active]
        /\ IF users[r].is = "local" THEN NoFault /\ UNCHANGED keycloak
           ELSE /\ NoFault \/ Fails
                /\ password => keycloak[k].is = "made" /\ ~silent
                /\ keycloak' = [keycloak EXCEPT ![k].enabled = IF silent THEN @ ELSE active,
                                                ![k].known = @ \/ password]
        /\ UNCHANGED run

Delete(r) ==
    LET k == users[r].sub
        silent == faults' > faults
    IN  /\ users[r].is # "none" /\ Unlocked(r)
        /\ users' = [users EXCEPT ![r] = NoPerson]
        /\ IF users[r].is = "local" THEN NoFault /\ UNCHANGED keycloak
           ELSE /\ NoFault \/ Fails
                /\ keycloak' = IF silent THEN keycloak ELSE [keycloak EXCEPT ![k].enabled = FALSE]
        /\ UNCHANGED run

\* -- umziehen: an account moves with its own password
ToCentral(r, k) == Central(users[r].name, k)

Usable(k) == keycloak[k].enabled
MayMove(r) == users[r].is = "local" /\ users[r].active /\ r # Emergency /\ Unlocked(r)
MoveLinks(r) ==
    /\ MayMove(r)
    /\ \E k \in Found(users[r].name) :
           /\ Usable(k)
           /\ users' = [users EXCEPT ![r] = ToCentral(r, k)]
    /\ UNCHANGED <<keycloak, run>> /\ NoFault

MoveMakes(r) == \* the account is made; when a later call fails, the row stays as it was
    /\ MayMove(r) /\ Found(users[r].name) = {}
    /\ \E k \in FreeSubs :
           /\ keycloak' = Made(users[r].name, k)
           /\ \/ users' = [users EXCEPT ![r] = ToCentral(r, k)] /\ NoFault
              \/ Fails /\ UNCHANGED users
    /\ UNCHANGED run

\* -- uebernahme: one transaction over all old accounts; an account has a password that nobody
\* knows before the answer shows it
Ready == users[Emergency].is = "local" /\ users[Emergency].hash /\ users[Emergency].active
TakenBack == \E r \in Rows \ {Emergency} :
                 users[r].is = "local" /\ \E k \in Found(users[r].name) : ~keycloak[k].enabled

TakeoverBegins ==
    /\ Ready /\ ~run.on
    /\ TakesBackForGood => ~TakenBack
    /\ run' = [NoRun EXCEPT !.on = TRUE,
               !.todo = {r \in Rows \ {Emergency} : users[r].is = "local"}]
    /\ UNCHANGED <<users, keycloak>> /\ NoFault

RunLinks(r) == \* the account may be locked: nobody asks
    /\ r \in run.todo
    /\ users[r].is = "local"            \* what else has become of it: see the README
    /\ \E k \in Found(users[r].name) :
           run' = [run EXCEPT !.todo = @ \ {r}, !.done = @ \cup {<<r, k>>}]
    /\ UNCHANGED <<users, keycloak>> /\ NoFault

MadeInRun(r, k) == keycloak' = [Made(users[r].name, k) EXCEPT ![k].known = FALSE]
RunMakes(r) ==
    /\ r \in run.todo /\ users[r].is = "local" /\ Found(users[r].name) = {}
    /\ \E k \in FreeSubs :
           /\ MadeInRun(r, k)
           /\ \/ run' = [run EXCEPT !.todo = @ \ {r}, !.done = @ \cup {<<r, k>>}, !.shown = @ \cup {k}]
                 /\ NoFault
              \/ run' = [run EXCEPT !.todo = @ \ {r}, !.shown = @ \cup {k}] /\ Fails \* a later call
    /\ UNCHANGED users

RunMakesUnheard(r) == \* konto_anlegen fails all the same, and the password is not in the answer
    /\ LosesAnswers
    /\ r \in run.todo /\ users[r].is = "local" /\ Found(users[r].name) = {}
    /\ \E k \in FreeSubs : MadeInRun(r, k)
    /\ run' = [run EXCEPT !.todo = @ \ {r}]
    /\ UNCHANGED users /\ Fails

RunLeaves(r) == \* moved or deleted meanwhile, or Keycloak fails before it has made an account
    /\ r \in run.todo
    /\ \/ users[r].is # "local" /\ NoFault
       \/ Fails
    /\ run' = [run EXCEPT !.todo = @ \ {r}]
    /\ UNCHANGED <<users, keycloak>>

Of(k) == {d[1] : d \in {e \in run.done : e[2] = k}}
TakeoverCommits ==
    /\ run.on /\ run.todo = {}
    /\ users' = [r \in Rows |->
           IF Unlocked(r) THEN users[r]
           ELSE ToCentral(r, CHOOSE k \in Subs : r \in Of(k))]
    /\ keycloak' = [k \in Subs |->
           IF k \in run.shown THEN [keycloak[k] EXCEPT !.known = TRUE] ELSE keycloak[k]]
    /\ run' = NoRun
    /\ NoFault

RunCrashes == \* the transaction is gone, and with it the passwords
    /\ run.on /\ crashes < MaxAborts
    /\ crashes' = crashes + 1
    /\ run' = NoRun
    /\ UNCHANGED <<users, keycloak, faults>>

TakeBack(r) == \* uebernahme_zurueck: local again; an account that OTA made is locked
    LET k == users[r].sub
        silent == faults' > faults
    IN  /\ users[r].is = "keycloak" /\ Unlocked(r) /\ (TakesBackForGood => ~run.on)
        /\ NoFault \/ Fails
        /\ users' = [users EXCEPT ![r] = [@ EXCEPT !.is = "local", !.sub = NoSub, !.hash = TRUE]]
        /\ keycloak' = IF silent \/ k \in Domain THEN keycloak
                       ELSE [keycloak EXCEPT ![k].enabled = FALSE]
        /\ UNCHANGED run

\* -- verknuepfen: r keeps everything and signs in as the domain account k
Doubles(k, r) == {d \in OfSub(k) : d # r}

Link(r, k) ==
    LET double == Doubles(k, r)
        old == users[r].sub
        silent == faults' > faults
    IN  /\ users[r].is # "none" /\ r # Emergency /\ AllUnlocked
        /\ users[r].is = "keycloak" => keycloak[old].is # "domain"
        /\ keycloak[k].is = "domain"
        /\ RowsNamed(keycloak[k].name) \subseteq {r} \cup double
        /\ NoFault \/ Fails
        /\ users' = [u \in Rows |->
               IF u = r THEN [Central(keycloak[k].name, k) EXCEPT !.active = users[r].active]
               ELSE IF u \in double THEN NoPerson ELSE users[u]]
        /\ keycloak' = IF users[r].is = "local" \/ silent THEN keycloak
                       ELSE [keycloak EXCEPT ![old].enabled = FALSE]
        /\ UNCHANGED run

AccountsNext ==
    \/ \E k \in Subs, n \in Logins : DomainAppears(k, n) \/ DomainRenames(k, n)
    \/ \E k \in Subs, r \in Rows : SignInFollows(k, r) \/ SignInCreates(k, r) \/ Link(r, k)
    \/ \E n \in Logins, r \in Rows : CreateLinked(n, r) \/ CreateMade(n, r)
    \/ \E r \in Rows, active \in BOOLEAN, password \in BOOLEAN : UpdateAccount(r, active, password)
    \/ \E r \in Rows : Delete(r) \/ TakeBack(r)
    \/ \E r \in Rows : MoveLinks(r) \/ MoveMakes(r)
    \/ TakeoverBegins \/ TakeoverCommits \/ RunCrashes
    \/ \E r \in Rows : RunLinks(r) \/ RunMakes(r) \/ RunMakesUnheard(r) \/ RunLeaves(r)

AccountsSpec == AccountsInit /\ [][AccountsNext]_accountVars

\* An account that signs in over Keycloak has no password of OTA's own left, however it got
\* there: there is no second way in (uebernahme.lauf, umziehen, verknuepfen).
NoSecondWay == \A r \in Rows : users[r].is = "keycloak" => ~users[r].hash

\* An active person whose account moves to Keycloak, by itself at a local sign-in or in the run
\* over all old accounts, can sign in there: the account is not locked, and its password is one
\* that somebody knows, or that the run still under way will show (umziehen, uebernahme.lauf).
MovedByHand == \E r \in Rows, k \in Subs : Link(r, k)
Moves(r) == users[r].is = "local" /\ users[r].active /\ users'[r].is = "keycloak"
CanSignIn(k) == keycloak[k].enabled /\ (keycloak[k].known \/ k \in run.shown)
MovesToUsable == \A r \in Rows : Moves(r) /\ ~MovedByHand => CanSignIn(users[r].sub)'

\* Both, in every step.
AccountsMove == MovesToUsable /\ NoSecondWay'
=============================================================================
