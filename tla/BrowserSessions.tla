---------------------------- MODULE BrowserSessions ----------------------------
(***************************************************************************)
(* How one account stays signed in.  A browser holds OTA's cookie, which   *)
(* renews itself while somebody works, and a second one with which OTA     *)
(* keeps the session of Keycloak awake.  A revocation raises the epoch of  *)
(* the account, and every cookie of an older epoch is refused.  A tab goes *)
(* to Keycloak with a note of its own and comes back with a code.          *)
(* A step of time is longer than KC_WACH_SEKUNDEN and than any request.    *)
(***************************************************************************)
EXTENDS Integers, FiniteSets

CONSTANTS
    Browsers, Tabs,
    BrowserOf(_),       \* the browser of a tab
    IdleTime,       \* auth_idle_minutes, the lifetime of a cookie and of an idle session of Keycloak
    NoteTime,           \* OIDC_MINUTEN
    Overlap,            \* two revocations of the account may be under way at the same time
    MaxRevocations      \* bound

BrowserSessionsAssumption ==
    /\ IdleTime \in Nat \ {0} /\ NoteTime \in Nat \ {0} /\ MaxRevocations \in Nat
    /\ \A t \in Tabs : BrowserOf(t) \in Browsers
    /\ Overlap \in BOOLEAN

VARIABLES
    local,      \* auth_provider of the account: "local", otherwise "keycloak"
    epoch,      \* token_epoch
    changes,    \* revocations under way, with the epoch each has read
    cookie,     \* ota_session of each browser: epoch, time left, and revocations before it was made
    awake,      \* ota_kcwach of each browser: none, just refreshed, or due
    sso,        \* sessions of Keycloak: time left, 0 when there is none
    notices,    \* an end of a session that Keycloak has yet to report (back channel)
    notes,      \* notes of each browser: for each tab under way the time left
    page,       \* where a tab is: in OTA, at Keycloak (and for how long), or at an error
    answers,    \* answers on their way to a tab
    revoked,    \* revocations committed so far
    quiet,      \* time since OTA last answered the browser
    signedIn,   \* the browser has signed in, and nobody has ended that since
    unheard,    \* a refresh found no Keycloak since the browser last signed in
    overtaken   \* since then an answer from before it has put its own cookies over the newer ones

accountState == <<local, epoch, changes, revoked, notices>>
browserState == <<cookie, awake, sso, quiet, signedIn, unheard, overtaken>>
sessionVars == <<accountState, browserState, notes, page, answers>>

NoCookie == [epoch |-> -1, left |-> 0, born |-> 0]
Cookie == [epoch : -1 .. MaxRevocations, left : 0 .. IdleTime, born : 0 .. MaxRevocations]
Sources == {"own", "office", "keycloak"}
NoAnswer == [kind |-> "none", epoch |-> -1, born |-> 0, stamp |-> FALSE, late |-> FALSE]
InOTA == [at |-> "ota", for |-> 0]

BrowserTypeOK ==
    /\ local \in BOOLEAN
    /\ epoch \in 0 .. MaxRevocations /\ revoked \in 0 .. MaxRevocations
    /\ changes \in [Sources -> -1 .. MaxRevocations]
    /\ notices \in BOOLEAN
    /\ cookie \in [Browsers -> Cookie]
    /\ awake \in [Browsers -> {"none", "fresh", "due"}]
    /\ sso \in [Browsers -> 0 .. IdleTime]
    /\ notes \in [Browsers -> [Tabs -> 0 .. NoteTime]]
    /\ page \in [Tabs -> [at : {"ota", "keycloak", "error"}, for : 0 .. NoteTime + 1]]
    /\ answers \in [Tabs -> [kind : {"none", "work", "own", "changed", "moved"},
                             epoch : -1 .. MaxRevocations, born : 0 .. MaxRevocations,
                             stamp : BOOLEAN, late : BOOLEAN]]
    /\ quiet \in [Browsers -> 0 .. IdleTime]
    /\ signedIn \in [Browsers -> BOOLEAN] /\ unheard \in [Browsers -> BOOLEAN]
    /\ overtaken \in [Browsers -> BOOLEAN]

BrowserInit ==
    /\ local \in BOOLEAN
    /\ epoch = 0 /\ revoked = 0 /\ notices = FALSE
    /\ changes = [c \in Sources |-> -1]
    /\ cookie = [b \in Browsers |-> NoCookie]
    /\ awake = [b \in Browsers |-> "none"]
    /\ sso = [b \in Browsers |-> 0]
    /\ notes = [b \in Browsers |-> [t \in Tabs |-> 0]]
    /\ page = [t \in Tabs |-> InOTA]
    /\ answers = [t \in Tabs |-> NoAnswer]
    /\ quiet = [b \in Browsers |-> 0]
    /\ signedIn = [b \in Browsers |-> FALSE]
    /\ unheard = [b \in Browsers |-> FALSE]
    /\ overtaken = [b \in Browsers |-> FALSE]

\* What current_user, authz and _schon_angemeldet accept.
Unexpired(c) == c.left > 0
Valid(c) == c.left > 0 /\ c.epoch = epoch
SignedInAt(b) == Valid(cookie[b])
NewCookie(e) == [epoch |-> e, left |-> IdleTime, born |-> revoked]
Free(t) == answers[t].kind = "none"

\* The answers on their way to a browser are older than the cookie it gets now.
Overtakes(b) == [t \in Tabs |-> IF BrowserOf(t) = b /\ ~Free(t) THEN [answers[t] EXCEPT !.late = TRUE]
                               ELSE answers[t]]

\* -- revocations: read the row, then write the epoch raised by one
NoneUnderWay == \A c \in Sources : changes[c] = -1
Reads(c) ==
    /\ changes[c] = -1
    /\ Overlap \/ NoneUnderWay
    /\ revoked + Cardinality({d \in Sources : changes[d] >= 0}) < MaxRevocations
    /\ changes' = [changes EXCEPT ![c] = epoch]

Raised(c) == changes[c] + 1

Commits(c) ==
    /\ changes[c] >= 0
    /\ epoch' = Raised(c)
    /\ revoked' = revoked + 1
    /\ changes' = [changes EXCEPT ![c] = -1]

\* A password that is changed keeps its own browser signed in, an account that moves to
\* Keycloak does not (change_password, umziehen): the commit, then the answer with the new
\* cookie or with none.  Other tabs ask on meanwhile.
OwnChangeReads(t) ==
    /\ local /\ Free(t) /\ page[t] = InOTA /\ SignedInAt(BrowserOf(t))
    /\ Reads("own")
    /\ answers' = [answers EXCEPT ![t] = [NoAnswer EXCEPT !.kind = "own"]]
    /\ UNCHANGED <<local, epoch, revoked, notices, browserState, notes, page>>

PasswordChanged(t) ==
    LET b == BrowserOf(t)
    IN  /\ answers[t].kind = "own" /\ Commits("own")
        /\ signedIn' = [c \in Browsers |-> c = b /\ signedIn[c]]
        /\ answers' = [Overtakes(b) EXCEPT ![t] =
               [NoAnswer EXCEPT !.kind = "changed", !.epoch = Raised("own"), !.born = revoked + 1]]
        /\ UNCHANGED <<local, notices, cookie, awake, sso, quiet, unheard, overtaken, notes, page>>

Moved(t) ==
    /\ answers[t].kind = "own" /\ Commits("own")
    /\ local' = FALSE
    /\ signedIn' = [c \in Browsers |-> FALSE]
    /\ answers' = [answers EXCEPT ![t] = [NoAnswer EXCEPT !.kind = "moved"]]
    /\ UNCHANGED <<notices, cookie, awake, sso, quiet, unheard, overtaken, notes, page>>

OwnChangeAnswered(t) ==
    LET b == BrowserOf(t)
        a == answers[t]
    IN  /\ \/ /\ a.kind = "changed"
              /\ cookie' = [cookie EXCEPT ![b] = [epoch |-> a.epoch, left |-> IdleTime, born |-> a.born]]
              /\ quiet' = [quiet EXCEPT ![b] = 0]
              /\ UNCHANGED awake
           \/ /\ a.kind = "moved"
              /\ cookie' = [cookie EXCEPT ![b] = NoCookie]
              /\ awake' = [awake EXCEPT ![b] = "none"]
              /\ UNCHANGED quiet
        /\ overtaken' = [overtaken EXCEPT ![b] = a.late]
        /\ answers' = [answers EXCEPT ![t] = NoAnswer]
        /\ UNCHANGED <<accountState, sso, signedIn, unheard, notes, page>>

OwnChangeFails(t) == \* wrong password, Keycloak refuses
    /\ answers[t].kind = "own"
    /\ changes' = [changes EXCEPT !["own"] = -1]
    /\ answers' = [answers EXCEPT ![t] = NoAnswer]
    /\ UNCHANGED <<local, epoch, revoked, notices, browserState, notes, page>>

\* An administrator sets a password, takes the second factor away or links the account.
OfficeReads ==
    /\ Reads("office")
    /\ UNCHANGED <<local, epoch, revoked, notices, browserState, notes, page, answers>>

\* oidc_backchannel finds an account of Keycloak only.
NoticeReads ==
    /\ notices /\ ~local
    /\ notices' = FALSE
    /\ Reads("keycloak")
    /\ UNCHANGED <<local, epoch, revoked, browserState, notes, page, answers>>

NoticeLost ==
    /\ notices
    /\ notices' = FALSE
    /\ UNCHANGED <<local, epoch, changes, revoked, browserState, notes, page, answers>>

RevocationCommits ==
    /\ \E c \in {"office", "keycloak"} : Commits(c)
    /\ signedIn' = [b \in Browsers |-> FALSE]
    /\ UNCHANGED <<local, notices, cookie, awake, sso, quiet, unheard, overtaken, notes, page, answers>>

\* -- a request and its answer
Renewed(c) == c.left <= IdleTime \div 2                       \* _renew: in the second half

\* current_user: the cookie, then the session of Keycloak, then the renewal.
Refreshed(b, heard) == sso' = IF awake[b] = "due" /\ heard THEN [sso EXCEPT ![b] = IdleTime] ELSE sso

Served(t, heard) ==
    LET b == BrowserOf(t)
        ask == awake[b] = "due"
    IN  /\ Free(t) /\ page[t] = InOTA /\ SignedInAt(b)
        /\ ask /\ heard => sso[b] > 0
        /\ ~ask => heard
        /\ Refreshed(b, heard)
        /\ unheard' = IF heard THEN unheard ELSE [unheard EXCEPT ![b] = TRUE]
        /\ answers' = [answers EXCEPT ![t] =
               [kind |-> "work", epoch |-> IF Renewed(cookie[b]) THEN epoch ELSE -1,
                born |-> revoked, stamp |-> ask, late |-> FALSE]]
        /\ UNCHANGED <<accountState, cookie, awake, quiet, signedIn, overtaken, notes, page>>

Answered(t) ==
    LET b == BrowserOf(t)
        a == answers[t]
    IN  /\ a.kind = "work"
        /\ cookie' = IF a.epoch < 0 THEN cookie
                     ELSE [cookie EXCEPT ![b] = [epoch |-> a.epoch, left |-> IdleTime, born |-> a.born]]
        /\ awake' = IF a.stamp THEN [awake EXCEPT ![b] = "fresh"] ELSE awake
        /\ overtaken' = [overtaken EXCEPT ![b] = @ \/ (a.late /\ (a.epoch >= 0 \/ a.stamp))]
        /\ quiet' = [quiet EXCEPT ![b] = 0]
        /\ answers' = [answers EXCEPT ![t] = NoAnswer]
        /\ UNCHANGED <<accountState, sso, signedIn, unheard, notes, page>>

\* 401: without a valid cookie, and when Keycloak knows the session no more (SitzungWeg).
\* The page then sends the tab to oidc_start, an account of OTA's own to the mask.
Unknown(b) == awake[b] = "due" /\ sso[b] = 0
Away(t) ==
    LET b == BrowserOf(t)
    IN  /\ ~local /\ Free(t) /\ page[t].at # "keycloak"
        /\ ~SignedInAt(b) \/ Unknown(b)
        /\ notes' = [notes EXCEPT ![b][t] = NoteTime]
        /\ page' = [page EXCEPT ![t] = [at |-> "keycloak", for |-> 0]]
        /\ signedIn' = [signedIn EXCEPT ![b] = IF SignedInAt(b) THEN FALSE ELSE @]
        /\ UNCHANGED <<accountState, cookie, awake, sso, quiet, unheard, overtaken, answers>>

\* -- back from Keycloak
NoteOf(b, t) == notes[b][t]
Dropped(b, t) == [notes EXCEPT ![b][t] = 0]

SignsIn(b, state) ==
    /\ cookie' = [cookie EXCEPT ![b] = NewCookie(epoch)]
    /\ awake' = [awake EXCEPT ![b] = state]
    /\ quiet' = [quiet EXCEPT ![b] = 0]
    /\ signedIn' = [signedIn EXCEPT ![b] = TRUE]
    /\ unheard' = [unheard EXCEPT ![b] = FALSE]
    /\ overtaken' = [overtaken EXCEPT ![b] = FALSE]
    /\ answers' = Overtakes(b)

Callback(t) == \* the code is exchanged, the account found or made (kcidentity.anmelden)
    LET b == BrowserOf(t)
    IN  /\ page[t].at = "keycloak" /\ ~local /\ NoteOf(b, t) > 0
        /\ notes' = Dropped(b, t)
        /\ page' = [page EXCEPT ![t] = InOTA]
        /\ SignsIn(b, "fresh")
        /\ sso' = [sso EXCEPT ![b] = IdleTime]
        /\ UNCHANGED accountState

\* The note is gone: forgiven when another tab has signed in meanwhile.
CallbackLate(t) ==
    LET b == BrowserOf(t)
    IN  /\ page[t].at = "keycloak" /\ NoteOf(b, t) = 0
        /\ page' = [page EXCEPT ![t] = IF SignedInAt(b) THEN InOTA ELSE [@ EXCEPT !.at = "error"]]
        /\ notes' = Dropped(b, t)
        /\ UNCHANGED <<accountState, browserState, answers>>

\* Keycloak refuses, the account is refused, or the user does not sign in after all.
CallbackRefused(t) ==
    LET b == BrowserOf(t)
    IN  /\ page[t].at = "keycloak" /\ NoteOf(b, t) > 0
        /\ page' = [page EXCEPT ![t] = InOTA]
        /\ notes' = Dropped(b, t)
        /\ UNCHANGED <<accountState, browserState, answers>>

SignInHere(b) == \* login; the cookie for Keycloak of an earlier sign-in goes
    /\ local
    /\ SignsIn(b, "none")
    /\ UNCHANGED <<accountState, sso, notes, page>>

TokenSignsIn(b) == \* oidc_token: no refresh token, nothing to keep awake
    /\ ~local
    /\ SignsIn(b, "none")
    /\ UNCHANGED <<accountState, sso, notes, page>>

LogOut(b) == \* logout, oidc_logout: Keycloak ends its session, too, and reports that
    /\ cookie' = [cookie EXCEPT ![b] = NoCookie]
    /\ awake' = [awake EXCEPT ![b] = "none"]
    /\ signedIn' = [signedIn EXCEPT ![b] = FALSE]
    /\ \/ UNCHANGED <<sso, notices>>
       \/ sso[b] > 0 /\ sso' = [sso EXCEPT ![b] = 0] /\ notices' = TRUE
    /\ UNCHANGED <<local, epoch, changes, revoked, quiet, unheard, overtaken, notes, page, answers>>

KeycloakEnds(b) == \* signed out elsewhere, or by an administrator of Keycloak
    /\ sso[b] > 0
    /\ sso' = [sso EXCEPT ![b] = 0]
    /\ signedIn' = [signedIn EXCEPT ![b] = FALSE]
    /\ notices' = TRUE
    /\ UNCHANGED <<local, epoch, changes, revoked, cookie, awake, quiet, unheard, overtaken, notes, page,
                   answers>>

Less(n) == IF n > 0 THEN n - 1 ELSE 0
Tick ==
    /\ \A t \in Tabs : Free(t)
    /\ cookie' = [b \in Browsers |-> IF cookie[b].left <= 1 THEN NoCookie
                                     ELSE [cookie[b] EXCEPT !.left = @ - 1]]
    /\ awake' = [b \in Browsers |-> IF awake[b] = "fresh" THEN "due" ELSE awake[b]]
    /\ sso' = [b \in Browsers |-> Less(sso[b])]
    /\ notes' = [b \in Browsers |-> [t \in Tabs |-> Less(notes[b][t])]]
    /\ page' = [t \in Tabs |-> IF page[t].at = "keycloak" /\ page[t].for <= NoteTime
                               THEN [page[t] EXCEPT !.for = @ + 1] ELSE page[t]]
    /\ quiet' = [b \in Browsers |-> IF quiet[b] < IdleTime THEN quiet[b] + 1 ELSE IdleTime]
    /\ UNCHANGED <<accountState, signedIn, unheard, overtaken, answers>>

BrowserNext ==
    \/ \E t \in Tabs : OwnChangeReads(t) \/ PasswordChanged(t) \/ Moved(t) \/ OwnChangeFails(t)
                     \/ OwnChangeAnswered(t)
    \/ OfficeReads \/ NoticeReads \/ NoticeLost \/ RevocationCommits
    \/ \E t \in Tabs, heard \in BOOLEAN : Served(t, heard)
    \/ \E t \in Tabs : Answered(t) \/ Away(t)
    \/ \E t \in Tabs : Callback(t) \/ CallbackLate(t) \/ CallbackRefused(t)
    \/ \E b \in Browsers : SignInHere(b) \/ TokenSignsIn(b) \/ LogOut(b) \/ KeycloakEnds(b)
    \/ Tick

BrowserSpec == BrowserInit /\ [][BrowserNext]_sessionVars

\* A revocation ends every sign-in there is: a cookie that is accepted was made after the
\* last one, also when an answer that renews it was on its way (current_user, _renew, authz).
EndsAll == \A b \in Browsers : SignedInAt(b) => cookie[b].born = revoked

\* Who asks for something at least once in half the lifetime stays signed in, unless the
\* sign-in was ended by somebody (_renew: the limit is one of idleness), and who changes the
\* own password stays signed in, too, once the answer is there; unless an answer that was on
\* its way before arrives after the new cookie and puts an older one in its place.
Changing(b) == \E t \in Tabs : BrowserOf(t) = b /\ answers[t].kind = "changed"
WorkingUserStays ==
    \A b \in Browsers :
        signedIn[b] /\ ~overtaken[b] /\ ~Changing(b) /\ quiet[b] <= IdleTime \div 2 => SignedInAt(b)

\* One clock: as long as a browser is signed in to OTA, Keycloak knows it, too, if it has
\* answered whenever it was asked (_keycloak_wach, sitzungsfristen_setzen), and no older
\* cookie has come back.
OneClock ==
    \A b \in Browsers :
        signedIn[b] /\ ~unheard[b] /\ ~overtaken[b] /\ awake[b] # "none" => sso[b] >= cookie[b].left

\* Tabs that sign in at the same time do not get into each other's way: a tab back within the
\* time of its note does not end at the error page (oidc_start, oidc_callback).
TabsDontDisturb == \A t \in Tabs : page[t].at = "error" => page[t].for >= NoteTime

SignInsHold == EndsAll /\ WorkingUserStays /\ OneClock /\ TabsDontDisturb
=============================================================================
