------------------------------ MODULE LocalLogin ------------------------------
(***************************************************************************)
(* Sign-in with a password that OTA keeps itself: the lock of an account   *)
(* for one sender, the brake on a sender that errs too often, and the      *)
(* second factor with its recovery codes.  A request reads the row of the  *)
(* account, spends a while on the hash, and writes back the columns it has *)
(* changed.                                                                *)
(***************************************************************************)
EXTENDS Integers, FiniteSets

CONSTANTS
    Senders, Requests, Codes, NoSender,
    LockAfter, LockTime,            \* LOCK_AFTER, LOCK_MINUTES
    BrakeAfter, BrakeTime,          \* BREMSE_NACH, BREMSE_SEKUNDEN
    BrakeMax,                       \* BREMSE_MAX
    OneAtATime,                     \* no request begins while another runs
    SecondFactor,                   \* the account may set up a second factor
    Patience                        \* bound: mistakes that are told apart

LocalLoginAssumption ==
    /\ {LockAfter, LockTime, BrakeAfter, BrakeTime, BrakeMax} \subseteq Nat \ {0}
    /\ NoSender \notin Senders /\ {OneAtATime, SecondFactor} \subseteq BOOLEAN /\ Patience \in Nat
    /\ IsFiniteSet(Requests)

VARIABLES
    account,    \* the row: failed_logins, failed_from, locked_until as time left, second factor, codes
    brake,      \* _bremse: failures and time left for each sender
    requests,   \* what the requests are doing, with the row as they have read it
    mistakes    \* mistakes of a sender since it last signed in

loginVars == <<account, brake, requests, mistakes>>

Account == [failed : 0 .. LockAfter - 1, from : Senders \cup {NoSender}, lock : 0 .. LockTime,
            secret : BOOLEAN, codes : SUBSET Codes]
FreshAccount == [failed |-> 0, from |-> NoSender, lock |-> 0, secret |-> FALSE, codes |-> {}]

\* What is typed in: a wrong password, or the right one and what stands in the field of the code.
Input == Codes \cup {"wrong password", "no code", "time code", "wrong code"}
NoRequest == [pc |-> "idle", sender |-> NoSender, row |-> FreshAccount, input |-> "no code"]

LoginTypeOK ==
    /\ account \in Account
    /\ brake \in [Senders -> [count : 0 .. BrakeAfter + Cardinality(Requests) + 1, left : 0 .. BrakeTime]]
    /\ requests \in [Requests -> [pc : {"idle", "login", "renew", "disable"}, row : Account,
                                  sender : Senders \cup {NoSender}, input : Input]]
    /\ mistakes \in [Senders -> 0 .. Patience]

LoginInit ==
    /\ account = FreshAccount
    /\ brake = [s \in Senders |-> [count |-> 0, left |-> 0]]
    /\ requests = [r \in Requests |-> NoRequest]
    /\ mistakes = [s \in Senders |-> 0]

MayBegin(r) ==
    /\ requests[r].pc = "idle"
    /\ OneAtATime => \A q \in Requests : requests[q].pc = "idle"
Ends(r) == requests' = [requests EXCEPT ![r] = NoRequest]

\* -- the two limits
Braked(s) == brake[s].left > 0 /\ brake[s].count > BrakeAfter          \* _gebremst
LockedFor(s) == account.lock > 0 /\ account.from = s

\* A full table drops what has run out, and does not grow beyond its limit.
Entries == {s \in Senders : brake[s].count > 0}
Tidy ==
    IF Cardinality(Entries) < BrakeMax THEN brake
    ELSE [s \in Senders |-> IF brake[s].left = 0 THEN [count |-> 0, left |-> 0] ELSE brake[s]]
Full == Cardinality({s \in Senders : Tidy[s].count > 0}) >= BrakeMax

Counted(s) == \* _fehlversuch
    brake' = IF Full THEN Tidy
             ELSE [Tidy EXCEPT ![s] = [count |-> (IF @.left = 0 THEN 0 ELSE @.count) + 1,
                                       left |-> BrakeTime]]
Errs(s) ==
    /\ Counted(s)
    /\ mistakes' = [mistakes EXCEPT ![s] = IF @ < Patience THEN @ + 1 ELSE @]

\* -- a request writes only the columns whose value differs from what it has read
Written(row, seen) ==
    [c \in DOMAIN row |-> IF row[c] = seen[c] THEN account[c] ELSE row[c]]

\* Another sender begins at zero.
Keeping(row, s) == [row EXCEPT !.from = s]
AsOf(row, s) ==
    IF row.from = s THEN row ELSE [row EXCEPT !.from = s, !.failed = 0, !.lock = 0]

OneMoreOnly(row) == [row EXCEPT !.failed = @ + 1]       \* as if the limit locked nothing
OneMore(row) ==
    IF row.failed + 1 >= LockAfter THEN [row EXCEPT !.failed = 0, !.lock = LockTime]
    ELSE [row EXCEPT !.failed = @ + 1]

\* -- login
UnknownName(s) ==
    /\ ~Braked(s)
    /\ Errs(s)
    /\ UNCHANGED <<account, requests>>

LoginReads(r, s, input) ==
    /\ MayBegin(r)
    /\ ~Braked(s) /\ ~LockedFor(s)
    /\ account.secret \/ input \in {"wrong password", "no code"}    \* otherwise nobody asks for a code
    /\ requests' = [requests EXCEPT ![r] = [pc |-> "login", sender |-> s, row |-> account,
                                            input |-> input]]
    /\ UNCHANGED <<account, brake, mistakes>>

NeedsCode(q) == q.row.secret /\ q.input = "no code"
Right(q) == IF q.row.secret THEN q.input \in q.row.codes \cup {"time code"} ELSE q.input = "no code"

LoginAsksForCode(r) ==
    /\ requests[r].pc = "login" /\ NeedsCode(requests[r])
    /\ Ends(r)
    /\ UNCHANGED <<account, brake, mistakes>>

LoginFails(r) ==
    LET q == requests[r]
    IN  /\ q.pc = "login" /\ ~Right(q) /\ ~NeedsCode(q)
        /\ account' = Written(OneMore(AsOf(q.row, q.sender)), q.row)
        /\ Errs(q.sender)
        /\ Ends(r)

LoginSucceeds(r) ==
    LET q == requests[r]
        row == [q.row EXCEPT !.failed = 0, !.lock = 0, !.from = NoSender,
                             !.codes = IF q.row.secret THEN @ \ {q.input} ELSE @]
    IN  /\ q.pc = "login" /\ Right(q)
        /\ account' = Written(row, q.row)
        /\ mistakes' = [mistakes EXCEPT ![q.sender] = 0]
        /\ Ends(r)
        /\ UNCHANGED brake

\* -- the second factor; a setup is not stored before a code proves it
Activate ==
    /\ SecondFactor /\ ~account.secret
    /\ OneAtATime => \A q \in Requests : requests[q].pc = "idle"
    /\ \E some \in SUBSET Codes : account' = [account EXCEPT !.secret = TRUE, !.codes = some]
    /\ UNCHANGED <<brake, requests, mistakes>>

\* totp_new_codes and totp_disable check the password, too; reset_totp of an administrator
\* asks for nothing and ends like totp_disable.
FactorReads(r, what) ==
    /\ MayBegin(r)
    /\ account.secret
    /\ requests' = [requests EXCEPT ![r] = [NoRequest EXCEPT !.pc = what]]
    /\ UNCHANGED <<account, brake, mistakes>>

FactorRefused(r) ==
    /\ requests[r].pc \in {"renew", "disable"}
    /\ Ends(r)
    /\ UNCHANGED <<account, brake, mistakes>>

CodesRenewed(r) ==
    /\ requests[r].pc = "renew"
    /\ \E some \in SUBSET Codes : account' = [account EXCEPT !.codes = some]
    /\ Ends(r)
    /\ UNCHANGED <<brake, mistakes>>

Disabled(r) ==
    /\ requests[r].pc = "disable"
    /\ account' = [account EXCEPT !.secret = FALSE, !.codes = {}]
    /\ Ends(r)
    /\ UNCHANGED <<brake, mistakes>>

LoginTick ==
    /\ account.lock > 0 \/ \E s \in Senders : brake[s].left > 0
    /\ account' = [account EXCEPT !.lock = IF @ > 0 THEN @ - 1 ELSE 0]
    /\ brake' = [s \in Senders |-> [brake[s] EXCEPT !.left = IF @ > 0 THEN @ - 1 ELSE 0]]
    /\ UNCHANGED <<requests, mistakes>>

LoginEnds(r) ==
    LoginAsksForCode(r) \/ LoginFails(r) \/ LoginSucceeds(r)
    \/ FactorRefused(r) \/ CodesRenewed(r) \/ Disabled(r)

LoginNext ==
    \/ \E s \in Senders : UnknownName(s)
    \/ \E r \in Requests, s \in Senders, i \in Input : LoginReads(r, s, i)
    \/ \E r \in Requests, what \in {"renew", "disable"} : FactorReads(r, what)
    \/ \E r \in Requests : LoginEnds(r)
    \/ Activate
    \/ LoginTick

LoginSpec == LoginInit /\ [][LoginNext]_loginVars

\* The account is locked for a sender only after this sender has itself made the mistakes
\* that lock it: who errs locks out himself and nobody beside him (the comment in login).
OwnMistakesOnly == \A s \in Senders : LockedFor(s) => mistakes[s] >= LockAfter
=============================================================================
