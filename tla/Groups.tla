-------------------------------- MODULE Groups --------------------------------
(***************************************************************************)
(* Who is in a group of OTA, and why (verzeichnis.py): by hand, or because *)
(* the directory says so.  One group, coupled to one group of the          *)
(* directory; rows of other groups are written apart from each other.      *)
(* Three transactions write its rows: an edit of an account, a sign-in,    *)
(* and the run over all accounts.  Each reads what is committed, waits for *)
(* rows another one has written, and then writes what it decided before.   *)
(***************************************************************************)
EXTENDS Integers, FiniteSets

CONSTANTS
    Members,      \* accounts that Keycloak knows; not the emergency account
    NoMember,
    Beside,     \* transactions may overlap
    MaxMisses   \* answers of Keycloak that get lost

GroupsAssumption == NoMember \notin Members /\ Beside \in BOOLEAN /\ MaxMisses \in Nat

Writers == {"edit", "signin", "run"}
Halves == {"hand", "directory"}
HalfOf(t) == IF t = "edit" THEN "hand" ELSE "directory"

VARIABLES
    rows,       \* table group_members: [there, from], from the halves that are TRUE
    directory,  \* "in" and "out": has the account, in its group or not; "off": locked; "gone"
    coupled,    \* group_directory_links
    active,     \* users.is_active
    central,    \* accounts with the group /ota/<group> in Keycloak
    missed,     \* accounts whose last transfer to Keycloak failed
    jobs,       \* the three transactions
    misses

groupVars == <<rows, directory, coupled, active, central, missed, jobs, misses>>

NoRow == [there |-> FALSE, from |-> {}]
AtRest == [pc |-> "idle", left |-> {}, want |-> {}, out |-> {}, on |-> {}, stuck |-> NoMember,
         plan |-> [u \in Members |-> "none"]]

Job == [pc : {"idle", "read", "write"}, left : SUBSET Members, want : SUBSET Members,
        out : SUBSET Members, on : SUBSET Members, stuck : Members \cup {NoMember},
        plan : [Members -> {"none", "insert", "set", "clear", "delete"}]]

GroupsTypeOK ==
    /\ rows \in [Members -> [there : BOOLEAN, from : SUBSET Halves]]
    /\ directory \in [Members -> {"in", "out", "off", "gone"}]
    /\ coupled \in BOOLEAN /\ active \in [Members -> BOOLEAN]
    /\ central \subseteq Members /\ missed \subseteq Members
    /\ jobs \in [Writers -> Job]
    /\ misses \in 0 .. MaxMisses

GroupsInit ==
    /\ rows = [u \in Members |-> NoRow]
    /\ directory \in [Members -> {"in", "out"}]
    /\ coupled = TRUE /\ active = [u \in Members |-> TRUE]
    /\ central = {} /\ missed = {} /\ misses = 0
    /\ jobs = [t \in Writers |-> AtRest]

\* -- one row of one account: hand_setzen, verzeichnis_setzen
Decide(half, wanted, row) ==
    CASE wanted /\ ~row.there -> "insert"
      [] wanted /\ row.there /\ half \notin row.from -> "set"
      [] ~wanted /\ half \in row.from /\ row.from # {half} -> "clear"
      [] ~wanted /\ row.from = {half} -> "delete"
      [] ~wanted /\ row.there /\ row.from = {} /\ half = "hand" -> "delete"
      [] OTHER -> "none"

\* The statement, when it runs at last.  To update a row that is gone, or to insert one that is
\* there, is an error that ends the transaction.
Runs(plan, row) == plan \in {"set", "clear"} => row.there
Inserts(plan, row) == plan = "insert" => ~row.there
RowAfter(half, plan, row) ==
    CASE plan = "insert" -> [there |-> TRUE, from |-> {half}]
      [] plan = "set" -> [row EXCEPT !.from = @ \cup {half}]
      [] plan = "clear" -> [row EXCEPT !.from = @ \ {half}]
      [] plan = "delete" -> NoRow
      [] OTHER -> row

HoldsRow(t, u) == jobs[t].plan[u] # "none" /\ jobs[t].stuck # u
HeldByOther(t, u) == \E o \in Writers \ {t} : HoldsRow(o, u)
MayStart(t) ==
    /\ jobs[t].pc = "idle"
    /\ Beside \/ \A o \in Writers : jobs[o].pc = "idle"

\* nach_keycloak: after an edit always, otherwise when a membership came or went.
TransferDueIfMore(t, u, plan) == t = "edit" \/ plan = "insert" \/ u \in jobs[t].out
TransferDue(t, u, plan) == t = "edit" \/ plan \in {"insert", "delete"} \/ u \in jobs[t].out
Transfer(t, u, plan) ==
    LET in == RowAfter(HalfOf(t), plan, rows[u]).there
    IN  IF ~TransferDue(t, u, plan) THEN UNCHANGED <<central, missed, misses>>
        ELSE \/ /\ central' = IF in THEN central \cup {u} ELSE central \ {u}
                /\ missed' = missed \ {u}
                /\ UNCHANGED misses
             \/ /\ misses < MaxMisses /\ misses' = misses + 1
                /\ missed' = missed \cup {u}
                /\ UNCHANGED central

\* -- the transactions begin
Does(t, job) == jobs' = [jobs EXCEPT ![t] = job]
EditBegins(u, wanted, enable) == \* update_user; a form says whether the account is active
    /\ MayStart("edit")
    /\ Does("edit", [AtRest EXCEPT !.pc = "write", !.left = {u}, !.want = IF wanted THEN {u} ELSE {},
                         !.out = IF enable THEN {} ELSE {u}, !.on = IF enable THEN {u} ELSE {}])
    /\ UNCHANGED <<rows, directory, coupled, active, central, missed, misses>>

SignInBegins(u) == \* bei_anmeldung; when the directory does not answer, nothing happens
    /\ MayStart("signin")
    /\ active[u] /\ directory[u] \in {"in", "out"}
    /\ Does("signin", [AtRest EXCEPT !.pc = "write", !.left = {u},
                           !.want = IF coupled /\ directory[u] = "in" THEN {u} ELSE {}])
    /\ UNCHANGED <<rows, directory, coupled, active, central, missed, misses>>

RunAsks == \* abgleichen: one at a time; the members of the coupled groups
    /\ MayStart("run")
    /\ Does("run", [AtRest EXCEPT !.pc = "read",
                        !.want = {u \in Members : coupled /\ directory[u] = "in"}])
    /\ UNCHANGED <<rows, directory, coupled, active, central, missed, misses>>

\* Who is missing; a run that would lock out more than half of them stops.
Listed == {u \in Members : active[u] /\ (directory[u] # "gone" \/ "directory" \in rows[u].from)}
Missing == {u \in Listed : directory[u] \in {"off", "gone"}}
RunCounts ==
    /\ jobs["run"].pc = "read"
    /\ Does("run", IF 2 * Cardinality(Missing) > Cardinality(Listed) THEN AtRest
                    ELSE [jobs["run"] EXCEPT !.pc = "write", !.left = Members, !.out = Missing])
    /\ UNCHANGED <<rows, directory, coupled, active, central, missed, misses>>

\* -- they write, wait, fail and commit
Planned(t, u, plan) == [jobs[t] EXCEPT !.plan = [@ EXCEPT ![u] = plan]]

Writes(t, u) ==
    LET plan == Decide(HalfOf(t), u \in jobs[t].want, rows[u])
    IN  /\ jobs[t].pc = "write" /\ jobs[t].stuck = NoMember /\ u \in jobs[t].left
        /\ IF plan # "none" /\ HeldByOther(t, u)
           THEN /\ Does(t, [Planned(t, u, plan) EXCEPT !.stuck = u])
                /\ UNCHANGED <<central, missed, misses>>
           ELSE /\ Does(t, [Planned(t, u, plan) EXCEPT !.left = @ \ {u}])
                /\ Transfer(t, u, plan)
        /\ UNCHANGED <<rows, directory, coupled, active>>

Resumes(t) ==
    LET u == jobs[t].stuck
        plan == jobs[t].plan[u]
    IN  /\ u # NoMember /\ ~HeldByOther(t, u)
        /\ IF Runs(plan, rows[u]) /\ Inserts(plan, rows[u])
           THEN /\ Does(t, [jobs[t] EXCEPT !.left = @ \ {u}, !.stuck = NoMember])
                /\ Transfer(t, u, plan)
           ELSE /\ Does(t, AtRest)
                /\ UNCHANGED <<central, missed, misses>>
        /\ UNCHANGED <<rows, directory, coupled, active>>

WorkCommits(t) ==
    /\ jobs[t].pc = "write" /\ jobs[t].left = {}
    /\ rows' = [u \in Members |-> RowAfter(HalfOf(t), jobs[t].plan[u], rows[u])]
    /\ active' = [u \in Members |-> u \notin jobs[t].out /\ (active[u] \/ u \in jobs[t].on)]
    /\ Does(t, AtRest)
    /\ UNCHANGED <<directory, coupled, central, missed, misses>>

\* -- outside: the directory, and the administration that couples the group
DirectoryChanges(u, d) ==
    /\ directory' = [directory EXCEPT ![u] = d]
    /\ UNCHANGED <<rows, coupled, active, central, missed, jobs, misses>>

Couples ==
    /\ coupled' = ~coupled
    /\ UNCHANGED <<rows, directory, active, central, missed, jobs, misses>>

GroupsNext ==
    \/ \E u \in Members, wanted \in BOOLEAN, enable \in BOOLEAN : EditBegins(u, wanted, enable)
    \/ \E u \in Members : SignInBegins(u)
    \/ RunAsks \/ RunCounts
    \/ \E t \in Writers, u \in Members : Writes(t, u)
    \/ \E t \in Writers : Resumes(t) \/ WorkCommits(t)
    \/ \E u \in Members, d \in {"in", "out", "off", "gone"} : DirectoryChanges(u, d)
    \/ Couples

GroupsSpec == GroupsInit /\ [][GroupsNext]_groupVars

\* The run and the sign-in touch only the half that comes from the directory, the
\* administration only its own: neither takes a group that the other one gives (models.py,
\* GroupMember).
By(half, u) == \E t \in Writers : HalfOf(t) = half /\ WorkCommits(t) /\ jobs[t].plan[u] # "none"
KeepsHalvesApart ==
    \A u \in Members, half \in Halves :
        (half \in rows[u].from) # (half \in rows'[u].from) => By(half, u)

\* Beside one another, too, neither side gives what only the other one may give.
GivesApart ==
    \A u \in Members : \A half \in rows'[u].from \ rows[u].from : By(half, u)

\* When nobody writes, the applications that read the groups in Keycloak see the members that
\* OTA has, unless Keycloak missed the last transfer (nach_keycloak).
CentralAgrees ==
    (\A t \in Writers : jobs[t].pc = "idle") =>
        \A u \in Members \ missed : u \in central <=> rows[u].there

\* With one transaction at a time both hold.
GroupsAgree == KeepsHalvesApart /\ CentralAgrees'
=============================================================================
