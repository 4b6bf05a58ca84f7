------------------------------ MODULE Backups ------------------------------
(***************************************************************************)
(* Backups.  The scheduler of the API and administrators make runs over    *)
(* all series of archives (a home, a container, the database, OTA-Git, an  *)
(* extension), one after the other.  A row of table backups is committed   *)
(* before the agent writes the archive and again when it answers.  At the  *)
(* end of a run old backups are removed.                                   *)
(***************************************************************************)
EXTENDS Integers, FiniteSets, Sequences

CONSTANTS
    Series,         \* kind and user of the archives
    Scheduler,      \* the task _scheduler
    Admins,        \* requests of administrators
    Planned,        \* hour of the plan, in the units of the clock
    Day, Week,      \* length of a day in units of the clock, of a week in days
    PlanDays,       \* days of the plan (its weekdays)
    KeepDaily, KeepWeekly,
    StaleAfter,     \* two hours, in units of the clock
    FailedFor,      \* thirty days
    MaxTime, MaxRows, MaxTroubles

BackupsAssumption ==
    /\ Scheduler \notin Admins
    /\ Day \in Nat \ {0} /\ Week \in Nat \ {0} /\ Planned \in 0 .. Day - 1
    /\ {KeepDaily, KeepWeekly, StaleAfter, FailedFor, MaxTime, MaxRows, MaxTroubles} \subseteq Nat

VARIABLES
    now,            \* the clock
    backups,        \* table backups, in the order of started_at
    lastRun,        \* last_run_at of the policy, -1 for never
    workers,        \* what the scheduler and the requests are doing
    troubles        \* counts faults

backupVars == <<now, backups, lastRun, workers, troubles>>

Runners == Admins \cup {Scheduler}
Rows == 1 .. MaxRows
\* "undone" is failed as well, but had been ok before; "none" was removed by the retention or had
\* never been ok, "gone" had been and was removed by an administrator, or as failed once undone.
Backup == [series : Series, at : 0 .. MaxTime,
           status : {"running", "ok", "failed", "undone", "none", "gone"}]
AtRest == [pc |-> "idle", todo |-> {}, row |-> 0, marked |-> {}, full |-> FALSE]

BackupTypeOK ==
    /\ now \in 0 .. MaxTime
    /\ backups \in Seq(Backup) /\ Len(backups) <= MaxRows
    /\ lastRun \in -1 .. MaxTime
    /\ workers \in [Runners ->
          [pc : {"idle", "first", "series", "archive", "book", "last", "stale", "retain",
                 "remove", "done"},
           todo : SUBSET Series, row : 0 .. MaxRows, marked : SUBSET Rows, full : BOOLEAN]]
    /\ troubles \in 0 .. MaxTroubles

BackupInit ==
    /\ now = 0
    /\ backups = << >>
    /\ lastRun = -1
    /\ workers = [w \in Runners |-> AtRest]
    /\ troubles = 0

Becomes(w, r) == workers' = [workers EXCEPT ![w] = r]
StepTo(w, pc) == Becomes(w, [workers[w] EXCEPT !.pc = pc])
Rest(w) == Becomes(w, AtRest)
TroubleComes == troubles < MaxTroubles /\ troubles' = troubles + 1

DayOf(t) == t \div Day
WeekOf(i) == DayOf(backups[i].at) \div Week
KnownRows == 1 .. Len(backups)
There(i) == backups[i].status \notin {"none", "gone"}
Good(i) == backups[i].status \in {"ok", "undone", "gone"}       \* or was good when it went
With(is, status) == [i \in KnownRows |-> IF i \in is THEN [backups[i] EXCEPT !.status = status] ELSE backups[i]]
Removed(i) == [backups[i] EXCEPT !.status = IF Good(i) THEN "gone" ELSE "none"]
OkOrRunning(s) == {i \in KnownRows : backups[i].series = s /\ backups[i].status \in {"ok", "running"}}
OkRows(s) == {i \in KnownRows : backups[i].series = s /\ backups[i].status = "ok"}

\* _backup_due: the run of today counts as done when one ended after its time.
RunDue ==
    LET planned == DayOf(now) * Day + Planned IN
    /\ DayOf(now) \in PlanDays
    /\ now >= planned
    /\ lastRun < planned

(* run_scheduled, by the scheduler or by hand; a run by hand may also make  *)
(* one backup only and then removes nothing.                                *)

RunBegins(w, full, todo) ==
    /\ workers[w].pc = "idle"
    /\ IF w = Scheduler THEN full /\ RunDue ELSE Len(backups) < MaxRows
    /\ todo # {} /\ (full => todo = Series)
    /\ Becomes(w, [AtRest EXCEPT !.pc = IF full THEN "first" ELSE "series", !.todo = todo, !.full = full])
    /\ UNCHANGED <<now, backups, lastRun, troubles>>

Insert(w, s) ==
    /\ workers[w].pc = "series" /\ s \in workers[w].todo
    /\ Len(backups) < MaxRows
    /\ backups' = Append(backups, [series |-> s, status |-> "running", at |-> now])
    /\ Becomes(w, [workers[w] EXCEPT !.pc = "archive", !.todo = @ \ {s}, !.row = Len(backups) + 1])
    /\ UNCHANGED <<now, lastRun, troubles>>

Archive(w) == \* the agent writes the archive
    /\ workers[w].pc = "archive"
    /\ StepTo(w, "book")
    /\ UNCHANGED <<now, backups, lastRun, troubles>>

\* The result is written to the row; when an administrator has removed it meanwhile, that
\* fails and ends the run.
Book(w, status) ==
    LET i == workers[w].row IN
    /\ \/ workers[w].pc = "book" /\ status = "ok"
       \/ workers[w].pc = "archive" /\ status \in {"failed", "none"}  \* none: there is no home yet
    /\ IF There(i) \/ status = "none"
       THEN /\ backups' = With({i}, status)
            /\ Becomes(w, [workers[w] EXCEPT !.pc = "series", !.row = 0])
       ELSE /\ UNCHANGED backups
            /\ Rest(w)
    /\ UNCHANGED <<now, lastRun, troubles>>

AnswerLost(w) == \* the archive is written, the row fails without a path
    /\ workers[w].pc = "book" /\ There(workers[w].row)
    /\ TroubleComes
    /\ backups' = With({workers[w].row}, "failed")
    /\ Becomes(w, [workers[w] EXCEPT !.pc = "series", !.row = 0])
    /\ UNCHANGED <<now, lastRun>>

SeriesDone(w) ==
    /\ workers[w].pc = "series" /\ workers[w].todo = {}
    /\ IF workers[w].full THEN StepTo(w, "last") ELSE Rest(w)
    /\ UNCHANGED <<now, backups, lastRun, troubles>>

(* close_stale: at the beginning of a run, before the retention, and when   *)
(* an administrator looks at the list.                                      *)

StaleRead(w) ==
    /\ \/ workers[w].pc \in {"first", "last"}
       \/ w # Scheduler /\ workers[w].pc = "idle"
    /\ LET stale == {i \in KnownRows : backups[i].status = "running" /\ backups[i].at + StaleAfter < now} IN
       Becomes(w, [workers[w] EXCEPT !.marked = stale,
                                  !.pc = IF stale # {} THEN "stale"
                                         ELSE CASE @ = "first" -> "series" [] @ = "last" -> "retain"
                                                [] OTHER -> "idle"])
    /\ workers'[w] # workers[w]
    /\ UNCHANGED <<now, backups, lastRun, troubles>>

StaleCommit(w) ==
    LET act == workers[w] IN
    /\ act.pc = "stale"
    /\ IF \A i \in act.marked : There(i)
       THEN /\ backups' = [i \in KnownRows |-> IF i \notin act.marked THEN backups[i] ELSE
                                 [backups[i] EXCEPT !.status = IF Good(i) THEN "undone" ELSE "failed"]]
            /\ Becomes(w, [act EXCEPT !.marked = {}, !.pc = IF ~act.full THEN "idle"
                                                         ELSE IF act.todo = {} THEN "retain"
                                                         ELSE "series"])
       ELSE /\ UNCHANGED backups
            /\ Rest(w)
    /\ UNCHANGED <<now, lastRun, troubles>>

(* apply_retention.                                                         *)

Newer(i, rows) == {j \in rows : j > i}
Daily(rows) == {i \in rows : Cardinality(Newer(i, rows)) < KeepDaily}
\* Of the older ones the newest of each of the first KeepWeekly weeks.
Weekly(older) ==
    {i \in older : /\ \A j \in Newer(i, older) : WeekOf(j) # WeekOf(i)
                   /\ Cardinality({WeekOf(j) : j \in Newer(i, older)}) < KeepWeekly}
Superfluous(rows) == LET older == rows \ Daily(rows) IN older \ Weekly(older)

RetainRead(w) ==
    /\ workers[w].pc = "retain"
    /\ Becomes(w, [workers[w] EXCEPT !.pc = "remove",
                                  !.marked = UNION {Superfluous(OkRows(s)) : s \in Series}])
    /\ UNCHANGED <<now, backups, lastRun, troubles>>

RetainCommit(w) == \* after the calls that remove the archives, successful or not
    LET act == workers[w]
        failed == {i \in KnownRows : backups[i].status \in {"failed", "undone"} /\ backups[i].at + FailedFor < now} IN
    /\ act.pc = "remove"
    /\ backups' = [i \in KnownRows |->
           IF There(i) /\ i \in act.marked THEN [backups[i] EXCEPT !.status = "none"]
           ELSE IF i \in failed THEN Removed(i) ELSE backups[i]]
    /\ Becomes(w, [act EXCEPT !.pc = "done", !.marked = {}])
    /\ UNCHANGED <<now, lastRun, troubles>>

Finish(w) ==
    /\ workers[w].pc = "done"
    /\ lastRun' = now
    /\ Rest(w)
    /\ UNCHANGED <<now, backups, troubles>>

DeleteBackup(i) == \* delete_backup, of any row
    /\ There(i)
    /\ backups' = [backups EXCEPT ![i] = Removed(i)]
    /\ UNCHANGED <<now, lastRun, workers, troubles>>

ServiceRestarts == \* a run that is cut off leaves its row running
    /\ TroubleComes
    /\ workers' = [w \in Runners |-> AtRest]
    /\ UNCHANGED <<now, backups, lastRun>>

Tick ==
    /\ now < MaxTime
    /\ now' = now + 1
    /\ UNCHANGED <<backups, lastRun, workers, troubles>>

Run(w) ==
    \/ \E full \in BOOLEAN, todo \in SUBSET Series : RunBegins(w, full, todo)
    \/ \E s \in Series : Insert(w, s)
    \/ Archive(w) \/ AnswerLost(w)
    \/ \E status \in {"ok", "failed", "none"} : Book(w, status)
    \/ SeriesDone(w) \/ Finish(w)
Retain(w) ==
    \/ StaleRead(w) \/ StaleCommit(w)
    \/ RetainRead(w) \/ RetainCommit(w)

BackupNext ==
    \/ \E w \in Runners : Run(w) \/ Retain(w)
    \/ \E i \in KnownRows : DeleteBackup(i)
    \/ ServiceRestarts
    \/ Tick

BackupSpec == BackupInit /\ [][BackupNext]_backupVars

(* What the retention promises.                                             *)

Retired(s) == {i \in KnownRows : /\ backups[i].series = s /\ backups[i].status = "ok"
                            /\ backups'[i].status = "none"}
Counted(s) == {i \in KnownRows : backups[i].series = s /\ Good(i)'}

\* A good backup is retired only for KeepDaily newer good ones of its series, never for runs
\* that hang (apply_retention).  Good counts what was good when an administrator removed it, and
\* what close_stale has read as running and overwrites although its run has ended meanwhile.
RetiresForDays ==
    \A s \in Series : \A i \in Retired(s) :
        Cardinality({j \in Counted(s) : j > i}) >= KeepDaily

\* And beyond those a week loses its last good backup only when KeepWeekly newer weeks have one.
RetiresForWeeks ==
    \A s \in Series : \A i \in Retired(s) :
        LET older == {j \in Counted(s) : Cardinality({k \in Counted(s) : k > j}) >= KeepDaily} IN
        \/ \E j \in Counted(s) : WeekOf(j) = WeekOf(i)
        \/ Cardinality({WeekOf(j) : j \in {j \in older : j > i}}) >= KeepWeekly

\* Whatever runs at the same time, is repeated or cut off, the retention leaves every series
\* the backups its policy names: so many of the newest, and one of so many weeks before them.
KeepsEnough == [][RetiresForDays /\ RetiresForWeeks]_backupVars
=============================================================================
