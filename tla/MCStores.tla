------------------------------- MODULE MCStores -------------------------------
(* Small instances of what is kept of a workspace and put into it, side by side: *)
(* Builds, Backups, Restore, Skeletons, AiTools, Packages, and applications       *)
(* (AppStreams) that are started beside one another.  focus says which of them    *)
(* moves, the others stay as they begin.                                          *)
EXTENDS Builds, Backups, Restore, Skeletons, AiTools, Packages

VARIABLES
    focus,
    status, up, streams, screens, views, pids, watchdogs, calls, misses

appVars == <<status, up, streams, screens, views, pids, watchdogs, calls, misses>>
vars == <<focus, buildVars, backupVars, restoreVars, skeletonVars, toolVars, packageVars, appVars>>

\* Builds: handlers beside one another, by the constants of the configuration; handlers one at
\* a time with a fault.
OneByOne == INSTANCE Builds WITH Versions <- {1, 2}, Threads <- {"x"}, Serial <- TRUE, Calm <- FALSE,
    Cleans <- TRUE, MaxRuns <- 2, MaxFaults <- 1

\* Backups: five days of two hours, by the constants of the configuration; the scheduler and an
\* administrator at the same time.
ByDay == INSTANCE Backups WITH Series <- {"home"}, Scheduler <- "plan", Admins <- {"x"},
    Planned <- 0, Day <- 1, Week <- 1, PlanDays <- {0, 1}, KeepDaily <- 1, KeepWeekly <- 0,
    StaleAfter <- 0, FailedFor <- 1, MaxTime <- 1, MaxRows <- 3, MaxTroubles <- 0

\* Skeletons: a file at the top, of /etc/skel, too, and one in a folder of which the image knows
\* nothing; also with a start or a copy that fails.
FolderOfFile == [f \in {"rc", "conf"} |-> IF f = "conf" THEN "dir" ELSE "~"]
Stumbling == INSTANCE Skeletons WITH MaxEdits <- 1, MaxSlips <- 1

\* AiTools: also with a mistake, and with halts at any time, while nothing is changed.
Mistaken == INSTANCE AiTools WITH MaxChanges <- 1, MaxMistakes <- 1
Halting == INSTANCE AiTools WITH HaltsWait <- FALSE, Releases <- {1}, MaxChanges <- 0, MaxMistakes <- 0

\* Packages: also with a step that fails, and with an own package, while no state is held.
Breaking == INSTANCE Packages WITH MaxSyncs <- 1, MaxBreaks <- 1
Uploading == INSTANCE Packages WITH Names <- {}, Debs <- {"d"}, MaxBreaks <- 1

\* Applications for a display that is fixed and one that is not, with answers that are lost.
Rough == INSTANCE AppStreams WITH Apps <- {"a", "b"}, Routed <- {2, 3},
    Fixed <- [a \in {"a", "b"} |-> IF a = "a" THEN 2 ELSE 0], Selkies <- FALSE,
    Patient <- FALSE, Threads <- {"x"}, MaxRows <- 2, MaxFaults <- 1,
    session <- status, shown <- views, requests <- calls, mishaps <- misses

ASSUME BuildsAssumption /\ OneByOne!BuildsAssumption
ASSUME BackupsAssumption /\ ByDay!BackupsAssumption /\ RestoreAssumption
ASSUME SkeletonsAssumption /\ Stumbling!SkeletonsAssumption
ASSUME AiToolsAssumption /\ Mistaken!AiToolsAssumption /\ Halting!AiToolsAssumption
ASSUME PackagesAssumption /\ Breaking!PackagesAssumption /\ Uploading!PackagesAssumption /\ Rough!AppStreamsAssumption

Init ==
    /\ focus \in {"one by one", "beside", "daily", "weekly", "restoring", "skeleton", "stumbling", "tools",
                 "mistaken", "halting", "packages", "breaking", "uploading", "apps"}
    /\ IF focus = "beside" THEN BuildsInit ELSE OneByOne!BuildsInit
    /\ RestoreInit
    /\ IF focus = "weekly" THEN BackupInit ELSE ByDay!BackupInit
    /\ SkeletonInit /\ (focus \notin {"skeleton", "stumbling"} => tree = {})
    /\ IF focus = "halting" THEN Halting!ToolInit ELSE ToolInit
    /\ PackInit /\ Rough!AppInit
    /\ focus \notin {"tools", "mistaken", "halting"} => told = Nothing /\ newest = told /\ config = told

BuildsStay == UNCHANGED <<focus, backupVars, restoreVars, skeletonVars, toolVars, packageVars, appVars>>
BackupsStay == UNCHANGED <<focus, buildVars, restoreVars, skeletonVars, toolVars, packageVars, appVars>>
RestoreStay == UNCHANGED <<focus, buildVars, backupVars, skeletonVars, toolVars, packageVars, appVars>>
SkeletonsStay == UNCHANGED <<focus, buildVars, backupVars, restoreVars, toolVars, packageVars, appVars>>
ToolsStay == UNCHANGED <<focus, buildVars, backupVars, restoreVars, skeletonVars, packageVars, appVars>>
PackagesStay == UNCHANGED <<focus, buildVars, backupVars, restoreVars, skeletonVars, toolVars, appVars>>
AppsStay ==
    UNCHANGED <<focus, buildVars, backupVars, restoreVars, skeletonVars, toolVars, packageVars>>

Next ==
    \/ focus = "one by one" /\ OneByOne!BuildsNext /\ BuildsStay
    \/ focus = "beside" /\ BuildsNext /\ BuildsStay
    \/ focus = "daily" /\ ByDay!BackupNext /\ BackupsStay
    \/ focus = "weekly" /\ BackupNext /\ BackupsStay
    \/ focus = "restoring" /\ RestoreNext /\ RestoreStay
    \/ focus = "skeleton" /\ SkeletonNext /\ SkeletonsStay
    \/ focus = "stumbling" /\ Stumbling!SkeletonNext /\ SkeletonsStay
    \/ focus = "tools" /\ ToolNext /\ ToolsStay
    \/ focus = "mistaken" /\ Mistaken!ToolNext /\ ToolsStay
    \/ focus = "halting" /\ Halting!ToolNext /\ ToolsStay
    \/ focus = "packages" /\ PackNext /\ PackagesStay
    \/ focus = "breaking" /\ Breaking!PackNext /\ PackagesStay
    \/ focus = "uploading" /\ Uploading!PackNext /\ PackagesStay
    \/ focus = "apps" /\ Rough!AppNext /\ AppsStay

Spec == Init /\ [][Next]_vars

\* The types of the component that moves.
TypeOK ==
    /\ focus = "one by one" => OneByOne!BuildsTypeOK
    /\ focus = "beside" => BuildsTypeOK
    /\ focus = "daily" => ByDay!BackupTypeOK
    /\ focus = "weekly" => BackupTypeOK
    /\ focus = "restoring" => RestoreTypeOK
    /\ focus = "skeleton" => SkeletonTypeOK
    /\ focus = "stumbling" => Stumbling!SkeletonTypeOK
    /\ focus = "tools" => ToolTypeOK
    /\ focus = "mistaken" => Mistaken!ToolTypeOK
    /\ focus = "halting" => Halting!ToolTypeOK
    /\ focus = "packages" => PackTypeOK
    /\ focus = "breaking" => Breaking!PackTypeOK
    /\ focus = "uploading" => Uploading!PackTypeOK
    /\ focus = "apps" => Rough!AppTypeOK

\* Builds: with one handler at a time the API removes no image a template starts from.
ImagesKept == [][focus = "one by one" => OneByOne!SparesImagesInUse]_vars
=============================================================================
