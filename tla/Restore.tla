------------------------------ MODULE Restore ------------------------------
(***************************************************************************)
(* Restoring the home of one user from an archive.  The API refuses while  *)
(* the user has a live session; the agent then moves the home aside, makes *)
(* a new one and unpacks the archive into it, each by the name of the      *)
(* directory.  A session keeps the directory it was started with, whatever *)
(* its name becomes.                                                       *)
(***************************************************************************)
EXTENDS Naturals

CONSTANTS
    Requests,       \* requests to restore, each with a thread of the agent
    InTurn,         \* whether sessions and restores come one at a time
    MaxDirs,        \* bound on directories that are ever made
    MaxCrashes      \* bound on restarts of the agent

RestoreAssumption == InTurn \in BOOLEAN /\ MaxDirs \in Nat \ {0} /\ MaxCrashes \in Nat

VARIABLES
    dirs,           \* what is in a directory
    home,           \* the directory that has the name of the home, 0 for none
    restores,       \* what each request is doing
    session,        \* the session of the user
    crashes

restoreVars == <<dirs, home, restores, session, crashes>>

Dirs == 1 .. MaxDirs
NoRestore == [pc |-> "idle", aside |-> 0]
NoSession == [live |-> FALSE, dir |-> 0]

RestoreTypeOK ==
    \* "own" holds work of the user; "mixed" too, but with an archive unpacked over it
    /\ dirs \in [Dirs -> {"unused", "own", "filling", "restored", "mixed", "deleted"}]
    /\ home \in 0 .. MaxDirs
    /\ restores \in [Requests -> [pc : {"idle", "agent", "empty", "unpack", "failed", "back"},
                                  aside : 0 .. MaxDirs]]
    /\ session \in [live : BOOLEAN, dir : 0 .. MaxDirs]
    /\ crashes \in 0 .. MaxCrashes

RestoreInit ==
    /\ dirs = [d \in Dirs |-> IF d = 1 THEN "own" ELSE "unused"]
    /\ home = 1
    /\ restores = [r \in Requests |-> NoRestore]
    /\ session = NoSession
    /\ crashes = 0

Turn(r, restore) == restores' = [restores EXCEPT ![r] = restore]
Goto(r, pc) == Turn(r, [restores[r] EXCEPT !.pc = pc])
At(r, pc) == restores[r].pc = pc
AllIdle == \A r \in Requests : At(r, "idle")
New(d) == dirs[d] = "unused" /\ \A e \in Dirs : e < d => dirs[e] # "unused"

(* restore, and restore_profile in the agent.                               *)

Check(r) ==
    /\ At(r, "idle") /\ (InTurn => AllIdle)
    /\ ~session.live
    /\ Goto(r, "agent")
    /\ UNCHANGED <<dirs, home, session, crashes>>

KeepNothingAside(r) == \* as if the archive were unpacked over the home
    /\ At(r, "agent")
    /\ Goto(r, "empty")
    /\ UNCHANGED <<dirs, home, session, crashes>>

MoveAside(r) ==
    /\ At(r, "agent")
    /\ Turn(r, [pc |-> "empty", aside |-> home])
    /\ home' = 0
    /\ UNCHANGED <<dirs, session, crashes>>

MakeDir(r, d) == \* mkdir with exist_ok
    /\ At(r, "empty")
    /\ IF home = 0
       THEN New(d) /\ home' = d /\ dirs' = [dirs EXCEPT ![d] = "filling"]
       ELSE UNCHANGED <<home, dirs>>
    /\ Goto(r, "unpack")
    /\ UNCHANGED <<session, crashes>>

Unpacked(r) == \* into the directory that has the name now
    /\ At(r, "unpack")
    /\ home # 0
    /\ dirs' = [dirs EXCEPT ![home] = IF @ \in {"own", "mixed"} THEN "mixed" ELSE "restored"]
    /\ Turn(r, NoRestore)
    /\ UNCHANGED <<home, session, crashes>>

UnpackFails(r) == \* rmtree of the name
    /\ At(r, "unpack")
    /\ dirs' = IF home = 0 THEN dirs ELSE [dirs EXCEPT ![home] = "deleted"]
    /\ home' = 0
    /\ Goto(r, "back")
    /\ UNCHANGED <<session, crashes>>

PutBack(r) == \* rename fails when a directory has the name already
    /\ At(r, "back")
    /\ home' = IF home = 0 THEN restores[r].aside ELSE home
    /\ Turn(r, NoRestore)
    /\ UNCHANGED <<dirs, session, crashes>>

AgentRestarts ==
    /\ crashes < MaxCrashes
    /\ crashes' = crashes + 1
    /\ restores' = [r \in Requests |-> IF At(r, "idle") THEN restores[r] ELSE NoRestore]
    /\ UNCHANGED <<dirs, home, session>>

(* The session of the user: its row first, then its container with the home *)

StartSession ==
    /\ ~session.live /\ (InTurn => AllIdle)
    /\ session' = [session EXCEPT !.live = TRUE]
    /\ UNCHANGED <<dirs, home, restores, crashes>>

Mount(d) ==
    /\ session.live /\ session.dir = 0
    /\ IF home = 0
       THEN New(d) /\ home' = d /\ dirs' = [dirs EXCEPT ![d] = "restored"]
       ELSE d = home /\ UNCHANGED <<home, dirs>>
    /\ session' = [session EXCEPT !.dir = d]
    /\ UNCHANGED <<restores, crashes>>

Work ==
    /\ session.dir # 0 /\ dirs[session.dir] \in {"restored", "filling"}
    /\ dirs' = [dirs EXCEPT ![session.dir] = "own"]
    /\ UNCHANGED <<home, restores, session, crashes>>

EndSession ==
    /\ session.live
    /\ session' = NoSession
    /\ UNCHANGED <<dirs, home, restores, crashes>>

RestoreNext ==
    \/ \E r \in Requests : Check(r) \/ MoveAside(r) \/ Unpacked(r) \/ UnpackFails(r) \/ PutBack(r)
    \/ \E r \in Requests, d \in Dirs : MakeDir(r, d)
    \/ AgentRestarts
    \/ StartSession \/ Work \/ EndSession \/ \E d \in Dirs : Mount(d)

RestoreSpec == RestoreInit /\ [][RestoreNext]_restoreVars

\* A directory with work of the user stays as it is, under its name or aside, whatever fails:
\* "Eine Wiederherstellung, die im Fehlerfall nichts uebriglaesst, ist keine" (restore_profile).
KeepsWork == \A d \in Dirs : dirs[d] = "own" => dirs'[d] = "own"
OldStateKept == [][KeepsWork]_restoreVars
=============================================================================
