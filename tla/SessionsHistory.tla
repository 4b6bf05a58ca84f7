---------------------------- MODULE SessionsHistory ----------------------------
(* Sessions with two history variables about the pass of the reaper that is     *)
(* under way.  They record what the pass could have known and change nothing.   *)
EXTENDS Sessions

VARIABLES
    quiet,      \* rows that are live, or angehalten with the same container,
                \* ever since the pass began
    halted      \* containers whose row was angehalten when the pass began

hvars == <<vars, quiet, halted>>

Unchanged(s) ==
    \/ IsLive(s) /\ IsLive(s)'
    \/ /\ rows[s].status = "angehalten" /\ rows'[s].status = "angehalten"
       /\ rows'[s].container = rows[s].container

HaltedRows == {s \in Sessions : rows[s].status = "angehalten"}

Record ==
    IF reaper'.pc = "asleep" THEN quiet' = {} /\ halted' = {}
    ELSE IF reaper.pc = "asleep"
         THEN /\ quiet' = {s \in Sessions : Listed(s)}
              /\ halted' = {rows[s].container : s \in HaltedRows} \ {None}
         ELSE /\ quiet' = {s \in quiet : Unchanged(s)}
              /\ UNCHANGED halted

HInit == Init /\ quiet = {} /\ halted = {}
HNext == Next /\ Record
HSpec == HInit /\ [][HNext]_hvars

\* The reaper removes no container of a session that was live before its pass
\* began and has been since, nor the one of a place that has been angehalten all
\* the while: a start that is committed is safe from every later pass, though
\* its row does not name the container yet (known_sessions, keep_stopped).
Protected(c) ==
    LET s == containers[c].session IN
    s \in quiet /\ (IsLive(s) \/ rows[s].container = c)

ReaperSparesQuiet ==
    [][\A c \in Containers : ReaperRemoves(c) => ~Protected(c)]_hvars

\* The reaper does not remove the container of a place that was angehalten when
\* its pass began ("Ihr Container ist der Zustand", keep_stopped).
PlaceSurvivesPass ==
    [][\A c \in Containers : ReaperRemoves(c) => c \notin halted]_hvars
=============================================================================
