----------------------------- MODULE AppStreams -----------------------------
(***************************************************************************)
(* The applications of one desk.  Each runs on a display of its own in the *)
(* container of the session; table app_streams says which.  A start is a   *)
(* read of the table, a script that opens the display, one that starts the *)
(* application and its watchdog, and a commit.                             *)
(***************************************************************************)
EXTENDS Integers, FiniteSets

CONSTANTS
    Apps,
    Routed,         \* the displays with a route: 2 .. 7
    Fixed,          \* fixed_display of an application, 0 for none
    Selkies,        \* the streaming engine: TRUE for Selkies, FALSE for KasmVNC
    Threads,        \* requests of the user
    \* The user makes one request at a time, two seconds apart, for applications the page
    \* shows; the agent's answers arrive and no display is killed.
    Patient,
    MaxRows, MaxFaults

AppStreamsAssumption ==
    /\ Routed \subseteq Nat \ {0, 1} /\ Routed # {}
    /\ Fixed \in [Apps -> Routed \cup {0, 1}]
    /\ Selkies \in BOOLEAN /\ Patient \in BOOLEAN
    /\ MaxRows \in Nat \ {0} /\ MaxFaults \in Nat

VARIABLES
    session,        \* status of the session
    up,             \* the container runs
    streams,        \* table app_streams
    screens,        \* X sockets: none, alive, or left behind by a dead server
    shown,          \* applications with a window, and where
    pids,           \* the display of the process in the pid file of an application
    watchdogs,      \* loops that keep an application on a display
    requests,       \* what the requests are doing
    mishaps         \* counts faults

appVars == <<session, up, streams, screens, shown, pids, watchdogs, requests, mishaps>>
inside == <<screens, shown, pids, watchdogs>>

Screens == Routed \cup {1}
Rows == 1 .. MaxRows
NoRequest == [pc |-> "idle", app |-> {}, row |-> 0, display |-> 0]

AppTypeOK ==
    /\ session \in {"running", "starting", "halted"}
    /\ up \in BOOLEAN
    /\ streams \subseteq [id : Rows, app : Apps, display : Screens, running : BOOLEAN]
    /\ \A s, r \in streams : s.id = r.id => s = r
    /\ screens \in [Screens -> {"none", "alive", "stale"}]
    /\ shown \subseteq Apps \X Screens
    /\ pids \in [Apps -> Screens \cup {0}]
    /\ watchdogs \subseteq Apps \X Screens
    /\ requests \in [Threads -> [pc : {"idle", "open", "run", "book", "stop", "delete", "halt",
                                       "halted", "resume", "resumed"},
                                 app : {s \in SUBSET Apps : Cardinality(s) <= 1},
                                 row : {0} \cup Rows, display : Screens \cup {0}]]
    /\ mishaps \in 0 .. MaxFaults

AppInit ==
    /\ session = "running" /\ up = TRUE
    /\ streams = {}
    /\ screens = [d \in Screens |-> IF d = 1 THEN "alive" ELSE "none"]
    /\ shown = {} /\ watchdogs = {}
    /\ pids = [a \in Apps |-> 0]
    /\ requests = [t \in Threads |-> NoRequest]
    /\ mishaps = 0

AppsQuiet == \A t \in Threads : requests[t] = NoRequest
\* A watchdog looks every two seconds.
AppsSettled == AppsQuiet /\ \A w \in watchdogs : screens[w[2]] # "none"
MayCall(t) == requests[t] = NoRequest /\ (Patient => AppsSettled)
Turns(t, r) == requests' = [requests EXCEPT ![t] = r]
GoOn(t, pc) == Turns(t, [requests[t] EXCEPT !.pc = pc])
Mishap == mishaps < MaxFaults /\ mishaps' = mishaps + 1

On(d) == {w \in shown : w[2] = d}
Socket(d) == screens[d] # "none"
RowsOf(a) == {s \in streams : s.app = a}

(* start_app.                                                               *)

\* list_displays looks at the sockets only.
Alive(s) == up /\ Socket(s.display)
Taken(a) == {s.display : s \in {s \in streams : s.running /\ s.app # a}}
FreeDisplay(a) == CHOOSE d \in Routed \ Taken(a) : \A e \in Routed \ Taken(a) : d <= e

\* A running application whose display lives is left alone, and a seventh is refused.
StartRead(t, a) ==
    /\ MayCall(t) /\ session = "running"
    /\ \E row \in IF RowsOf(a) = {} THEN {0} ELSE {s.id : s \in RowsOf(a)} :
          /\ \A s \in RowsOf(a) : s.id = row => ~(s.running /\ Alive(s))
          /\ Fixed[a] = 0 => Routed \ Taken(a) # {}
          /\ Turns(t, [pc |-> "open", app |-> {a}, row |-> row,
                      display |-> IF Fixed[a] # 0 THEN Fixed[a] ELSE FreeDisplay(a)])
    /\ UNCHANGED <<session, up, streams, inside, mishaps>>

OpenAnySocket(t) == \* as before 2026-10-07: a socket is enough
    LET d == requests[t].display IN
    /\ requests[t].pc = "open" /\ up
    /\ screens' = [screens EXCEPT ![d] = IF @ = "stale" THEN @ ELSE "alive"]
    /\ GoOn(t, "run")
    /\ UNCHANGED <<session, up, streams, shown, pids, watchdogs, mishaps>>
\* KasmVNC takes a socket for a display; Selkies asks its port and clears the socket away.
StartOpen(t) ==
    LET d == requests[t].display IN
    /\ requests[t].pc = "open" /\ up
    /\ screens' = [screens EXCEPT ![d] = IF @ = "stale" /\ ~Selkies THEN @ ELSE "alive"]
    /\ GoOn(t, "run")
    /\ UNCHANGED <<session, up, streams, shown, pids, watchdogs, mishaps>>

\* On a display that shows a window nothing is started.  On a dead one the application ends
\* at once.
StartRun(t) ==
    LET d == requests[t].display
        a == CHOOSE a \in Apps : requests[t].app = {a} IN
    /\ requests[t].pc = "run" /\ up
    /\ IF On(d) # {} THEN UNCHANGED <<shown, pids, watchdogs>> ELSE
          /\ shown' = IF screens[d] = "alive" THEN shown \cup {<<a, d>>} ELSE shown
          /\ pids' = [pids EXCEPT ![a] = IF screens[d] = "alive" THEN d ELSE 0]
          /\ watchdogs' = watchdogs \cup {<<a, d>>}
    /\ GoOn(t, "book")
    /\ UNCHANGED <<session, up, streams, screens, mishaps>>

StartMisses(t) == \* no container, the display does not come up, or the answer is lost
    /\ \/ requests[t].pc \in {"open", "run"} /\ ~up /\ UNCHANGED mishaps
       \/ requests[t].pc = "open" /\ ~Socket(requests[t].display) /\ Mishap
       \/ requests[t].pc = "book" /\ ~Patient /\ Mishap
    /\ Turns(t, NoRequest)
    /\ UNCHANGED <<session, up, streams, inside>>

\* The row that was read is updated, if it is still there, or a new one inserted.
StartBook(t) ==
    LET r == requests[t]
        new(id) == [id |-> id, app |-> CHOOSE a \in Apps : r.app = {a}, display |-> r.display,
                    running |-> TRUE] IN
    /\ r.pc = "book"
    /\ IF r.row # 0
       THEN streams' = {IF s.id = r.row THEN new(s.id) ELSE s : s \in streams}
       ELSE \E id \in Rows : /\ \A s \in streams : s.id # id
                             /\ \A i \in 1 .. id - 1 : \E s \in streams : s.id = i
                             /\ streams' = streams \cup {new(id)}
    /\ Turns(t, NoRequest)
    /\ UNCHANGED <<session, up, inside, mishaps>>

(* stop_app.                                                                *)

StopRead(t, a) ==
    /\ MayCall(t)
    /\ \E s \in RowsOf(a) :
          /\ Patient => s.running
          /\ Turns(t, [pc |-> "stop", app |-> {a}, row |-> s.id, display |-> s.display])
    /\ UNCHANGED <<session, up, streams, inside, mishaps>>

StopDisplay(t) == \* the X server takes its windows with it; the main display stays
    LET d == requests[t].display IN
    /\ requests[t].pc = "stop"
    /\ IF d = 1 THEN UNCHANGED inside ELSE
          /\ up
          /\ screens' = [screens EXCEPT ![d] = "none"]
          /\ shown' = shown \ On(d)
          /\ UNCHANGED <<pids, watchdogs>>
    /\ GoOn(t, "delete")
    /\ UNCHANGED <<session, up, streams, mishaps>>

StopFails(t) ==
    /\ requests[t].pc = "stop" /\ ~up /\ requests[t].display # 1
    /\ Turns(t, NoRequest)
    /\ UNCHANGED <<session, up, streams, inside, mishaps>>

StopDelete(t) ==
    /\ requests[t].pc = "delete"
    /\ streams' = {s \in streams : s.id # requests[t].row}
    /\ Turns(t, NoRequest)
    /\ UNCHANGED <<session, up, inside, mishaps>>

(* A root desk is halted and resumed: platz_anhalten, _platz_fortsetzen.    *)
(* What lies in /tmp stays, processes do not.                               *)

AllStopped == {[s EXCEPT !.running = FALSE] : s \in streams}

HaltRead(t) ==
    /\ MayCall(t) /\ session = "running"
    /\ Turns(t, [NoRequest EXCEPT !.pc = "halt"])
    /\ UNCHANGED <<session, up, streams, inside, mishaps>>

HaltContainer(t) ==
    /\ requests[t].pc = "halt"
    /\ up' = FALSE
    /\ screens' = [d \in Screens |-> IF Socket(d) THEN "stale" ELSE "none"]
    /\ shown' = {} /\ watchdogs' = {}
    /\ pids' = [a \in Apps |-> 0]
    /\ GoOn(t, "halted")
    /\ UNCHANGED <<session, streams, mishaps>>

HaltBook(t) ==
    /\ requests[t].pc = "halted"
    /\ session' = "halted" /\ streams' = AllStopped
    /\ Turns(t, NoRequest)
    /\ UNCHANGED <<up, inside, mishaps>>

ResumeRead(t) ==
    /\ MayCall(t) /\ session = "halted"
    /\ session' = "starting"
    /\ Turns(t, [NoRequest EXCEPT !.pc = "resume"])
    /\ UNCHANGED <<up, streams, inside, mishaps>>

ResumeContainer(t) == \* the start scripts of the image clear display 1
    /\ requests[t].pc = "resume"
    /\ up' = TRUE
    /\ screens' = [screens EXCEPT ![1] = "alive"]
    /\ GoOn(t, "resumed")
    /\ UNCHANGED <<session, streams, shown, pids, watchdogs, mishaps>>

ResumeBook(t) ==
    /\ requests[t].pc = "resumed"
    /\ session' = "running" /\ streams' = AllStopped
    /\ Turns(t, NoRequest)
    /\ UNCHANGED <<up, inside, mishaps>>

(* The container.                                                           *)

\* The watchdog ends with the socket of its display and restarts an application whose
\* process is gone.
Restarts(w) == Socket(w[2]) /\ <<w[1], pids[w[1]]>> \notin shown /\ screens[w[2]] = "alive"
WatchNoRestart(w) == \* as if the loop ended with the application
    /\ w \in watchdogs
    /\ ~Socket(w[2]) \/ <<w[1], pids[w[1]]>> \notin shown
    /\ watchdogs' = watchdogs \ {w} /\ UNCHANGED <<shown, pids>>
    /\ UNCHANGED <<session, up, streams, screens, requests, mishaps>>
Watch(w) ==
    /\ w \in watchdogs
    /\ \/ ~Socket(w[2]) /\ watchdogs' = watchdogs \ {w} /\ UNCHANGED <<shown, pids>>
       \/ Restarts(w) /\ shown' = shown \cup {w} /\ pids' = [pids EXCEPT ![w[1]] = w[2]]
                      /\ UNCHANGED watchdogs
    /\ UNCHANGED <<session, up, streams, screens, requests, mishaps>>

Close(w) == \* by the user, or a crash
    /\ w \in shown
    /\ shown' = shown \ {w}
    /\ UNCHANGED <<session, up, streams, screens, pids, watchdogs, requests, mishaps>>

\* An X server that ends removes its socket, one that is killed does not.
DisplayDies(d, socket) ==
    /\ screens[d] = "alive" /\ up
    /\ Patient => socket = "none" /\ AppsQuiet
    /\ Mishap
    /\ screens' = [screens EXCEPT ![d] = socket]
    /\ shown' = shown \ On(d)
    /\ UNCHANGED <<session, up, streams, pids, watchdogs, requests>>

Start(t) ==
    \/ \E a \in Apps : StartRead(t, a)
    \/ StartOpen(t) \/ StartRun(t) \/ StartMisses(t) \/ StartBook(t)
Stop(t) ==
    \/ \E a \in Apps : StopRead(t, a)
    \/ StopDisplay(t) \/ StopFails(t) \/ StopDelete(t)
HaltOrResume(t) ==
    \/ HaltRead(t) \/ HaltContainer(t) \/ HaltBook(t)
    \/ ResumeRead(t) \/ ResumeContainer(t) \/ ResumeBook(t)

AppNext ==
    \/ \E t \in Threads : Start(t) \/ Stop(t) \/ HaltOrResume(t)
    \/ \E w \in Apps \X Screens : Watch(w) \/ Close(w)
    \/ \E d \in Routed, socket \in {"none", "stale"} : DisplayDies(d, socket)

\* Watchdogs are polled; a request that has begun goes on.
AppFairness ==
    /\ \A w \in Apps \X Screens : WF_appVars(Watch(w))
    /\ \A t \in Threads : WF_appVars(~MayCall(t) /\ (Start(t) \/ Stop(t) \/ HaltOrResume(t)))

AppSpec == AppInit /\ [][AppNext]_appVars
AppFairSpec == AppSpec /\ AppFairness

\* A user who does one thing after the other finds each application on a display of its own:
\* no two rows of running applications share one, it lives unless it died on its own, and
\* nothing is seen on it but the application of its row (start_app, stop_app, halting).
OwnScreen ==
    AppsSettled =>
        /\ \A r, s \in streams : r.running /\ s.running /\ r # s => r.display # s.display
        /\ \A s \in streams : s.running /\ mishaps = 0 => screens[s.display] = "alive"
        /\ \A w \in shown : \E s \in streams : s.running /\ w = <<s.app, s.display>>

\* An application that a row calls running comes back whenever it is closed or crashes, as
\* long as its display lives (the watchdog of START_APP).
AppComesBack ==
    \A a \in Apps, d \in Routed :
        LET row == \E s \in streams : s.running /\ s.app = a /\ s.display = d IN
        (AppsSettled /\ row /\ screens[d] = "alive") ~>
            (<<a, d>> \in shown \/ ~row \/ screens[d] # "alive")
=============================================================================
