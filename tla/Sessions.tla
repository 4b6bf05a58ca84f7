------------------------------ MODULE Sessions ------------------------------
(***************************************************************************)
(* The life of a workspace session of OpenTerminalApps: the rows of the    *)
(* table `sessions', the Docker containers the agent keeps for them, the   *)
(* request handlers of the API that run concurrently in its thread pool,   *)
(* and the reaper (api/ota/main.py, _reap_once) that closes dead and idle  *)
(* sessions and removes containers nobody owns.                            *)
(*                                                                         *)
(* Grain of atomicity.  A step ends at every commit, at every effect of    *)
(* the agent on Docker, and wherever a handler waits for the agent.        *)
(* Between two such points a handler runs Python only, and its reads are   *)
(* taken together.  Every object a handler has loaded stays in its ORM     *)
(* session (expire_on_commit=False, autoflush=False) and is never read     *)
(* again, and a commit writes only the columns whose value the handler has *)
(* changed: Written below.                                                 *)
(*                                                                         *)
(* Session and container ids are unique in the program.  A closed row or a *)
(* removed container nobody refers to any more stands for an unused id.    *)
(***************************************************************************)
EXTENDS Naturals, FiniteSets

CONSTANTS
    Sessions,       \* ids of session rows
    Containers,     \* ids of Docker containers
    Threads,        \* worker threads of the API
    Places,         \* pairs of a user and a template
    Class,          \* the class of a place's template: "standard" or "root"
    Owner,          \* the user of a place
    Home,           \* its profile directory, or None
    IdleAction,     \* template.idle_action, "never" for idle_minutes >= 100000
    Busy,           \* places whose template has a queued or running build
    SessionLimit,   \* settings().session_limit_per_user
    Handlers,       \* the handlers that users and administrators call; "unlisted"
                    \* when also for rows that list_sessions does not show
    MaxCrashes,     \* bound on the crashes of the API process
    None            \* no container, no session, no place

ASSUME ConstantsAssumption ==
    /\ None \notin Sessions \cup Containers \cup Places
    /\ Class \in [Places -> {"standard", "root"}]
    /\ IdleAction \in [Places -> {"stop", "pause", "delete", "never"}]
    /\ MaxCrashes \in Nat

VARIABLES
    rows,           \* the committed rows of the table sessions
    containers,     \* Docker: state and label ota.session_id of a container
    requests,       \* what each API thread is doing
    lateStarts,     \* sessions the agent still starts after the API gave up
    reaper,         \* the pass of the reaper
    crashes         \* number of API crashes so far

vars == <<rows, containers, requests, lateStarts, reaper, crashes>>

Live == {"starting", "running", "paused"}
Status == Live \cup {"none", "stopped", "failed", "angehalten"}

\* What a loaded ORM object says about the columns that handlers write.
View == [status : Status, container : Containers \cup {None}]
NoView == [status |-> "none", container |-> None]
ViewOf(s) == [status |-> rows[s].status, container |-> rows[s].container]

\* The row after a handler that had read `read' commits `new'.
Written(row, read, new) ==
    [row EXCEPT !.status = IF new.status = read.status THEN @ ELSE new.status,
                !.container = IF new.container = read.container THEN @
                              ELSE new.container]

Exists(c) == containers[c].state # "gone"
Runs(c) == containers[c].state \in {"running", "paused"}
Named(c, s) == Exists(c) /\ containers[c].session = s

Idle == [pc |-> "idle", place |-> None, session |-> None,
         read |-> NoView, new |-> NoView, container |-> None]
Nothing == [s \in Sessions |-> NoView]
Asleep == [pc |-> "asleep", read |-> Nothing, new |-> Nothing, todo |-> {},
           idle |-> {}, heard |-> {}, keep |-> {}, orphans |-> {}]
Gone == [state |-> "gone", session |-> None]

Pcs == {"idle", "close", "limit", "create", "agent", "setup", "resume", "resuming",
        "resumed", "pause", "unpause", "start", "stop", "remove", "book"}
Steps == {"asleep", "rows", "halt", "list", "remove"}

Row == [place : Places \cup {None}, status : Status, container : Containers \cup {None}]
Container == [state : {"gone", "running", "paused", "exited"}, session : Sessions \cup {None}]
Request == [pc : Pcs, place : Places \cup {None}, session : Sessions \cup {None},
            read : View, new : View, container : Containers \cup {None}]
Pass == [pc : Steps, read : [Sessions -> View], new : [Sessions -> View],
         todo : SUBSET Sessions, idle : SUBSET Sessions, heard : SUBSET Sessions,
         keep : SUBSET Containers, orphans : SUBSET Containers]

\* Every view of a row, every id that a request or a pass holds has its type.
TypeOK ==
    /\ rows \in [Sessions -> Row]
    /\ containers \in [Containers -> Container]
    /\ requests \in [Threads -> Request]
    /\ lateStarts \in SUBSET Sessions
    /\ reaper \in Pass
    /\ crashes \in 0 .. MaxCrashes

Init ==
    /\ rows = [s \in Sessions |->
                 [place |-> None, status |-> "none", container |-> None]]
    /\ containers = [c \in Containers |-> Gone]
    /\ requests = [t \in Threads |-> Idle]
    /\ lateStarts = {}
    /\ reaper = Asleep
    /\ crashes = 0

IsLive(s) == rows[s].status \in Live
IsRoot(s) == rows[s].place # None /\ Class[rows[s].place] = "root"
Snapshot == {s \in Sessions : reaper.read[s] # NoView}
LiveOf(u) == {s \in Sessions : IsLive(s) /\ Owner[rows[s].place] = u}

\* An id no row, request or pass refers to: a new one.
UnusedContainer(c) ==
    /\ ~Exists(c)
    /\ \A s \in Sessions : c \notin {rows[s].container, reaper.read[s].container,
                                     reaper.new[s].container}
    /\ \A t \in Threads : c \notin {requests[t].container, requests[t].read.container,
                                    requests[t].new.container}
    /\ c \notin reaper.keep \cup reaper.orphans
UnusedSession(s) ==
    /\ rows[s].status \in {"none", "stopped", "failed"}
    /\ \A c \in Containers : ~Named(c, s)
    /\ \A t \in Threads : requests[t].session # s
    /\ s \notin lateStarts \cup Snapshot

-----------------------------------------------------------------------------
(* The steps of a request thread t.                                        *)

Goto(t, pc, s, read) ==
    requests' = [requests EXCEPT ![t] =
        [Idle EXCEPT !.pc = pc, !.place = requests[t].place, !.session = s, !.read = read]]
Done(t) == requests' = [requests EXCEPT ![t] = Idle]
Commit(t, new) ==
    LET s == requests[t].session IN
    rows' = [rows EXCEPT ![s] = Written(@, requests[t].read, new)]

\* _really_alive: a row without a container id is not alive.
ReallyAlive(view) == view.container # None /\ Runs(view.container)

\* platz_ohne_lauf: the container id is dropped when the agent says "gone"; an
\* agent that does not answer leaves it.
WithoutRun(view) ==
    {[status |-> "angehalten", container |-> c] :
        c \in {view.container} \cup
              (IF view.container # None /\ Exists(view.container) THEN {} ELSE {None})}

\* _starten asks for a live session of the same place.  A live one whose
\* container runs, or whose agent is silent, is returned: nothing changes.
StartCheck(t, p) ==
    /\ requests[t].pc = "idle" /\ "start" \in Handlers
    /\ \/ /\ \A s \in Sessions : ~(IsLive(s) /\ rows[s].place = p)
          /\ requests' = [requests EXCEPT ![t] = [Idle EXCEPT !.pc = "limit", !.place = p]]
       \/ \E s \in Sessions :
             /\ IsLive(s) /\ rows[s].place = p
             /\ ~ReallyAlive(ViewOf(s))
             /\ requests' = [requests EXCEPT ![t] =
                   [Idle EXCEPT !.pc = "close", !.place = p, !.session = s,
                                !.read = ViewOf(s)]]
    /\ UNCHANGED <<rows, containers, lateStarts, reaper, crashes>>

\* ... one that is not alive is closed first: a root place becomes angehalten.
StartClose(t) ==
    /\ requests[t].pc = "close"
    /\ \E new \in IF Class[requests[t].place] = "root"
                  THEN WithoutRun(requests[t].read)
                  ELSE {[requests[t].read EXCEPT !.status = "stopped"]} :
          /\ Commit(t, new)
          /\ Goto(t, "limit", requests[t].session, new)
    /\ UNCHANGED <<containers, lateStarts, reaper, crashes>>

\* Mutants of StartLimit: a limit off by one; homes that are not compared.
StartLimitOffByOne(t) ==
    LET p == requests[t].place
        running == LiveOf(Owner[p])
        clash == Home[p] # None /\ \E s \in running : Home[rows[s].place] = Home[p]
    IN
    /\ requests[t].pc = "limit"
    /\ \/ /\ Cardinality(running) <= SessionLimit /\ ~clash
          /\ requests' = [requests EXCEPT ![t].pc = "create"]
       \/ Done(t)
    /\ UNCHANGED <<rows, containers, lateStarts, reaper, crashes>>
StartLimitOnly(t) ==
    /\ requests[t].pc = "limit"
    /\ \/ /\ Cardinality(LiveOf(Owner[requests[t].place])) < SessionLimit
          /\ requests' = [requests EXCEPT ![t].pc = "create"]
       \/ Done(t)
    /\ UNCHANGED <<rows, containers, lateStarts, reaper, crashes>>

\* ... the sessions of the user are counted and their homes compared.  A start
\* that is refused here, or for want of memory, disk or quota, changes nothing.
StartLimit(t) ==
    LET p == requests[t].place
        running == LiveOf(Owner[p])
        clash == Home[p] # None /\ \E s \in running : Home[rows[s].place] = Home[p]
    IN
    /\ requests[t].pc = "limit"
    /\ \/ /\ Cardinality(running) < SessionLimit /\ ~clash
          /\ requests' = [requests EXCEPT ![t].pc = "create"]
       \/ Done(t)
    /\ UNCHANGED <<rows, containers, lateStarts, reaper, crashes>>

\* ... a root place continues the row that is angehalten, any other start
\* inserts a row.  The commit comes before the container.
StartCreate(t) ==
    LET r == requests[t]
        places == {s \in Sessions : /\ rows[s].place = r.place
                                    /\ rows[s].status = "angehalten"
                                    /\ Class[r.place] = "root"}
        seenAs(s) == IF s = r.session THEN r.read ELSE ViewOf(s)
        starting == [status |-> "starting", container |-> None]
    IN
    /\ r.pc = "create"
    /\ \/ \E s \in places :
             /\ seenAs(s).container # None
             /\ Goto(t, "resume", s, seenAs(s))
             /\ UNCHANGED rows
       \/ \E s \in places :
             /\ seenAs(s).container = None
             /\ rows' = [rows EXCEPT ![s] = Written(@, seenAs(s), starting)]
             /\ Goto(t, "agent", s, starting)
       \/ \E s \in Sessions :
             /\ places = {} /\ UnusedSession(s)
             /\ rows' = [rows EXCEPT ![s] = [place |-> r.place, status |-> "starting",
                                             container |-> None]]
             /\ Goto(t, "agent", s, starting)
    /\ UNCHANGED <<containers, lateStarts, reaper, crashes>>

\* The agent creates the container, named and labelled after the session; the
\* name is taken as long as an older container of the session exists.
Create(c, s) ==
    /\ UnusedContainer(c)
    /\ \A d \in Containers : ~Named(d, s)
    /\ containers' = [containers EXCEPT ![c] = [state |-> "running", session |-> s]]

AgentCreates(t) ==
    /\ requests[t].pc = "agent"
    /\ \E c \in Containers :
          /\ Create(c, requests[t].session)
          /\ requests' = [requests EXCEPT ![t].pc = "setup", ![t].container = c]
    /\ UNCHANGED <<rows, lateStarts, reaper, crashes>>

\* The call fails or times out, before or after the container was created; a
\* call that timed out may still create it.
AgentFails(t) ==
    /\ requests[t].pc \in {"agent", "setup"}
    /\ Commit(t, [requests[t].read EXCEPT !.status = "failed"])
    /\ Done(t)
    /\ \/ UNCHANGED lateStarts
       \/ /\ requests[t].pc = "agent"
          /\ lateStarts' = lateStarts \cup {requests[t].session}
    /\ UNCHANGED <<containers, reaper, crashes>>

AgentCreatesLate(s) ==
    /\ s \in lateStarts
    /\ lateStarts' = lateStarts \ {s}
    /\ \/ \E c \in Containers : Create(c, s)
       \/ UNCHANGED containers
    /\ UNCHANGED <<rows, requests, reaper, crashes>>

\* An exception that is no HTTPException: the request ends without a commit.
StartBreaks(t) ==
    /\ requests[t].pc \in {"agent", "setup"}
    /\ Done(t)
    /\ UNCHANGED <<rows, containers, lateStarts, reaper, crashes>>

\* Mutant of StartBook: the container goes to any live row of the same place.
StartBookByPlace(t) ==
    /\ requests[t].pc = "setup"
    /\ \E s \in Sessions, st \in {"running", "starting"} :
          /\ IsLive(s) /\ rows[s].place = requests[t].place
          /\ rows' = [rows EXCEPT ![s].status = st, ![s].container = requests[t].container]
    /\ Done(t)
    /\ UNCHANGED <<containers, lateStarts, reaper, crashes>>

\* The end of _starten; "starting" when the route is not up in time.
StartBook(t) ==
    /\ requests[t].pc = "setup"
    /\ \E st \in {"running", "starting"} :
          Commit(t, [status |-> st, container |-> requests[t].container])
    /\ Done(t)
    /\ UNCHANGED <<containers, lateStarts, reaper, crashes>>

\* _fortsetzen: the row is starting before the agent is asked.  The limit on
\* the place's disk usage may refuse.
ResumeBegin(t) ==
    /\ requests[t].pc = "resume"
    /\ LET new == [requests[t].read EXCEPT !.status = "starting"] IN
       \/ Commit(t, new) /\ Goto(t, "resuming", requests[t].session, new)
       \/ Done(t) /\ UNCHANGED rows
    /\ UNCHANGED <<containers, lateStarts, reaper, crashes>>

AgentResumes(t) ==
    LET c == requests[t].read.container IN
    /\ requests[t].pc = "resuming" /\ Exists(c)
    /\ containers' = [containers EXCEPT ![c].state = "running"]
    /\ requests' = [requests EXCEPT ![t].pc = "resumed"]
    /\ UNCHANGED <<rows, lateStarts, reaper, crashes>>

\* An answer 404 clears the container id, any other error keeps it.
ResumeFails(t) ==
    /\ requests[t].pc \in {"resuming", "resumed"}
    /\ \/ Commit(t, [requests[t].read EXCEPT !.status = "angehalten"])
       \/ /\ requests[t].pc = "resuming" /\ ~Exists(requests[t].read.container)
          /\ Commit(t, [status |-> "angehalten", container |-> None])
    /\ Done(t)
    /\ UNCHANGED <<containers, lateStarts, reaper, crashes>>

ResumeBook(t) ==
    /\ requests[t].pc = "resumed"
    /\ \E st \in {"running", "starting"} :
          Commit(t, [requests[t].read EXCEPT !.status = st])
    /\ Done(t)
    /\ UNCHANGED <<containers, lateStarts, reaper, crashes>>

(* The handlers that load a row, have the agent act on its container and    *)
(* commit the new columns when the agent has answered.                      *)

Begin(t, s, pc, new) ==
    /\ requests[t].pc = "idle" /\ rows[s].status # "none"
    /\ requests' = [requests EXCEPT ![t] =
          [Idle EXCEPT !.pc = pc, !.session = s, !.read = ViewOf(s), !.new = new]]
    /\ UNCHANGED <<rows, containers, lateStarts, reaper, crashes>>
HasContainer(s) == rows[s].container # None
\* What the agent is asked first.
If(s, pc) == IF HasContainer(s) THEN pc ELSE "book"

ActPause(t, s) ==
    /\ "pause" \in Handlers /\ HasContainer(s)
    /\ Begin(t, s, "pause", [ViewOf(s) EXCEPT !.status = "paused"])

\* "unpause" of a stopped session starts its container.
ActUnpause(t, s) ==
    /\ "pause" \in Handlers /\ HasContainer(s)
    /\ ~(IsRoot(s) /\ rows[s].status \in {"stopped", "angehalten"})
    /\ Begin(t, s, IF rows[s].status = "stopped" THEN "start" ELSE "unpause",
             [ViewOf(s) EXCEPT !.status = "running"])

\* "unpause" of a root place, and starten of the administration.
ActResume(t, s) ==
    /\ "resume" \in Handlers /\ HasContainer(s)
    /\ IsRoot(s) /\ rows[s].status \in {"stopped", "angehalten"}
    /\ Begin(t, s, "resume", NoView)

ActStop(t, s) ==
    /\ "stop" \in Handlers /\ ~IsRoot(s) /\ HasContainer(s)
    /\ Begin(t, s, "stop", [ViewOf(s) EXCEPT !.status = "stopped"])

\* platz_anhalten, from act, delete_session or anhalten.
Halt(t, s) ==
    /\ "stop" \in Handlers /\ IsRoot(s)
    /\ HasContainer(s) \/ rows[s].status # "angehalten"
    /\ Begin(t, s, If(s, "stop"), [ViewOf(s) EXCEPT !.status = "angehalten"])

DeleteSession(t, s) ==
    /\ "delete" \in Handlers /\ ~IsRoot(s)
    /\ Begin(t, s, If(s, "remove"), [ViewOf(s) EXCEPT !.status = "stopped"])

\* platz_neu_aufsetzen: the container goes, the row stays.
Rebuild(t, s) ==
    /\ "rebuild" \in Handlers /\ IsRoot(s)
    /\ Begin(t, s, If(s, "remove"), [status |-> "angehalten", container |-> None])

\* loeschen of the administration.
AdminDelete(t, s) ==
    /\ "admin" \in Handlers
    /\ rows[s].status \in Live \cup {"angehalten"}
    /\ Begin(t, s, If(s, "remove"), [status |-> "stopped", container |-> None])

\* The agent acts: pause and unpause need a container that runs, or is paused.
Acts == [pause |-> [from |-> {"running"}, to |-> "paused"],
         unpause |-> [from |-> {"paused"}, to |-> "running"],
         start |-> [from |-> {"exited", "running"}, to |-> "running"],
         stop |-> [from |-> {"running", "paused", "exited"}, to |-> "exited"]]
Affect(c, act) ==
    /\ c # None /\ containers[c].state \in Acts[act].from
    /\ containers' = [containers EXCEPT ![c].state = Acts[act].to]
Remove(c) == containers' = [containers EXCEPT ![c] = Gone]

AgentActs(t) ==
    LET r == requests[t] IN
    /\ \/ r.pc \in DOMAIN Acts /\ Affect(r.read.container, r.pc)
       \/ r.pc = "remove" /\ Remove(r.read.container)
    /\ requests' = [requests EXCEPT ![t].pc = "book"]
    /\ UNCHANGED <<rows, lateStarts, reaper, crashes>>

\* The agent refuses, or its answer is lost: nothing is committed.
ActFails(t) ==
    /\ requests[t].pc \in DOMAIN Acts \cup {"remove", "book"}
    /\ Done(t)
    /\ UNCHANGED <<rows, containers, lateStarts, reaper, crashes>>

Book(t) ==
    /\ requests[t].pc = "book"
    /\ Commit(t, requests[t].new)
    /\ Done(t)
    /\ UNCHANGED <<containers, lateStarts, reaper, crashes>>

\* heartbeat: last_seen_at is newer than what a pass under way has read.
Heartbeat(s) ==
    /\ "heartbeat" \in Handlers /\ s \in Snapshot \ reaper.heard
    /\ reaper' = [reaper EXCEPT !.heard = @ \cup {s}]
    /\ UNCHANGED <<rows, containers, requests, lateStarts, crashes>>

-----------------------------------------------------------------------------
(* What happens without a request.                                         *)

\* A container ends by itself, or somebody removes it by hand.
ContainerDies(c) ==
    /\ Exists(c)
    /\ \/ Runs(c) /\ containers' = [containers EXCEPT ![c].state = "exited"]
       \/ containers' = [containers EXCEPT ![c] = Gone]
    /\ UNCHANGED <<rows, requests, lateStarts, reaper, crashes>>

\* The API process dies and starts again.  The agent goes on with the
\* containers it is asked to create.
ApiCrash ==
    /\ crashes < MaxCrashes
    /\ crashes' = crashes + 1
    /\ lateStarts' = lateStarts \cup
          {requests[t].session : t \in {u \in Threads : requests[u].pc = "agent"}}
    /\ requests' = [t \in Threads |-> Idle]
    /\ reaper' = Asleep
    /\ UNCHANGED <<rows, containers>>

-----------------------------------------------------------------------------
(* _reap_once.  The pass reads the live rows once, walks through them, lists *)
(* the containers and removes those it does not know, and commits last.      *)

Reap == [s \in Sessions |-> Written(rows[s], reaper.read[s], reaper.new[s])]
Known == {reaper.read[s].container : s \in Snapshot}
Handled(s, new) ==
    [reaper EXCEPT !.todo = @ \ {s}, !.idle = @ \ {s}, !.new[s] = new]
\* Of the rows it has loaded, a commit writes those with a changed column.
Changed(views) ==
    [s \in Sessions |-> IF reaper.read[s] = reaper.new[s] THEN NoView ELSE views[s]]

\* A session may be idle whenever no start of it is under way: a start sets
\* last_seen_at and is assumed shorter than idle_minutes (60 by default); a
\* resume sets last_seen_at when it is over.
MayBeIdle(s) ==
    /\ \A t \in Threads : ~(requests[t].session = s /\ requests[t].pc \in {"agent", "setup"})
    /\ rows[s].place \notin Busy
    /\ IdleAction[rows[s].place] # "never"

ReaperReads ==
    LET live == {s \in Sessions : IsLive(s)}
        read == [s \in Sessions |-> IF s \in live THEN ViewOf(s) ELSE NoView]
    IN
    /\ reaper.pc = "asleep"
    /\ \E idle \in SUBSET {s \in live : MayBeIdle(s)} :
          reaper' = [Asleep EXCEPT !.pc = "rows", !.read = read, !.new = read,
                                   !.todo = live, !.idle = idle]
    /\ UNCHANGED <<rows, containers, requests, lateStarts, crashes>>

\* Mutant of ReaperCloses: a root place is closed like any other row.
ReaperClosesAnyClass(s) ==
    LET view == reaper.new[s] IN
    /\ reaper.pc = "rows" /\ s \in reaper.todo
    /\ view.container # None /\ ~Runs(view.container)
    /\ reaper' = Handled(s, [view EXCEPT !.status = "stopped"])
    /\ UNCHANGED <<rows, containers, requests, lateStarts, crashes>>

\* The container of the session is gone or has ended: the row is closed.
ReaperCloses(s) ==
    LET view == reaper.new[s] IN
    /\ reaper.pc = "rows" /\ s \in reaper.todo
    /\ view.container # None /\ ~Runs(view.container)
    /\ \E new \in IF IsRoot(s) THEN WithoutRun(view)
                  ELSE {[view EXCEPT !.status = "stopped"]} :
          reaper' = Handled(s, new)
    /\ UNCHANGED <<rows, containers, requests, lateStarts, crashes>>

\* An idle root place is stopped by platz_anhalten, which commits the pass.
ReaperHalts(s) ==
    LET view == reaper.new[s] IN
    /\ reaper.pc = "rows" /\ s \in reaper.todo \cap reaper.idle /\ IsRoot(s)
    /\ \/ view.container = None /\ UNCHANGED containers
       \/ Affect(view.container, "stop")
    /\ reaper' = [Handled(s, [view EXCEPT !.status = "angehalten"]) EXCEPT !.pc = "halt"]
    /\ UNCHANGED <<rows, requests, lateStarts, crashes>>

ReaperBooks ==
    /\ reaper.pc = "halt"
    /\ rows' = Reap
    /\ reaper' = [reaper EXCEPT !.pc = "rows", !.read = reaper.new]
    /\ UNCHANGED <<containers, requests, lateStarts, crashes>>

\* Any other idle session: the idle action of the template, committed last.
ReaperIdles(s) ==
    LET c == reaper.new[s].container
        action == IdleAction[rows[s].place]
        now(status) == reaper' = Handled(s, [reaper.new[s] EXCEPT !.status = status])
    IN
    /\ reaper.pc = "rows" /\ s \in reaper.todo \cap reaper.idle /\ ~IsRoot(s)
    /\ c # None
    /\ \/ action = "delete" /\ Remove(c) /\ now("stopped")
       \/ action = "pause" /\ Affect(c, "pause") /\ now("paused")
       \/ action = "stop" /\ Affect(c, "stop") /\ now("stopped")
    /\ UNCHANGED <<rows, requests, lateStarts, crashes>>

\* The agent acts, but its answer is lost.
ReaperUnheard(s) ==
    LET c == reaper.new[s].container
        action == IF IsRoot(s) THEN "stop" ELSE IdleAction[rows[s].place]
    IN
    /\ reaper.pc = "rows" /\ s \in reaper.todo \cap reaper.idle /\ c # None
    /\ \/ action = "delete" /\ Remove(c)
       \/ action \in {"pause", "stop"} /\ Affect(c, action)
    /\ reaper' = Handled(s, reaper.new[s])
    /\ UNCHANGED <<rows, requests, lateStarts, crashes>>

\* Nothing is to be done for the row, or the agent is silent or refuses.
ReaperSkips(s) ==
    /\ reaper.pc = "rows" /\ s \in reaper.todo
    /\ ~(s \in reaper.idle /\ IsRoot(s) /\ reaper.new[s].container = None)
    /\ reaper' = Handled(s, reaper.new[s])
    /\ UNCHANGED <<rows, containers, requests, lateStarts, crashes>>

\* Mutants of ReaperKeeps: rows without a container are kept, too; the containers
\* of stopped rows are; no container is.
ReaperKeepsNull ==
    /\ reaper.pc = "rows" /\ reaper.todo = {}
    /\ reaper' = [reaper EXCEPT !.pc = "list", !.keep =
          {IF s \in Snapshot THEN reaper.new[s].container ELSE rows[s].container :
              s \in {r \in Sessions : rows[r].status = "angehalten"}}]
    /\ UNCHANGED <<rows, containers, requests, lateStarts, crashes>>
ReaperKeepsStopped ==
    /\ reaper.pc = "rows" /\ reaper.todo = {}
    /\ reaper' = [reaper EXCEPT !.pc = "list", !.keep =
          {rows[s].container : s \in {r \in Sessions :
              rows[r].status \in {"angehalten", "stopped"}}} \ {None}]
    /\ UNCHANGED <<rows, containers, requests, lateStarts, crashes>>
ReaperKeepsNothing ==
    /\ reaper.pc = "rows" /\ reaper.todo = {}
    /\ reaper' = [reaper EXCEPT !.pc = "list"]
    /\ UNCHANGED <<rows, containers, requests, lateStarts, crashes>>

\* keep_stopped: rows loaded in this pass keep the container id they had then.
ReaperKeeps ==
    /\ reaper.pc = "rows" /\ reaper.todo = {}
    /\ reaper' = [reaper EXCEPT !.pc = "list", !.keep =
          {IF s \in Snapshot THEN reaper.new[s].container ELSE rows[s].container :
              s \in {r \in Sessions : rows[r].status = "angehalten"}} \ {None}]
    /\ UNCHANGED <<rows, containers, requests, lateStarts, crashes>>

\* Mutant of ReaperLists: the label of a container is not looked at.
ReaperListsByContainer ==
    /\ reaper.pc = "list"
    /\ reaper' = [Asleep EXCEPT
          !.pc = "remove", !.read = Changed(reaper.read), !.new = Changed(reaper.new),
          !.orphans = {c \in Containers : Exists(c) /\ c \notin Known \cup reaper.keep}]
    /\ UNCHANGED <<rows, containers, requests, lateStarts, crashes>>

ReaperLists ==
    /\ reaper.pc = "list"
    /\ reaper' = [Asleep EXCEPT
          !.pc = "remove", !.read = Changed(reaper.read), !.new = Changed(reaper.new),
          !.orphans = {c \in Containers : /\ Exists(c)
                                          /\ c \notin Known \cup reaper.keep
                                          /\ containers[c].session \notin Snapshot}]
    /\ UNCHANGED <<rows, containers, requests, lateStarts, crashes>>

ReaperRemoves(c) ==
    /\ reaper.pc = "remove" /\ c \in reaper.orphans
    /\ Remove(c)
    /\ reaper' = [reaper EXCEPT !.orphans = @ \ {c}]
    /\ UNCHANGED <<rows, requests, lateStarts, crashes>>

\* The agent fails while it lists or removes: the rest waits for the next pass.
ReaperGivesUp ==
    /\ \/ reaper.pc = "list"
       \/ reaper.pc = "remove" /\ reaper.orphans # {}
    /\ reaper' = [Asleep EXCEPT !.pc = "remove", !.read = Changed(reaper.read),
                                !.new = Changed(reaper.new)]
    /\ UNCHANGED <<rows, containers, requests, lateStarts, crashes>>

ReaperCommits ==
    /\ reaper.pc = "remove" /\ reaper.orphans = {}
    /\ rows' = Reap
    /\ reaper' = Asleep
    /\ UNCHANGED <<containers, requests, lateStarts, crashes>>

-----------------------------------------------------------------------------
RequestStep(t) ==
    \/ \E p \in Places : StartCheck(t, p)
    \/ StartClose(t) \/ StartLimit(t) \/ StartCreate(t)
    \/ AgentCreates(t) \/ AgentFails(t) \/ StartBreaks(t) \/ StartBook(t)
    \/ ResumeBegin(t) \/ AgentResumes(t) \/ ResumeFails(t) \/ ResumeBook(t)
    \/ AgentActs(t) \/ ActFails(t) \/ Book(t)

Listed(s) == rows[s].status \in Live \cup {"angehalten"}

ActStep(t, s) ==
    /\ Listed(s) \/ "unlisted" \in Handlers
    /\ \/ ActPause(t, s) \/ ActUnpause(t, s) \/ ActResume(t, s)
       \/ ActStop(t, s) \/ Halt(t, s) \/ DeleteSession(t, s)
       \/ Rebuild(t, s) \/ AdminDelete(t, s)

ReaperStep ==
    \/ ReaperReads
    \/ \E s \in Sessions : \/ ReaperCloses(s) \/ ReaperHalts(s)
                           \/ ReaperIdles(s) \/ ReaperUnheard(s) \/ ReaperSkips(s)
    \/ ReaperBooks \/ ReaperKeeps \/ ReaperLists
    \/ \E c \in Containers : ReaperRemoves(c)
    \/ ReaperGivesUp \/ ReaperCommits

Next ==
    \/ \E t \in Threads : RequestStep(t)
    \/ \E t \in Threads, s \in Sessions : ActStep(t, s)
    \/ \E s \in Sessions : Heartbeat(s) \/ AgentCreatesLate(s)
    \/ \E c \in Containers : ContainerDies(c)
    \/ ApiCrash
    \/ ReaperStep

Spec == Init /\ [][Next]_vars

\* A request that has begun goes on, the agent ends what it was asked to do, and
\* the reaper runs once a minute.  An agent that is asked again and again
\* answers at some time: strong fairness for the steps that need its answer.
Fairness ==
    /\ \A t \in Threads :
          WF_vars(requests[t].pc # "idle" /\ RequestStep(t))
    /\ \A s \in Sessions : WF_vars(AgentCreatesLate(s))
    /\ WF_vars(ReaperStep)
    /\ \A s \in Sessions : SF_vars(ReaperCloses(s))
    /\ SF_vars(ReaperLists)
    /\ \A c \in Containers : SF_vars(ReaperRemoves(c))

FairSpec == Spec /\ Fairness

-----------------------------------------------------------------------------
(* What must hold.                                                         *)

\* The container a row names is the container that was made for it: no
\* interleaving of starts, resumes, deletions and the reaper connects a
\* session with the container of another one (_starten, _fortsetzen).
OwnContainer ==
    \A s \in Sessions :
        LET c == rows[s].container IN
        c # None /\ Exists(c) => containers[c].session = s

\* A user never has more live sessions than the limit that _starten counts
\* against, whatever the reaper, a lost answer or a crash do in between.
WithinLimit == \A p \in Places : Cardinality(LiveOf(Owner[p])) <= SessionLimit

\* While the container of a root place exists, its row can be resumed: it is
\* never closed for good around the container (platz_ohne_lauf).
RootStateReachable ==
    \A s \in Sessions :
        IsRoot(s) /\ rows[s].container # None /\ Exists(rows[s].container) => Listed(s)

\* A container whose row is closed is removed in the end, unless the row comes
\* to life again: also one that the agent creates after the API gave up.
OrphansVanish ==
    \A c \in Containers, s \in Sessions :
        (Named(c, s) /\ ~Listed(s)) ~> (~Named(c, s) \/ Listed(s))

\* A live row whose container has disappeared is closed in the end.
DeadRowsClose ==
    \A s \in Sessions :
        LET dead == IsLive(s) /\ rows[s].container # None /\ ~Exists(rows[s].container)
        IN dead ~> ~dead

\* Both: in the end the rows and the containers agree again (_reap_once).
PassesPutRight == OrphansVanish /\ DeadRowsClose
=============================================================================
