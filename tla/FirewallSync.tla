---------------------------- MODULE FirewallSync ----------------------------
(***************************************************************************)
(* How the rules of the router come about.  The API knows the port         *)
(* forwards and which sessions run, the agent knows the session networks   *)
(* (Docker), the router enforces.  After each change the API pushes all    *)
(* forwards to the agent (_schieben), the agent keeps them, and sends the  *)
(* whole state to the router (_firewall_abgleich), which keeps it, too,    *)
(* and turns it into one set of nftables rules (_durchsetzen).  Nothing    *)
(* but the router repeats its part by itself.                              *)
(*                                                                         *)
(* An actor is a thread of the API together with the request it makes of   *)
(* the agent and the request the agent makes of the router: each waits     *)
(* for the next.  A step ends where another actor can come between.        *)
(* Session rows are reduced to what _schieben asks of them; Sessions has   *)
(* their life.                                                             *)
(***************************************************************************)
EXTENDS Naturals, FiniteSets

CONSTANTS
    Threads,        \* worker threads of the API
    Boot,           \* the thread of _firewall_start in the agent
    Sessions,       \* session ids, each used once
    Places,         \* pairs of a user and a template
    PlaceOf,        \* the place of a session
    Subnets,        \* the pool of session subnets
    Lease,          \* the subnet a place has leased (net_leases)
    Ports,          \* OTA_NAT_MIN .. OTA_NAT_MAX
    MaxFaults,      \* bound on restarts, lost tables, and time-outs of the agent
    None            \* no place, no session, no subnet

ASSUME NetAssumption ==
    /\ None \notin Places \cup Sessions \cup Subnets \cup Threads
    /\ Boot \notin Threads
    /\ PlaceOf \in [Sessions -> Places]
    /\ Lease \in [Places -> Subnets]
    /\ Ports \subseteq Nat
    /\ MaxFaults \in Nat

VARIABLES
    forwards,       \* table net_forwards, by the port on the host
    rows,           \* the status of the session rows, as far as _schieben cares
    docker,         \* network and container of each session
    agent,          \* _weiterleitungen in memory and in firewall-verwaltung.json
    router,         \* _zustand in memory and on disk, _letzter_satz, nftables
    actors,         \* what each actor is doing
    faults          \* number of faults so far

vars == <<forwards, rows, docker, agent, router, actors, faults>>

Actors == Threads \cup {Boot}

Forward == [place : Places \cup {None}, expired : BOOLEAN]
NoForward == [place |-> None, expired |-> FALSE]
\* A row is "starting" until the agent has named its container; "live" also stands
\* for a start whose route is late, "closed" for every other status.
RowStates == {"none", "starting", "live", "paused", "closed"}
Net == [subnet : Subnets \cup {None}, container : {"none", "running", "exited"}]
Wanted == [port : Ports, session : Sessions]    \* what the API pushes
Rule == [port : Ports, subnet : Subnets]        \* what the router forwards
Rules == [nets : SUBSET Subnets, rules : SUBSET Rule]
Nothing == [nets |-> {}, rules |-> {}]          \* the "Grundsperre"
Lost == None                                    \* an unreadable file, no table

ASSUME LostAssumption == Lost \notin Rules

Idle == [pc |-> "idle", op |-> "none", session |-> None, list |-> {}, state |-> Nothing]
ApiPcs == {"read", "push", "book"}
AgentPcs == {"net", "run", "remove", "unplug", "nets", "rules", "put"}
RouterPcs == {"enforce"}
Actor == [pc : {"idle"} \cup ApiPcs \cup AgentPcs \cup RouterPcs,
          op : {"none", "push", "start", "delete", "remove", "boot", "lost"},
          session : Sessions \cup {None},
          list : SUBSET Wanted, state : Rules]

\* Everything the three services hold has its type: no rule without a subnet, no
\* forward for something that is no session.
TypeOK ==
    /\ forwards \in [Ports -> Forward]
    /\ rows \in [Sessions -> RowStates]
    /\ docker \in [Sessions -> Net]
    /\ agent \in [memory : SUBSET Wanted, file : {Lost} \cup SUBSET Wanted]
    /\ router \in [zustand : Rules, file : Rules \cup {Lost},
                   last : Rules \cup {Lost}, inForce : Rules \cup {Lost}]
    /\ actors \in [Actors -> Actor]
    /\ faults \in 0 .. MaxFaults

Init ==
    /\ forwards = [p \in Ports |-> NoForward]
    /\ rows = [s \in Sessions |-> "none"]
    /\ docker = [s \in Sessions |-> [subnet |-> None, container |-> "none"]]
    /\ agent = [memory |-> {}, file |-> {}]
    /\ router = [zustand |-> Nothing, file |-> Nothing, last |-> Nothing, inForce |-> Nothing]
    /\ actors = [a \in Actors |-> Idle]
    /\ faults = 0

Goto(a, pc) == actors' = [actors EXCEPT ![a].pc = pc]
Free(t) == t \in Threads /\ actors[t].pc = "idle"
Begin(t, pc, op, s) ==
    /\ Free(t)
    /\ actors' = [actors EXCEPT ![t] = [Idle EXCEPT !.pc = pc, !.op = op, !.session = s]]

RunningIn(p) == {s \in Sessions : rows[s] \in {"starting", "live"} /\ PlaceOf[s] = p}
StandingIn(p) == {s \in Sessions : rows[s] \in {"starting", "live", "paused"} /\ PlaceOf[s] = p}
Open(p) == forwards[p].place # None /\ ~forwards[p].expired
UsedSubnets == {docker[s].subnet : s \in Sessions} \ {None}

(* Forwards.  A request commits its change and pushes.                      *)

ForwardCreate(t, place) == \* forward_anlegen: the smallest port that is free
    /\ Begin(t, "read", "push", None)
    /\ \E p \in Ports :
         /\ forwards[p].place = None
         /\ \A q \in Ports : q < p => forwards[q].place # None
         /\ forwards' = [forwards EXCEPT ![p] = [place |-> place, expired |-> FALSE]]
    /\ UNCHANGED <<rows, docker, agent, router, faults>>

ForwardDelete(t, p) ==
    /\ forwards[p].place # None
    /\ Begin(t, "read", "push", None)
    /\ forwards' = [forwards EXCEPT ![p] = NoForward]
    /\ UNCHANGED <<rows, docker, agent, router, faults>>

Expire(p) == \* expires_at passes
    /\ Open(p)
    /\ forwards' = [forwards EXCEPT ![p] = [place |-> @.place, expired |-> TRUE]]
    /\ UNCHANGED <<rows, docker, agent, router, actors, faults>>

SettingsPush(t) == \* global_setzen, the settings of IDE-AI and opencode
    /\ Begin(t, "read", "push", None)
    /\ UNCHANGED <<forwards, rows, docker, agent, router, faults>>

ReadWanted(t) == \* _schieben; of several live rows of a place, some one
    /\ actors[t].pc = "read"
    /\ \E pick \in [Places -> Sessions \cup {None}] :
         /\ \A p \in Places : IF RunningIn(p) = {} THEN pick[p] = None
                              ELSE pick[p] \in RunningIn(p)
         /\ LET due == {p \in Ports : Open(p) /\ pick[forwards[p].place] # None} IN
            actors' = [actors EXCEPT
              ![t].pc = "push",
              ![t].list = {[port |-> p, session |-> pick[forwards[p].place]] : p \in due}]
    /\ UNCHANGED <<forwards, rows, docker, agent, router, faults>>

(* Sessions, as far as they make networks and pushes.                       *)

StartSession(t, s) ==
    /\ rows[s] = "none"
    /\ StandingIn(PlaceOf[s]) = {}
    /\ Begin(t, "net", "start", s)
    /\ rows' = [rows EXCEPT ![s] = "starting"]
    /\ UNCHANGED <<forwards, docker, agent, router, faults>>

NetCreate(t) == \* netz_anlegen: the leased subnet, or any free one
    LET s == actors[t].session IN
    /\ actors[t].pc = "net"
    /\ \E n \in Subnets \ UsedSubnets :
         /\ Lease[PlaceOf[s]] \notin UsedSubnets => n = Lease[PlaceOf[s]]
         /\ docker' = [docker EXCEPT ![s].subnet = n]
    /\ Goto(t, "run")
    /\ UNCHANGED <<forwards, rows, agent, router, faults>>

ContainerRun(t) ==
    /\ actors[t].pc = "run"
    /\ docker[actors[t].session].subnet # None
    /\ docker' = [docker EXCEPT ![actors[t].session].container = "running"]
    /\ Goto(t, "nets")
    /\ UNCHANGED <<forwards, rows, agent, router, faults>>

DeleteSession(t, s) == \* delete_session; without a container id nothing is removed
    /\ \/ /\ rows[s] \in {"live", "paused"}
          /\ Begin(t, "remove", "delete", s)
          /\ rows' = rows
       \/ /\ rows[s] = "starting"
          /\ Begin(t, "read", "push", None)
          /\ rows' = [rows EXCEPT ![s] = "closed"]
    /\ UNCHANGED <<forwards, docker, agent, router, faults>>

ReaperRemoves(t, s) == \* a container without a live session; no push follows
    /\ rows[s] = "closed"
    /\ docker[s].container # "none"
    /\ Begin(t, "remove", "remove", s)
    /\ UNCHANGED <<forwards, rows, docker, agent, router, faults>>

RemoveContainer(t) == \* remove_container; if it is gone already: waisen_aufraeumen
    LET s == actors[t].session IN
    /\ actors[t].pc = "remove"
    /\ IF docker[s].container # "none"
       THEN /\ docker' = [docker EXCEPT ![s].container = "none"]
            /\ Goto(t, "unplug")
       ELSE /\ docker' = [u \in Sessions |->
                            IF docker[u].container = "none" THEN [docker[u] EXCEPT !.subnet = None]
                            ELSE docker[u]]
            /\ Goto(t, "nets")
    /\ UNCHANGED <<forwards, rows, agent, router, faults>>

NetRemove(t) == \* netz_entfernen: Docker may refuse, then the network stays
    LET s == actors[t].session IN
    /\ actors[t].pc = "unplug"
    /\ \E n \in {None, docker[s].subnet} : docker' = [docker EXCEPT ![s].subnet = n]
    /\ Goto(t, "nets")
    /\ UNCHANGED <<forwards, rows, agent, router, faults>>

Book(t) == \* the agent has answered: commit, then push
    LET s == actors[t].session IN
    /\ actors[t].pc = "book"
    /\ rows' = [rows EXCEPT ![s] = IF actors[t].op = "delete" THEN "closed" ELSE "live"]
    /\ actors' = [actors EXCEPT ![t] = [Idle EXCEPT !.pc = "read", !.op = "push"]]
    /\ UNCHANGED <<forwards, docker, agent, router, faults>>

\* The row of a start whose request to the agent has failed.
Failed(a) ==
    IF actors[a].op = "start" THEN [rows EXCEPT ![actors[a].session] = "closed"] ELSE rows

CallFails(t) == \* Docker reports an error, or the answer of the agent is lost
    /\ actors[t].pc \in {"net", "run", "remove", "unplug", "nets", "rules", "book"}
    /\ rows' = Failed(t)
    /\ actors' = [actors EXCEPT ![t] = Idle]
    /\ UNCHANGED <<forwards, docker, agent, router, faults>>

Pause(s) == \* act: pause and unpause; neither pushes
    /\ docker[s].container = "running"
    /\ \/ rows[s] = "live" /\ rows' = [rows EXCEPT ![s] = "paused"]
       \/ rows[s] = "paused" /\ rows' = [rows EXCEPT ![s] = "live"]
    /\ UNCHANGED <<forwards, docker, agent, router, actors, faults>>

ContainerExits(s) == \* by itself, or stopped
    /\ docker[s].container = "running"
    /\ docker' = [docker EXCEPT ![s].container = "exited"]
    /\ UNCHANGED <<forwards, rows, agent, router, actors, faults>>

\* The stop handler, the reaper, or a start that finds no container, commits; none of
\* them pushes.
RowCloses(s) ==
    /\ \/ rows[s] = "starting"
       \/ rows[s] \in {"live", "paused"} /\ docker[s].container # "running"
    /\ rows' = [rows EXCEPT ![s] = "closed"]
    /\ UNCHANGED <<forwards, docker, agent, router, actors, faults>>

(* The agent.                                                               *)

PushFails(t) == \* the agent cannot be reached: _schieben logs a warning
    /\ actors[t].pc = "push"
    /\ actors' = [actors EXCEPT ![t] = Idle]
    /\ UNCHANGED <<forwards, rows, docker, agent, router, faults>>

AgentTakesMore(t) == \* mutant: what is pushed is added to what is there
    /\ actors[t].pc = "push"
    /\ agent' = [agent EXCEPT !.memory = @ \cup actors[t].list]
    /\ actors' = [actors EXCEPT ![t].pc = "nets", ![t].list = {}]
    /\ UNCHANGED <<forwards, rows, docker, router, faults>>

\* firewall_global: _verwaltung_speichern writes what memory holds, but the file may
\* stay behind: the disk refuses, or another thread overtakes this one.
AgentTakes(t) ==
    /\ actors[t].pc = "push"
    /\ \E f \in {actors[t].list, agent.file} :
         agent' = [memory |-> actors[t].list, file |-> f]
    /\ actors' = [actors EXCEPT ![t].pc = "nets", ![t].list = {}]
    /\ UNCHANGED <<forwards, rows, docker, router, faults>>

ReadNets(a) == \* _firewall_abgleich: sitzungsnetze
    /\ actors[a].pc = "nets"
    /\ actors' = [actors EXCEPT ![a].pc = "rules", ![a].state.nets = UsedSubnets]
    /\ UNCHANGED <<forwards, rows, docker, agent, router, faults>>

\* _weiterleitungen_aufloesen asks Docker again; a container that is not running
\* has no address.
ResolvedAny == agent.memory \* mutant: taken as they were pushed
Resolved == {f \in agent.memory : /\ docker[f.session].subnet # None
                                  /\ docker[f.session].container = "running"}

ReadRules(a) ==
    /\ actors[a].pc = "rules"
    /\ actors' = [actors EXCEPT
         ![a].pc = "put",
         ![a].state.rules = {[port |-> f.port, subnet |-> docker[f.session].subnet] : f \in Resolved}]
    /\ UNCHANGED <<forwards, rows, docker, agent, router, faults>>

\* Where an actor goes on after _firewall_abgleich, whether it has worked or not.
AfterSync(a) == IF actors[a].op \in {"start", "delete"}
                THEN [actors[a] EXCEPT !.pc = "book", !.state = Nothing] ELSE Idle

PutFails(a) == \* the router cannot be reached: the agent logs an error
    /\ actors[a].pc = "put"
    /\ actors' = [actors EXCEPT ![a] = AfterSync(a)]
    /\ UNCHANGED <<forwards, rows, docker, agent, router, faults>>

(* The router.                                                              *)

RouterTakes(a) == \* regelwerk and _speichern, like AgentTakes
    /\ actors[a].pc = "put"
    /\ \E f \in {actors[a].state, router.file} :
         router' = [router EXCEPT !.zustand = actors[a].state, !.file = f]
    /\ actors' = [actors EXCEPT ![a].pc = "enforce", ![a].state = Nothing]
    /\ UNCHANGED <<forwards, rows, docker, agent, faults>>

\* _durchsetzen sets the rules only when they are not the last ones it has set.
UpToDate == router.zustand = router.last /\ router.inForce # Lost
Enforced == IF UpToDate THEN router
            ELSE [router EXCEPT !.inForce = router.zustand, !.last = router.zustand]

Enforce(a) ==
    /\ actors[a].pc = "enforce"
    /\ router' = Enforced
    /\ actors' = [actors EXCEPT ![a] = AfterSync(a)]
    /\ UNCHANGED <<forwards, rows, docker, agent, faults>>

NftFailsUnnoticed == \* mutant: _letzter_satz is set before the rules are
    router' = [router EXCEPT !.last = router.zustand]
NftFails == router' = router

EnforceFails(a) == \* NftFehler: all of the old rules stay
    /\ actors[a].pc = "enforce"
    /\ ~UpToDate
    /\ NftFails
    /\ actors' = [actors EXCEPT ![a] = AfterSync(a)]
    /\ UNCHANGED <<forwards, rows, docker, agent, faults>>

Reconcile == \* _abgleichschleife, every 30 seconds, and start
    /\ router' = Enforced
    /\ UNCHANGED <<forwards, rows, docker, agent, actors, faults>>

Fault == faults < MaxFaults /\ faults' = faults + 1

(* Callers that do not wait any longer.  What they have asked for still     *)
(* happens, and takes up an actor until it has.                             *)

Orphaned(a) == [actors[a] EXCEPT !.op = "lost"]

ApiGivesUp(t) == \* the time-out of _call
    /\ actors[t].op \in {"push", "start", "delete", "remove"}
    /\ actors[t].pc \in {"push"} \cup AgentPcs \cup RouterPcs
    /\ rows' = Failed(t)
    /\ actors' = [actors EXCEPT ![t] = Orphaned(t)]
    /\ UNCHANGED <<forwards, docker, agent, router, faults>>

AgentGivesUp(a, u) == \* after 20 seconds, in _ruf
    /\ actors[a].pc \in {"put"} \cup RouterPcs
    /\ actors[a].op # "lost"
    /\ actors[u].pc = "idle"
    /\ Fault
    /\ actors' = [actors EXCEPT ![u] = Orphaned(a), ![a] = AfterSync(a)]
    /\ UNCHANGED <<forwards, rows, docker, agent, router>>

(* Faults.                                                                  *)

\* A request that arrives may be writing the file when its service dies.
Arriving(pc) == \E a \in Actors : actors[a].pc = pc

TableLost ==
    /\ Fault
    /\ router' = [router EXCEPT !.inForce = Lost]
    /\ UNCHANGED <<forwards, rows, docker, agent, actors>>

RouterRestart == \* _laden; a file that was being written may be unreadable
    /\ Fault
    /\ \E f \in {router.file} \cup (IF Arriving("put") THEN {Lost} ELSE {}) :
         router' = [zustand |-> IF f = Lost THEN Nothing ELSE f, file |-> f,
                    last |-> Lost, inForce |-> Lost]
    /\ actors' = [a \in Actors |-> IF actors[a].pc \in RouterPcs THEN AfterSync(a) ELSE actors[a]]
    /\ UNCHANGED <<forwards, rows, docker, agent>>

AgentRestart == \* _verwaltung_laden, then _firewall_start in the background
    /\ Fault
    /\ actors[Boot].pc = "idle"
    /\ \E f \in {agent.file} \cup (IF Arriving("push") THEN {Lost} ELSE {}) :
         agent' = [memory |-> IF f = Lost THEN {} ELSE f, file |-> f]
    /\ rows' = [s \in Sessions |->
                  IF \E t \in Threads : /\ actors[t].pc \in AgentPcs \cup RouterPcs
                                        /\ actors[t].op = "start" /\ actors[t].session = s
                  THEN "closed" ELSE rows[s]]
    /\ actors' = [a \in Actors |->
                    CASE a = Boot -> [Idle EXCEPT !.pc = "nets", !.op = "boot"]
                      [] actors[a].pc \in AgentPcs -> Idle
                      [] actors[a].pc \in RouterPcs -> Orphaned(a)
                      [] OTHER -> actors[a]]
    /\ UNCHANGED <<forwards, docker, router>>

ApiRestart == \* nothing is pushed at its start
    /\ Fault
    /\ actors' = [a \in Actors |->
                    CASE a = Boot -> actors[a]
                      [] actors[a].pc \in ApiPcs -> Idle
                      [] actors[a].pc \in AgentPcs \cup RouterPcs -> Orphaned(a)
                      [] OTHER -> actors[a]]
    /\ UNCHANGED <<forwards, rows, docker, agent, router>>

(* The next-state relation.                                                 *)

Proceeds(t) ==
    \/ ReadWanted(t) \/ NetCreate(t) \/ ContainerRun(t) \/ RemoveContainer(t) \/ NetRemove(t)
    \/ Book(t) \/ AgentTakes(t)
Syncs(a) == ReadNets(a) \/ ReadRules(a) \/ RouterTakes(a) \/ Enforce(a)
Fails(a) ==
    \/ CallFails(a) \/ PushFails(a) \/ PutFails(a) \/ EnforceFails(a)
    \/ ApiGivesUp(a) \/ \E u \in Actors : AgentGivesUp(a, u)

Begins(t) ==
    \/ \E p \in Places : ForwardCreate(t, p)
    \/ \E p \in Ports : ForwardDelete(t, p)
    \/ SettingsPush(t)
    \/ \E s \in Sessions : StartSession(t, s) \/ DeleteSession(t, s) \/ ReaperRemoves(t, s)

Environment ==
    \/ \E p \in Ports : Expire(p)
    \/ \E s \in Sessions : Pause(s) \/ ContainerExits(s) \/ RowCloses(s)
    \/ TableLost \/ RouterRestart \/ AgentRestart \/ ApiRestart

Next ==
    \/ \E t \in Threads : Begins(t) \/ Proceeds(t)
    \/ \E a \in Actors : Syncs(a) \/ Fails(a)
    \/ Reconcile
    \/ Environment

Spec == Init /\ [][Next]_vars

\* A request that has begun goes on, calls that are made again and again get through
\* at last, and the loop of the router runs.
Fairness ==
    /\ \A a \in Actors : WF_vars(Proceeds(a) \/ Syncs(a) \/ Fails(a))
    /\ \A t \in Threads : SF_vars(AgentTakes(t))
    /\ \A a \in Actors : SF_vars(RouterTakes(a)) /\ SF_vars(Enforce(a))
    /\ WF_vars(Reconcile)

\* When the router skips the rules because they are the ones it has set last, they
\* are in force, after failed calls of nft, lost tables and restarts as well
\* (_letzter_satz in _durchsetzen).
SkipIsSound == UpToDate => router.inForce = router.zustand

\* A forward that has expired is closed: "Ist die Frist um, verschwindet die Regel
\* beim naechsten Abgleich", and that runs every 30 seconds (docs/wiki/23-netz.md).
ExpiredForwardCloses ==
    \A p \in Ports :
      []<>(/\ router.inForce # Lost
           /\ forwards[p].expired => \A r \in router.inForce.rules : r.port # p)
=============================================================================
