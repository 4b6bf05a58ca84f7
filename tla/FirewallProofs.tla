---------------------------- MODULE FirewallProofs ----------------------------
(* What holds of the router's rules for any number of API threads, sessions,    *)
(* ports and faults.                                                             *)
EXTENDS FirewallHistory, TLAPS

(* Types.                                                                        *)

LEMMA IdleType == Idle \in Actor
BY DEF Idle, Actor, Rules, Nothing

LEMMA AfterSyncType ==
    ASSUME TypeOK, NEW a \in Actors
    PROVE  AfterSync(a) \in Actor
<1>1. actors[a] \in Actor
  BY DEF TypeOK
<1>2. Nothing \in Rules
  BY DEF Nothing, Rules
<1> QED BY <1>1, <1>2, IdleType DEF AfterSync, Actor, ApiPcs

\* An actor that steps to another place in its code keeps its type.
LEMMA GotoType ==
    ASSUME TypeOK, NEW a \in Actors, NEW pc \in {"idle"} \cup ApiPcs \cup AgentPcs \cup RouterPcs,
           Goto(a, pc)
    PROVE  actors' \in [Actors -> Actor]
<1>1. actors[a] \in Actor
  BY DEF TypeOK
<1>2. [actors[a] EXCEPT !.pc = pc] \in Actor
  BY <1>1 DEF Actor
<1> QED BY <1>2 DEF Goto, TypeOK

LEMMA BeginType ==
    ASSUME TypeOK, NEW t \in Threads, NEW s \in Sessions \cup {None},
           NEW pc \in {"read", "net", "remove"},
           NEW op \in {"push", "start", "delete", "remove"},
           Begin(t, pc, op, s)
    PROVE  actors' \in [Actors -> Actor]
<1>1. [Idle EXCEPT !.pc = pc, !.op = op, !.session = s] \in Actor
  BY DEF Idle, Actor, ApiPcs, AgentPcs, Rules, Nothing
<1>2. t \in Actors
  BY DEF Actors
<1> QED BY <1>1, <1>2 DEF Begin, TypeOK

\* An actor that goes on after a push, or gives up.
LEMMA ReplaceType ==
    ASSUME TypeOK, NEW a \in Actors, NEW r \in Actor,
           actors' = [actors EXCEPT ![a] = r]
    PROVE  actors' \in [Actors -> Actor]
BY DEF TypeOK

LEMMA InitType == Init => TypeOK
<1> SUFFICES ASSUME Init PROVE TypeOK
  OBVIOUS
<1> USE NetAssumption
<1>1. forwards \in [Ports -> Forward]
  BY DEF Init, Forward, NoForward
<1>2. docker \in [Sessions -> Net]
  BY DEF Init, Net
<1>3. Nothing \in Rules
  BY DEF Nothing, Rules
<1>4. actors \in [Actors -> Actor]
  BY IdleType DEF Init
<1> QED BY <1>1, <1>2, <1>3, <1>4 DEF Init, TypeOK, RowStates

LEMMA EnforcedType ==
    ASSUME TypeOK
    PROVE  Enforced \in [zustand : Rules, file : Rules \cup {Lost},
                         last : Rules \cup {Lost}, inForce : Rules \cup {Lost}]
BY DEF Enforced, TypeOK

LEMMA BeginsType ==
    ASSUME TypeOK, NEW t \in Threads, Begins(t)
    PROVE  TypeOK'
<1> USE NetAssumption
<1>1. ASSUME NEW p \in Places, ForwardCreate(t, p) PROVE TypeOK'
  <2>1. forwards' \in [Ports -> Forward]
    BY <1>1 DEF ForwardCreate, TypeOK, Forward
  <2>2. actors' \in [Actors -> Actor]
    BY <1>1, BeginType DEF ForwardCreate
  <2> QED BY <1>1, <2>1, <2>2 DEF ForwardCreate, TypeOK
<1>2. ASSUME NEW p \in Ports, ForwardDelete(t, p) PROVE TypeOK'
  <2>1. forwards' \in [Ports -> Forward]
    BY <1>2 DEF ForwardDelete, TypeOK, Forward, NoForward
  <2>2. actors' \in [Actors -> Actor]
    BY <1>2, BeginType DEF ForwardDelete
  <2> QED BY <1>2, <2>1, <2>2 DEF ForwardDelete, TypeOK
<1>3. ASSUME SettingsPush(t) PROVE TypeOK'
  <2>1. actors' \in [Actors -> Actor]
    BY <1>3, BeginType DEF SettingsPush
  <2> QED BY <1>3, <2>1 DEF SettingsPush, TypeOK
<1>4. ASSUME NEW s \in Sessions, StartSession(t, s) PROVE TypeOK'
  <2>1. actors' \in [Actors -> Actor]
    BY <1>4, BeginType DEF StartSession
  <2> QED BY <1>4, <2>1 DEF StartSession, TypeOK, RowStates
<1>5. ASSUME NEW s \in Sessions, DeleteSession(t, s) PROVE TypeOK'
  <2>1. actors' \in [Actors -> Actor]
    BY <1>5, BeginType DEF DeleteSession
  <2>2. rows' \in [Sessions -> RowStates]
    BY <1>5 DEF DeleteSession, TypeOK, RowStates
  <2> QED BY <1>5, <2>1, <2>2 DEF DeleteSession, TypeOK
<1>6. ASSUME NEW s \in Sessions, ReaperRemoves(t, s) PROVE TypeOK'
  <2>1. actors' \in [Actors -> Actor]
    BY <1>6, BeginType DEF ReaperRemoves
  <2> QED BY <1>6, <2>1 DEF ReaperRemoves, TypeOK
<1> QED BY <1>1, <1>2, <1>3, <1>4, <1>5, <1>6 DEF Begins

\* What _schieben reads is a list of ports of the table and of live sessions.
LEMMA ReadWantedType ==
    ASSUME TypeOK, NEW t \in Threads, ReadWanted(t)
    PROVE  TypeOK'
<1> USE NetAssumption
<1>1. PICK pick \in [Places -> Sessions \cup {None}] :
        LET due == {p \in Ports : Open(p) /\ pick[forwards[p].place] # None} IN
        actors' = [actors EXCEPT
          ![t].pc = "push",
          ![t].list = {[port |-> p, session |-> pick[forwards[p].place]] : p \in due}]
  BY DEF ReadWanted
<1> DEFINE due == {p \in Ports : Open(p) /\ pick[forwards[p].place] # None}
<1> DEFINE list == {[port |-> p, session |-> pick[forwards[p].place]] : p \in due}
<1>2. ASSUME NEW p \in due PROVE pick[forwards[p].place] \in Sessions
  <2>1. forwards[p] \in Forward /\ forwards[p].place # None
    BY DEF TypeOK, Open
  <2>2. forwards[p].place \in Places
    BY <2>1 DEF Forward
  <2> QED BY <2>2
<1>3. list \in SUBSET Wanted
  BY <1>2 DEF Wanted
<1>4. t \in Actors
  BY DEF Actors
<1>5. actors[t] \in Actor
  BY <1>4 DEF TypeOK
<1> HIDE DEF list
<1>6. [actors[t] EXCEPT !.pc = "push", !.list = list] \in Actor
  BY <1>3, <1>5 DEF Actor, AgentPcs, ApiPcs
<1>7. actors' = [actors EXCEPT ![t] = [actors[t] EXCEPT !.pc = "push", !.list = list]]
  BY <1>1 DEF list
<1>8. actors' \in [Actors -> Actor]
  BY <1>4, <1>6, <1>7, ReplaceType
<1> QED BY <1>8 DEF ReadWanted, TypeOK

LEMMA NetChangeType ==
    ASSUME TypeOK, NEW s, NEW n \in Subnets \cup {None}, NEW c \in {"none", "running", "exited"}
    PROVE  /\ [docker EXCEPT ![s].subnet = n] \in [Sessions -> Net]
           /\ [docker EXCEPT ![s].container = c] \in [Sessions -> Net]
<1>1. docker \in [Sessions -> Net]
  BY DEF TypeOK
<1>2. CASE s \in Sessions
  <2>1. /\ [docker[s] EXCEPT !.subnet = n] \in Net
        /\ [docker[s] EXCEPT !.container = c] \in Net
    BY <1>1, <1>2 DEF Net
  <2> QED BY <1>1, <2>1
<1>3. CASE s \notin Sessions
  BY <1>1, <1>3
<1> QED BY <1>2, <1>3

LEMMA ProceedsType ==
    ASSUME TypeOK, NEW t \in Threads, Proceeds(t)
    PROVE  TypeOK'
<1> USE NetAssumption
<1>0. t \in Actors /\ actors[t] \in Actor
  BY DEF Actors, TypeOK
<1>1. ASSUME ReadWanted(t) PROVE TypeOK'
  BY <1>1, ReadWantedType
<1>2. ASSUME NetCreate(t) PROVE TypeOK'
  <2>0. PICK n \in Subnets \ UsedSubnets :
          docker' = [docker EXCEPT ![actors[t].session].subnet = n]
    BY <1>2 DEF NetCreate
  <2>1. docker' \in [Sessions -> Net]
    BY <2>0, NetChangeType
  <2>2. actors' \in [Actors -> Actor]
    BY <1>0, <1>2, GotoType DEF NetCreate, AgentPcs
  <2> QED BY <1>2, <2>1, <2>2 DEF NetCreate, TypeOK
<1>3. ASSUME ContainerRun(t) PROVE TypeOK'
  <2>1. docker' \in [Sessions -> Net]
    BY <1>3, NetChangeType DEF ContainerRun
  <2>2. actors' \in [Actors -> Actor]
    BY <1>0, <1>3, GotoType DEF ContainerRun, AgentPcs
  <2> QED BY <1>3, <2>1, <2>2 DEF ContainerRun, TypeOK
<1>4. ASSUME RemoveContainer(t) PROVE TypeOK'
  <2>1. docker' \in [Sessions -> Net]
    BY <1>4 DEF RemoveContainer, TypeOK, Net
  <2>2. actors' \in [Actors -> Actor]
    BY <1>0, <1>4, GotoType DEF RemoveContainer, AgentPcs
  <2> QED BY <1>4, <2>1, <2>2 DEF RemoveContainer, TypeOK
<1>5. ASSUME NetRemove(t) PROVE TypeOK'
  <2>0. PICK n \in {None, docker[actors[t].session].subnet} :
          docker' = [docker EXCEPT ![actors[t].session].subnet = n]
    BY <1>5 DEF NetRemove
  <2>1. docker' \in [Sessions -> Net]
    <3>1. CASE actors[t].session \in Sessions
      <4>1. n \in Subnets \cup {None}
        BY <3>1 DEF TypeOK, Net
      <4> QED BY <2>0, <4>1, NetChangeType
    <3>2. CASE actors[t].session \notin Sessions
      BY <2>0, <3>2 DEF TypeOK
    <3> QED BY <3>1, <3>2
  <2>2. actors' \in [Actors -> Actor]
    BY <1>0, <1>5, GotoType DEF NetRemove, AgentPcs
  <2> QED BY <1>5, <2>1, <2>2 DEF NetRemove, TypeOK
<1>6. ASSUME Book(t) PROVE TypeOK'
  <2>1. [Idle EXCEPT !.pc = "read", !.op = "push"] \in Actor
    BY IdleType DEF Actor, ApiPcs
  <2>2. actors' \in [Actors -> Actor]
    BY <1>0, <1>6, <2>1, ReplaceType DEF Book
  <2>3. rows' \in [Sessions -> RowStates]
    BY <1>6 DEF Book, TypeOK, RowStates
  <2> QED BY <1>6, <2>2, <2>3 DEF Book, TypeOK
<1>7. ASSUME AgentTakes(t) PROVE TypeOK'
  <2>1. [actors[t] EXCEPT !.pc = "nets", !.list = {}] \in Actor
    BY <1>0 DEF Actor, AgentPcs
  <2>2. actors' = [actors EXCEPT ![t] = [actors[t] EXCEPT !.pc = "nets", !.list = {}]]
    BY <1>7 DEF AgentTakes
  <2>3. actors' \in [Actors -> Actor]
    BY <1>0, <2>1, <2>2, ReplaceType
  <2>4. agent' \in [memory : SUBSET Wanted, file : {Lost} \cup SUBSET Wanted]
    BY <1>0, <1>7 DEF AgentTakes, TypeOK, Actor
  <2> QED BY <1>7, <2>3, <2>4 DEF AgentTakes, TypeOK
<1> QED BY <1>1, <1>2, <1>3, <1>4, <1>5, <1>6, <1>7 DEF Proceeds

LEMMA SyncsType ==
    ASSUME TypeOK, NEW a \in Actors, Syncs(a)
    PROVE  TypeOK'
<1> USE NetAssumption
<1>0. actors[a] \in Actor
  BY DEF TypeOK
<1>1. ASSUME ReadNets(a) PROVE TypeOK'
  <2> DEFINE r == [actors[a] EXCEPT !.pc = "rules", !.state.nets = UsedSubnets]
  <2>1. UsedSubnets \in SUBSET Subnets
    BY DEF UsedSubnets, TypeOK, Net
  <2>2. r \in Actor
    BY <1>0, <2>1 DEF Actor, AgentPcs, Rules
  <2>3. actors' = [actors EXCEPT ![a] = r]
    BY <1>1 DEF ReadNets
  <2> HIDE DEF r
  <2>4. actors' \in [Actors -> Actor]
    BY <2>2, <2>3, ReplaceType
  <2> QED BY <1>1, <2>4 DEF ReadNets, TypeOK
<1>2. ASSUME ReadRules(a) PROVE TypeOK'
  <2> DEFINE rules == {[port |-> f.port, subnet |-> docker[f.session].subnet] : f \in Resolved}
  <2>1. rules \in SUBSET Rule
    BY DEF Resolved, TypeOK, Net, Wanted, Rule
  <2>2. actors' = [actors EXCEPT ![a] = [actors[a] EXCEPT !.pc = "put", !.state.rules = rules]]
    BY <1>2 DEF ReadRules
  <2> HIDE DEF rules
  <2>3. [actors[a] EXCEPT !.pc = "put", !.state.rules = rules] \in Actor
    BY <1>0, <2>1 DEF Actor, AgentPcs, Rules
  <2>4. actors' \in [Actors -> Actor]
    BY <2>2, <2>3, ReplaceType
  <2> QED BY <1>2, <2>4 DEF ReadRules, TypeOK
<1>3. ASSUME RouterTakes(a) PROVE TypeOK'
  <2> DEFINE r == [actors[a] EXCEPT !.pc = "enforce", !.state = Nothing]
  <2>1. r \in Actor
    BY <1>0 DEF Actor, RouterPcs, Rules, Nothing
  <2>2. actors' = [actors EXCEPT ![a] = r]
    BY <1>3 DEF RouterTakes
  <2> HIDE DEF r
  <2>3. actors' \in [Actors -> Actor]
    BY <2>1, <2>2, ReplaceType
  <2>4. router' \in [zustand : Rules, file : Rules \cup {Lost},
                     last : Rules \cup {Lost}, inForce : Rules \cup {Lost}]
    BY <1>0, <1>3 DEF RouterTakes, TypeOK, Actor
  <2> QED BY <1>3, <2>3, <2>4 DEF RouterTakes, TypeOK
<1>4. ASSUME Enforce(a) PROVE TypeOK'
  <2>1. actors' \in [Actors -> Actor]
    BY <1>4, AfterSyncType, ReplaceType DEF Enforce
  <2> QED BY <1>4, <2>1, EnforcedType DEF Enforce, TypeOK
<1> QED BY <1>1, <1>2, <1>3, <1>4 DEF Syncs

LEMMA FailsType ==
    ASSUME TypeOK, NEW a \in Actors, Fails(a)
    PROVE  TypeOK'
<1>1. ASSUME CallFails(a) PROVE TypeOK'
  <2>1. rows' \in [Sessions -> RowStates]
    BY <1>1 DEF CallFails, Failed, TypeOK, RowStates
  <2>2. actors' \in [Actors -> Actor]
    BY <1>1, IdleType, ReplaceType DEF CallFails
  <2> QED BY <1>1, <2>1, <2>2 DEF CallFails, TypeOK
<1>2. ASSUME PushFails(a) PROVE TypeOK'
  <2>1. actors' \in [Actors -> Actor]
    BY <1>2, IdleType, ReplaceType DEF PushFails
  <2> QED BY <1>2, <2>1 DEF PushFails, TypeOK
<1>3. ASSUME PutFails(a) PROVE TypeOK'
  <2>1. actors' \in [Actors -> Actor]
    BY <1>3, AfterSyncType, ReplaceType DEF PutFails
  <2> QED BY <1>3, <2>1 DEF PutFails, TypeOK
<1>4. ASSUME EnforceFails(a) PROVE TypeOK'
  <2>1. actors' \in [Actors -> Actor]
    BY <1>4, AfterSyncType, ReplaceType DEF EnforceFails
  <2> QED BY <1>4, <2>1 DEF EnforceFails, NftFails, TypeOK
<1>5. \A b \in Actors : Orphaned(b) \in Actor
  BY DEF TypeOK, Orphaned, Actor
<1>6. ASSUME ApiGivesUp(a) PROVE TypeOK'
  <2>1. rows' \in [Sessions -> RowStates]
    BY <1>6 DEF ApiGivesUp, Failed, TypeOK, RowStates
  <2>2. actors' \in [Actors -> Actor]
    BY <1>5, <1>6, ReplaceType DEF ApiGivesUp
  <2> QED BY <1>6, <2>1, <2>2 DEF ApiGivesUp, TypeOK
<1>7. ASSUME NEW u \in Actors, AgentGivesUp(a, u) PROVE TypeOK'
  <2>1. actors' \in [Actors -> Actor]
    BY <1>5, <1>7, AfterSyncType DEF AgentGivesUp, TypeOK
  <2>2. faults' \in 0 .. MaxFaults
    BY <1>7, NetAssumption DEF AgentGivesUp, Fault, TypeOK
  <2> QED BY <1>7, <2>1, <2>2 DEF AgentGivesUp, TypeOK
<1> QED BY <1>1, <1>2, <1>3, <1>4, <1>6, <1>7 DEF Fails

LEMMA EnvironmentType ==
    ASSUME TypeOK, Environment
    PROVE  TypeOK'
<1> USE NetAssumption
<1>0. ASSUME Fault PROVE faults' \in 0 .. MaxFaults
  BY <1>0 DEF Fault, TypeOK
<1>1. ASSUME NEW p \in Ports, Expire(p) PROVE TypeOK'
  <2>0. forwards[p].place \in Places \cup {None}
    BY DEF TypeOK, Forward
  <2>1. [place |-> forwards[p].place, expired |-> TRUE] \in Forward
    BY <2>0 DEF Forward
  <2>2. forwards' \in [Ports -> Forward]
    BY <1>1, <2>1 DEF Expire, TypeOK
  <2> QED BY <1>1, <2>2 DEF Expire, TypeOK
<1>2. ASSUME NEW s \in Sessions, Pause(s) PROVE TypeOK'
  BY <1>2 DEF Pause, TypeOK, RowStates
<1>3. ASSUME NEW s \in Sessions, ContainerExits(s) PROVE TypeOK'
  <2>1. docker' \in [Sessions -> Net]
    BY <1>3 DEF ContainerExits, TypeOK, Net
  <2> QED BY <1>3, <2>1 DEF ContainerExits, TypeOK
<1>4. ASSUME NEW s \in Sessions, RowCloses(s) PROVE TypeOK'
  BY <1>4 DEF RowCloses, TypeOK, RowStates
<1>5. ASSUME TableLost PROVE TypeOK'
  BY <1>0, <1>5 DEF TableLost, TypeOK
<1>6. ASSUME RouterRestart PROVE TypeOK'
  <2>1. Nothing \in Rules
    BY DEF Nothing, Rules
  <2>2. router' \in [zustand : Rules, file : Rules \cup {Lost},
                     last : Rules \cup {Lost}, inForce : Rules \cup {Lost}]
    BY <1>6, <2>1 DEF RouterRestart, TypeOK
  <2>3. \A a \in Actors : actors[a] \in Actor /\ AfterSync(a) \in Actor
    BY AfterSyncType DEF TypeOK
  <2>4. actors' \in [Actors -> Actor]
    BY <1>6, <2>3 DEF RouterRestart
  <2> QED BY <1>0, <1>6, <2>2, <2>4 DEF RouterRestart, TypeOK
<1>7. \A a \in Actors : actors[a] \in Actor /\ Orphaned(a) \in Actor
  BY DEF TypeOK, Orphaned, Actor
<1>8. ASSUME AgentRestart PROVE TypeOK'
  <2>1. agent' \in [memory : SUBSET Wanted, file : {Lost} \cup SUBSET Wanted]
    BY <1>8 DEF AgentRestart, TypeOK
  <2>2. [Idle EXCEPT !.pc = "nets", !.op = "boot"] \in Actor
    BY IdleType DEF Actor, AgentPcs
  <2>3. actors' \in [Actors -> Actor]
    BY <1>7, <1>8, <2>2, IdleType DEF AgentRestart
  <2>4. rows' \in [Sessions -> RowStates]
    BY <1>8 DEF AgentRestart, TypeOK, RowStates
  <2> QED BY <1>0, <1>8, <2>1, <2>3, <2>4 DEF AgentRestart, TypeOK
<1>9. ASSUME ApiRestart PROVE TypeOK'
  <2>1. actors' \in [Actors -> Actor]
    BY <1>7, <1>9, IdleType DEF ApiRestart
  <2> QED BY <1>0, <1>9, <2>1 DEF ApiRestart, TypeOK
<1> QED BY <1>1, <1>2, <1>3, <1>4, <1>5, <1>6, <1>8, <1>9 DEF Environment

LEMMA NextType == TypeOK /\ [Next]_vars => TypeOK'
<1> SUFFICES ASSUME TypeOK, [Next]_vars PROVE TypeOK'
  OBVIOUS
<1>1. ASSUME Reconcile PROVE TypeOK'
  BY <1>1, EnforcedType DEF Reconcile, TypeOK
<1>2. ASSUME UNCHANGED vars PROVE TypeOK'
  BY <1>2 DEF vars, TypeOK
<1> QED
  BY <1>1, <1>2, BeginsType, ProceedsType, SyncsType, FailsType, EnvironmentType DEF Next

\* Everything the database, Docker, the agent and the router hold has its type, however
\* many pushes, failed calls, restarts and lost tables there are.
THEOREM FirewallTypeCorrect == Spec => []TypeOK
BY InitType, NextType, PTL DEF Spec

(* The shortcut of the router.                                                   *)

\* What is in force, if anything, is what was set last.
LastInForce == router.inForce # Lost => router.inForce = router.last

LEMMA InForceIsLast == Spec => []LastInForce
<1>1. Init => LastInForce
  BY DEF Init, LastInForce
<1>2. TypeOK /\ LastInForce /\ [Next]_vars => LastInForce'
  <2> SUFFICES ASSUME TypeOK, LastInForce, [Next]_vars PROVE LastInForce'
    OBVIOUS
  <2>0. ASSUME UNCHANGED router PROVE LastInForce'
    BY <2>0 DEF LastInForce
  <2>1. Enforced.inForce # Lost => Enforced.inForce = Enforced.last
    BY DEF Enforced, LastInForce, TypeOK
  <2>2. ASSUME NEW t \in Threads, Begins(t) \/ Proceeds(t) PROVE LastInForce'
    BY <2>0, <2>2 DEF Begins, Proceeds, ForwardCreate, ForwardDelete, SettingsPush, StartSession,
       DeleteSession, ReaperRemoves, ReadWanted, NetCreate, ContainerRun, RemoveContainer,
       NetRemove, Book, AgentTakes
  <2>3. ASSUME NEW a \in Actors, RouterTakes(a) PROVE LastInForce'
    BY <2>3 DEF RouterTakes, LastInForce, TypeOK
  <2>4. ASSUME NEW a \in Actors, Enforce(a) PROVE LastInForce'
    BY <2>1, <2>4 DEF Enforce, LastInForce
  <2>5. ASSUME NEW a \in Actors, ReadNets(a) \/ ReadRules(a) \/ Fails(a) PROVE LastInForce'
    BY <2>0, <2>5 DEF ReadNets, ReadRules, Fails, CallFails, PushFails, PutFails, EnforceFails,
       NftFails, ApiGivesUp, AgentGivesUp
  <2>6. ASSUME Reconcile PROVE LastInForce'
    BY <2>1, <2>6 DEF Reconcile, LastInForce
  <2>7. ASSUME Environment PROVE LastInForce'
    <3>1. CASE TableLost \/ RouterRestart
      BY <3>1 DEF TableLost, RouterRestart, LastInForce, TypeOK
    <3>2. CASE ~(TableLost \/ RouterRestart)
      BY <2>0, <2>7, <3>2 DEF Environment, Expire, Pause, ContainerExits, RowCloses, AgentRestart,
         ApiRestart
    <3> QED BY <3>1, <3>2
  <2>8. ASSUME UNCHANGED vars PROVE LastInForce'
    BY <2>0, <2>8 DEF vars
  <2> QED BY <2>2, <2>3, <2>4, <2>5, <2>6, <2>7, <2>8 DEF Next, Syncs
<1> QED BY <1>1, <1>2, FirewallTypeCorrect, PTL DEF Spec

\* Skipping the rules that were set last is sound, in every state of the services
\* (_durchsetzen and _letzter_satz, firewall/otafw/main.py).
THEOREM SkippingIsSound == Spec => []SkipIsSound
<1>1. LastInForce => SkipIsSound
  BY DEF LastInForce, SkipIsSound, UpToDate
<1> QED BY <1>1, InForceIsLast, PTL

(* The next push that gets through.                                              *)

\* A thread reads what it pushes only to push it.
PushReads == \A a \in Actors : actors[a].pc = "read" => actors[a].op = "push"

LEMMA PushReadsInv == Spec => []PushReads
<1>1. Init => PushReads
  BY DEF Init, PushReads, Idle
<1>2. TypeOK /\ PushReads /\ [Next]_vars => PushReads'
  <2> SUFFICES ASSUME TypeOK, PushReads, [Next]_vars, NEW b \in Actors, actors'[b].pc = "read"
               PROVE  actors'[b].op = "push"
    BY DEF PushReads
  <2>0. ASSUME actors'[b] = actors[b] PROVE actors'[b].op = "push"
    BY <2>0 DEF PushReads
  <2>1. ASSUME NEW t \in Threads, Begins(t) PROVE actors'[b].op = "push"
    <3>1. PICK pc \in {"read", "net", "remove"}, op \in {"push", "start", "delete", "remove"},
               s \in Sessions \cup {None} :
            Begin(t, pc, op, s) /\ (pc = "read" => op = "push")
      BY <2>1 DEF Begins, ForwardCreate, ForwardDelete, SettingsPush, StartSession,
         DeleteSession, ReaperRemoves
    <3>2. b # t => actors'[b] = actors[b]
      BY <3>1 DEF Begin, TypeOK
    <3>3. b = t => actors'[b] = [Idle EXCEPT !.pc = pc, !.op = op, !.session = s]
      BY <3>1 DEF Begin, TypeOK
    <3>4. [Idle EXCEPT !.pc = pc, !.op = op, !.session = s].pc = pc
      BY DEF Idle
    <3>5. [Idle EXCEPT !.pc = pc, !.op = op, !.session = s].op = op
      BY DEF Idle
    <3> QED BY <2>0, <3>1, <3>2, <3>3, <3>4, <3>5
  <2>2. ASSUME NEW t \in Threads, Proceeds(t) PROVE actors'[b].op = "push"
    <3>1. b # t => actors'[b] = actors[b]
      BY <2>2 DEF Proceeds, ReadWanted, NetCreate, ContainerRun, RemoveContainer, NetRemove,
         Book, AgentTakes, Goto, TypeOK
    <3>2. CASE Book(t)
      BY <2>0, <3>1, <3>2 DEF Book, Idle, TypeOK
    <3>3. CASE ~Book(t)
      <4>1. b = t => actors'[b].pc # "read"
        BY <2>2, <3>3 DEF Proceeds, ReadWanted, NetCreate, ContainerRun, RemoveContainer,
           NetRemove, AgentTakes, Goto, TypeOK, Actor
      <4> QED BY <2>0, <3>1, <4>1
    <3> QED BY <3>2, <3>3
  <2>3. ASSUME NEW a \in Actors, Syncs(a) \/ Fails(a) PROVE actors'[b].op = "push"
    <3> DEFINE gaveUp == ApiGivesUp(a) \/ \E u \in Actors : AgentGivesUp(a, u)
    <3>1. AfterSync(a).pc # "read" /\ Idle.pc # "read"
      BY DEF AfterSync, TypeOK, Actor, Idle
    <3>2. CASE ~gaveUp
      <4>1. b # a => actors'[b] = actors[b]
        BY <2>3, <3>2 DEF Syncs, Fails, ReadNets, ReadRules, RouterTakes, Enforce, CallFails,
           PushFails, PutFails, EnforceFails, TypeOK
      <4>2. b = a => actors'[b].pc # "read"
        BY <2>3, <3>1, <3>2 DEF Syncs, Fails, ReadNets, ReadRules, RouterTakes, Enforce, CallFails,
           PushFails, PutFails, EnforceFails, TypeOK, Actor
      <4> QED BY <2>0, <4>1, <4>2
    <3>3. CASE gaveUp
      <4>1. Orphaned(a).pc = actors[a].pc
        BY DEF Orphaned, TypeOK, Actor
      <4>2. actors[a].pc # "read"
        BY <3>3 DEF ApiGivesUp, AgentGivesUp, AgentPcs, RouterPcs
      <4>3. actors'[b] \in {actors[b], Orphaned(a), AfterSync(a)}
        BY <3>3 DEF ApiGivesUp, AgentGivesUp, TypeOK
      <4> QED BY <2>0, <3>1, <4>1, <4>2, <4>3
    <3> QED BY <3>2, <3>3
  <2>4. ASSUME RouterRestart PROVE actors'[b].op = "push"
    <3>1. actors'[b] = IF actors[b].pc \in RouterPcs THEN AfterSync(b) ELSE actors[b]
      BY <2>4 DEF RouterRestart
    <3>2. AfterSync(b).pc # "read"
      BY DEF AfterSync, TypeOK, Actor, Idle
    <3> QED BY <2>0, <3>1, <3>2
  <2>5. ASSUME AgentRestart \/ ApiRestart PROVE actors'[b].op = "push"
    <3> DEFINE booted == [Idle EXCEPT !.pc = "nets", !.op = "boot"]
    <3>1. \/ actors'[b] = Idle
          \/ actors'[b] = booted
          \/ actors'[b] = actors[b]
          \/ actors[b].pc \in RouterPcs \cup AgentPcs /\ actors'[b] = Orphaned(b)
      BY <2>5 DEF AgentRestart, ApiRestart
    <3>2. actors[b].pc \in RouterPcs \cup AgentPcs => Orphaned(b).pc # "read"
      BY DEF Orphaned, TypeOK, Actor, RouterPcs, AgentPcs
    <3>3. Idle.pc # "read" /\ booted.pc # "read"
      BY DEF Idle
    <3> HIDE DEF booted
    <3> QED BY <2>0, <3>1, <3>2, <3>3
  <2>6. ASSUME UNCHANGED actors PROVE actors'[b].op = "push"
    BY <2>0, <2>6
  <2> QED BY <2>1, <2>2, <2>3, <2>4, <2>5, <2>6
          DEF Next, Environment, Reconcile, Expire, Pause, ContainerExits, RowCloses, TableLost, vars
<1> QED BY <1>1, <1>2, FirewallTypeCorrect, PTL DEF Spec

\* The list names the forwards that are open and have a running session, each with one.
ListRight(L) ==
    /\ \A w \in L : Open(w.port) /\ w.session \in RunningIn(forwards[w.port].place)
    /\ \A p \in Ports :
         Open(p) /\ RunningIn(forwards[p].place) # {} => \E w \in L : w.port = p

\* What a push that is alone has made right, on its way from the database to the router.
PushRight(t) ==
    /\ Alone(t)
    /\ actors[t].op \in {"push", "lost"}
    /\ actors[t].pc \in {"push", "nets", "rules", "put", "enforce"}
    /\ actors[t].pc = "push" => ListRight(actors[t].list)
    /\ actors[t].pc \in {"nets", "rules"} => ListRight(agent.memory)
    /\ actors[t].pc \in {"rules", "put"} => actors[t].state.nets = UsedSubnets
    /\ actors[t].pc = "put" => RulesRight(actors[t].state.rules)
    /\ actors[t].pc = "enforce" =>
         router.zustand.nets = UsedSubnets /\ RulesRight(router.zustand.rules)

SoloRight == solo # None => solo \in Threads /\ PushRight(solo)

LEMMA ResolvedRight ==
    ASSUME TypeOK, ListRight(agent.memory)
    PROVE  RulesRight({[port |-> f.port, subnet |-> docker[f.session].subnet] : f \in Resolved})
<1> DEFINE R == {[port |-> f.port, subnet |-> docker[f.session].subnet] : f \in Resolved}
<1>1. ASSUME NEW r \in R
      PROVE  /\ Open(r.port)
             /\ \E s \in RunningIn(forwards[r.port].place) :
                  Reachable(s) /\ docker[s].subnet = r.subnet
  <2>1. PICK f \in Resolved : r = [port |-> f.port, subnet |-> docker[f.session].subnet]
    OBVIOUS
  <2>2. f \in agent.memory /\ Reachable(f.session)
    BY DEF Resolved, Reachable
  <2>3. Open(f.port) /\ f.session \in RunningIn(forwards[f.port].place)
    BY <2>2 DEF ListRight
  <2>4. r.port = f.port /\ r.subnet = docker[f.session].subnet
    BY <2>1
  <2> QED BY <2>2, <2>3, <2>4
<1>2. ASSUME NEW p \in Ports, Open(p), RunningIn(forwards[p].place) # {},
             \A s \in RunningIn(forwards[p].place) : Reachable(s)
      PROVE  \E r \in R : r.port = p
  <2>1. PICK f \in agent.memory : f.port = p
    BY <1>2 DEF ListRight
  <2>2. f.session \in RunningIn(forwards[p].place)
    BY <2>1 DEF ListRight
  <2>3. f \in Resolved
    BY <1>2, <2>2 DEF Resolved, Reachable
  <2> DEFINE r == [port |-> f.port, subnet |-> docker[f.session].subnet]
  <2>4. r \in R /\ r.port = p
    BY <2>1, <2>3
  <2> QED BY <2>4
<1> QED BY <1>1, <1>2 DEF RulesRight

LEMMA ListReadRight ==
    ASSUME TypeOK, NEW t \in Threads, ReadWanted(t)
    PROVE  ListRight(actors'[t].list)
<1> USE NetAssumption
<1>1. PICK pick \in [Places -> Sessions \cup {None}] :
        /\ \A p \in Places : IF RunningIn(p) = {} THEN pick[p] = None
                             ELSE pick[p] \in RunningIn(p)
        /\ LET due == {p \in Ports : Open(p) /\ pick[forwards[p].place] # None} IN
           actors' = [actors EXCEPT
             ![t].pc = "push",
             ![t].list = {[port |-> p, session |-> pick[forwards[p].place]] : p \in due}]
  BY DEF ReadWanted
<1> DEFINE due == {p \in Ports : Open(p) /\ pick[forwards[p].place] # None}
<1> DEFINE list == {[port |-> p, session |-> pick[forwards[p].place]] : p \in due}
<1>2. actors[t] \in Actor /\ t \in Actors
  BY DEF TypeOK, Actors
<1>3. actors'[t].list = list
  <2> HIDE DEF list
  <2>1. actors' = [actors EXCEPT ![t].pc = "push", ![t].list = list]
    BY <1>1 DEF list
  <2> QED BY <1>2, <2>1 DEF TypeOK, Actor
<1>4. ASSUME NEW p \in Ports, Open(p)
      PROVE  /\ forwards[p].place \in Places
             /\ RunningIn(forwards[p].place) = {} => pick[forwards[p].place] = None
             /\ RunningIn(forwards[p].place) # {} =>
                  /\ pick[forwards[p].place] \in RunningIn(forwards[p].place)
                  /\ pick[forwards[p].place] # None
  <2>1. forwards[p].place \in Places
    BY <1>4 DEF TypeOK, Open, Forward
  <2> QED BY <1>1, <2>1 DEF RunningIn
<1>5. ASSUME NEW w \in list
      PROVE  Open(w.port) /\ w.session \in RunningIn(forwards[w.port].place)
  <2>1. PICK p \in due : w = [port |-> p, session |-> pick[forwards[p].place]]
    OBVIOUS
  <2> QED BY <1>4, <2>1
<1>6. ASSUME NEW p \in Ports, Open(p), RunningIn(forwards[p].place) # {}
      PROVE  \E w \in list : w.port = p
  <2> DEFINE w == [port |-> p, session |-> pick[forwards[p].place]]
  <2>1. w \in list /\ w.port = p
    BY <1>4, <1>6
  <2> QED BY <2>1
<1> QED BY <1>3, <1>5, <1>6 DEF ListRight

\* The push begins to be alone with what it has just read.
LEMMA ReadAlone ==
    ASSUME TypeOK, PushReads, NEW t \in Threads, ReadWanted(t), Alone(t)
    PROVE  PushRight(t)'
<1>1. t \in Actors /\ actors \in [Actors -> Actor] /\ actors[t] \in Actor
  BY DEF Actors, TypeOK
<1>2. PICK list : actors' = [actors EXCEPT ![t].pc = "push", ![t].list = list]
  BY DEF ReadWanted
<1>3. actors'[t].pc = "push" /\ actors'[t].op = "push"
  BY <1>1, <1>2 DEF ReadWanted, PushReads, Actor
<1>4. \A a \in Actors \ {t} : actors'[a].pc = "idle"
  BY <1>1, <1>2 DEF Alone
<1>5. ListRight(actors[t].list)'
  <2>1. UNCHANGED <<forwards, rows>>
    BY DEF ReadWanted
  <2>2. ListRight(actors'[t].list)
    BY ListReadRight
  <2> QED BY <2>1, <2>2 DEF ListRight, Open, RunningIn
<1> QED BY <1>3, <1>4, <1>5 DEF PushRight, Alone

\* Each step of a push that stays alone hands on what is right.
LEMMA StepAlone ==
    ASSUME TypeOK, NEW t \in Threads, PushRight(t), Next, Undisturbed(t), actors'[t].pc # "idle"
    PROVE  PushRight(t)'
<1> USE NetAssumption
<1>1. /\ t \in Actors /\ actors \in [Actors -> Actor] /\ actors[t] \in Actor
      /\ faults \in Nat /\ Boot # t
  BY DEF Actors, TypeOK
<1>2. /\ actors[t].op \in {"push", "lost"}
      /\ actors[t].pc \in {"push", "nets", "rules", "put", "enforce"}
  BY DEF PushRight
<1>3. Alone(t)'
  BY DEF PushRight, Alone, Undisturbed
<1>4. UNCHANGED UsedSubnets
  BY DEF Undisturbed, UsedSubnets
<1>5. ASSUME actors'[t].pc = actors[t].pc, actors'[t].op \in {"push", "lost"},
             actors'[t].list = actors[t].list, actors'[t].state = actors[t].state,
             agent'.memory = agent.memory, router'.zustand = router.zustand
      PROVE  PushRight(t)'
  <2>1. actors[t].pc = "push" => ListRight(actors[t].list)'
    BY <1>5 DEF PushRight, ListRight, Undisturbed, Open, RunningIn
  <2>2. actors[t].pc \in {"nets", "rules"} => ListRight(agent.memory)'
    BY <1>5 DEF PushRight, ListRight, Undisturbed, Open, RunningIn
  <2>3. actors[t].pc = "put" => RulesRight(actors[t].state.rules)'
    BY <1>5 DEF PushRight, RulesRight, Undisturbed, Open, RunningIn, Reachable
  <2>4. actors[t].pc = "enforce" => RulesRight(router.zustand.rules)'
    BY <1>5 DEF PushRight, RulesRight, Undisturbed, Open, RunningIn, Reachable
  <2> QED BY <1>3, <1>4, <1>5, <2>1, <2>2, <2>3, <2>4 DEF PushRight
<1>6. ASSUME AgentTakes(t) PROVE PushRight(t)'
  <2>1. /\ actors'[t].pc = "nets" /\ actors'[t].op \in {"push", "lost"}
        /\ actors[t].pc = "push" /\ agent'.memory = actors[t].list
    BY <1>1, <1>2, <1>6 DEF AgentTakes, Actor
  <2>2. ListRight(agent.memory)'
    BY <2>1 DEF PushRight, ListRight, Undisturbed, Open, RunningIn
  <2> QED BY <1>3, <2>1, <2>2 DEF PushRight
<1>7. ASSUME ReadNets(t) PROVE PushRight(t)'
  <2>1. /\ actors'[t].pc = "rules" /\ actors'[t].op \in {"push", "lost"}
        /\ actors'[t].state.nets = UsedSubnets
        /\ actors[t].pc = "nets" /\ agent' = agent
    BY <1>1, <1>2, <1>7 DEF ReadNets, Actor, Rules
  <2>2. ListRight(agent.memory)'
    BY <2>1 DEF PushRight, ListRight, Undisturbed, Open, RunningIn
  <2> QED BY <1>3, <1>4, <2>1, <2>2 DEF PushRight
<1>8. ASSUME ReadRules(t) PROVE PushRight(t)'
  <2> DEFINE R == {[port |-> f.port, subnet |-> docker[f.session].subnet] : f \in Resolved}
  <2>1. actors[t].pc = "rules" /\ ListRight(agent.memory) /\ actors[t].state.nets = UsedSubnets
    BY <1>8 DEF ReadRules, PushRight
  <2>2. RulesRight(R)
    BY <2>1, ResolvedRight
  <2>3. actors' = [actors EXCEPT ![t].pc = "put", ![t].state.rules = R]
    BY <1>8 DEF ReadRules
  <2> HIDE DEF R
  <2>4. /\ actors'[t].pc = "put" /\ actors'[t].op \in {"push", "lost"}
        /\ actors'[t].state.nets = UsedSubnets /\ actors'[t].state.rules = R
    BY <1>1, <1>2, <2>1, <2>3 DEF Actor, Rules
  <2>5. RulesRight(actors[t].state.rules)'
    <3>1. UNCHANGED <<forwards, rows, docker>>
      BY DEF Undisturbed
    <3>2. actors'[t].state.rules = R
      BY <2>4
    <3> QED BY <2>2, <3>1, <3>2 DEF RulesRight, Open, RunningIn, Reachable
  <2> QED BY <1>3, <1>4, <2>4, <2>5 DEF PushRight
<1>9. ASSUME RouterTakes(t) PROVE PushRight(t)'
  <2>1. /\ actors'[t].pc = "enforce" /\ actors'[t].op \in {"push", "lost"}
        /\ actors[t].pc = "put" /\ router'.zustand = actors[t].state
    BY <1>1, <1>2, <1>9 DEF RouterTakes, Actor, TypeOK
  <2>2. router'.zustand.nets = UsedSubnets'
    BY <1>4, <2>1 DEF PushRight
  <2>3. RulesRight(router.zustand.rules)'
    BY <2>1 DEF PushRight, RulesRight, Undisturbed, Open, RunningIn, Reachable
  <2> QED BY <1>3, <2>1, <2>2, <2>3 DEF PushRight
<1>10. ASSUME \/ Enforce(t) \/ CallFails(t) \/ PushFails(t) \/ PutFails(t) \/ EnforceFails(t)
       PROVE  FALSE
  <2>1. AfterSync(t) = Idle
    BY <1>2 DEF AfterSync
  <2>2. actors' = [actors EXCEPT ![t] = Idle]
    BY <1>10, <2>1 DEF Enforce, CallFails, PushFails, PutFails, EnforceFails
  <2> QED BY <1>1, <2>2 DEF Idle
<1>11. ASSUME NEW u \in Threads, Begins(u) PROVE FALSE
  <2>1. PICK pc \in {"read", "net", "remove"}, op \in {"push", "start", "delete", "remove"},
             s \in Sessions \cup {None} : Begin(u, pc, op, s)
    BY <1>11 DEF Begins, ForwardCreate, ForwardDelete, SettingsPush, StartSession,
       DeleteSession, ReaperRemoves
  <2>2. actors[u].pc = "idle" /\ actors'[u].pc = pc /\ u \in Actors
    BY <1>1, <2>1 DEF Begin, Free, Idle, Actors
  <2> QED BY <1>2, <2>2 DEF Undisturbed
<1>12. ASSUME NEW a \in Actors \ {t}, Proceeds(a) \/ Syncs(a) \/ Fails(a) PROVE FALSE
  <2>1. actors[a].pc = "idle"
    BY DEF PushRight, Alone
  <2> QED BY <1>12, <2>1 DEF Proceeds, Syncs, Fails, ReadWanted, NetCreate, ContainerRun,
             RemoveContainer, NetRemove, Book, AgentTakes, ReadNets, ReadRules, RouterTakes,
             Enforce, CallFails, PushFails, PutFails, EnforceFails, ApiGivesUp, AgentGivesUp,
             AgentPcs, RouterPcs
<1>13. ASSUME Proceeds(t) PROVE AgentTakes(t)
  BY <1>2, <1>13 DEF Proceeds, ReadWanted, NetCreate, ContainerRun, RemoveContainer, NetRemove,
     Book
<1>14. ASSUME Reconcile PROVE PushRight(t)'
  <2>1. router'.zustand = router.zustand
    BY <1>14 DEF Reconcile, Enforced, TypeOK
  <2> QED BY <1>2, <1>5, <1>14, <2>1 DEF Reconcile
<1>15. ASSUME Environment PROVE PushRight(t)'
  <2>1. ~Fault
    BY <1>1 DEF Fault, Undisturbed
  <2> QED BY <1>2, <1>5, <1>15, <2>1 DEF Environment, Expire, Pause, ContainerExits, RowCloses,
             TableLost, RouterRestart, AgentRestart, ApiRestart
<1>16. \A u \in Threads : u \in Actors
  BY DEF Actors
<1>17. ASSUME ApiGivesUp(t) PROVE PushRight(t)'
  <2>1. /\ actors'[t].pc = actors[t].pc /\ actors'[t].op = "lost"
        /\ actors'[t].list = actors[t].list /\ actors'[t].state = actors[t].state
        /\ UNCHANGED <<agent, router>>
    BY <1>1, <1>17 DEF ApiGivesUp, Orphaned, Actor
  <2> QED BY <1>5, <2>1
<1>18. ASSUME NEW u \in Actors, AgentGivesUp(t, u) PROVE FALSE
  BY <1>1, <1>18 DEF AgentGivesUp, Fault, Undisturbed
<1> QED BY <1>6, <1>7, <1>8, <1>9, <1>10, <1>11, <1>12, <1>13, <1>14, <1>15, <1>16, <1>17, <1>18
        DEF Next, Syncs, Fails

\* What the push that is alone leaves in force is right.
LEMMA EnforceAlone ==
    ASSUME TypeOK, LastInForce, NEW t \in Threads, PushRight(t), Enforce(t)
    PROVE  Agrees'
<1>1. router'.inForce = router.zustand /\ router'.inForce # Lost
  BY LostAssumption DEF Enforce, Enforced, UpToDate, LastInForce, TypeOK
<1>2. router.zustand.nets = UsedSubnets /\ RulesRight(router.zustand.rules)
  BY DEF PushRight, Enforce
<1>3. UNCHANGED <<forwards, rows, docker>>
  BY DEF Enforce
<1>4. RulesRight(router.inForce.rules)'
  BY <1>1, <1>2, <1>3 DEF RulesRight, Open, RunningIn, Reachable
<1> QED BY <1>1, <1>2, <1>3, <1>4 DEF Agrees, UsedSubnets

LEMMA SoloRightInv == HSpec => []SoloRight
<1>1. HInit => SoloRight
  BY DEF HInit, SoloRight
<1>2. TypeOK /\ PushReads /\ SoloRight /\ [HNext]_hvars => SoloRight'
  <2> SUFFICES ASSUME TypeOK, PushReads, SoloRight, [HNext]_hvars, solo' # None
               PROVE  solo' \in Threads /\ PushRight(solo)'
    BY DEF SoloRight
  <2>1. CASE UNCHANGED hvars
    <3>1. solo \in Threads /\ PushRight(solo)
      BY <2>1 DEF SoloRight, hvars
    <3> QED BY <2>1, <3>1 DEF hvars, vars, PushRight, Alone, ListRight, RulesRight, Open, RunningIn,
               Reachable, UsedSubnets
  <2>2. CASE HNext /\ \E t \in Threads : ReadWanted(t) /\ Alone(t)
    <3>1. PICK t \in Threads : ReadWanted(t) /\ Alone(t)
      BY <2>2
    <3>2. \A u \in Threads : ReadWanted(u) => u = t
      BY <3>1 DEF ReadWanted, Alone, Actors
    <3>3. solo' = CHOOSE u \in Threads : ReadWanted(u)
      BY <2>2 DEF HNext, Record
    <3>4. solo' = t
      BY <3>1, <3>2, <3>3
    <3>5. PushRight(t)'
      BY <3>1, ReadAlone
    <3> QED BY <3>4, <3>5
  <2>3. CASE HNext /\ ~\E t \in Threads : ReadWanted(t) /\ Alone(t)
    <3>1. solo # None /\ Undisturbed(solo) /\ actors'[solo].pc # "idle" /\ solo' = solo
      BY <2>3 DEF HNext, Record
    <3>2. solo \in Threads /\ PushRight(solo) /\ Next
      BY <2>3, <3>1 DEF SoloRight, HNext
    <3>3. ASSUME NEW t \in Threads, t = solo PROVE PushRight(t)'
      BY <3>1, <3>2, <3>3, StepAlone
    <3> QED BY <3>1, <3>2, <3>3
  <2> QED BY <2>1, <2>2, <2>3
<1>3. HSpec => Spec
  <2>1. HInit => Init
    BY DEF HInit
  <2>2. [HNext]_hvars => [Next]_vars
    BY DEF HNext, hvars, vars
  <2> QED BY <2>1, <2>2, PTL DEF HSpec, Spec
<1> QED BY <1>1, <1>2, <1>3, FirewallTypeCorrect, PushReadsInv, PTL DEF HSpec

\* However many pushes have overtaken each other, failed, or been lost with a restart: the
\* next one that gets through by itself puts the right rules in force (_schieben,
\* firewall_global, regelwerk, _durchsetzen).
THEOREM PushHeals == HSpec => HealsNextTime
<1> DEFINE Heals == \A t \in Threads : Enforce(t) /\ solo = t => Agrees'
<1>1. TypeOK /\ LastInForce /\ SoloRight /\ [HNext]_hvars => [Heals]_hvars
  BY NetAssumption, EnforceAlone DEF SoloRight
<1>2. HSpec => Spec
  <2>1. HInit => Init
    BY DEF HInit
  <2>2. [HNext]_hvars => [Next]_vars
    BY DEF HNext, hvars, vars
  <2> QED BY <2>1, <2>2, PTL DEF HSpec, Spec
<1> QED BY <1>1, <1>2, FirewallTypeCorrect, InForceIsLast, SoloRightInv, PTL
        DEF HSpec, HealsNextTime
===============================================================================
