---------------------------- MODULE SessionsProofs ----------------------------
(* Theorems about Sessions that hold for every number of sessions, containers,  *)
(* threads and places: type correctness, and that a row names no other          *)
(* container than the one that was made for it.                                 *)
EXTENDS Sessions, TLAPS

LEMMA InitialValues ==
    /\ NoView \in View
    /\ Idle \in Request
    /\ Asleep \in Pass
    /\ Gone \in Container
BY DEF NoView, View, Status, Live, Idle, Request, Pcs, Asleep, Nothing, Pass, Steps,
       Gone, Container

LEMMA ViewOfType == ASSUME TypeOK, NEW s \in Sessions PROVE ViewOf(s) \in View
BY DEF TypeOK, Row, View, ViewOf

LEMMA WrittenType ==
    ASSUME NEW row \in Row, NEW read \in View, NEW new \in View
    PROVE  Written(row, read, new) \in Row
BY DEF Row, View, Written

LEMMA CommitType ==
    ASSUME TypeOK, NEW t \in Threads, NEW new \in View, Commit(t, new)
    PROVE  rows' \in [Sessions -> Row]
<1>1. requests[t].read \in View
  BY DEF TypeOK, Request
<1>2. ASSUME requests[t].session \in Sessions
      PROVE  Written(rows[requests[t].session], requests[t].read, new) \in Row
  BY <1>1, <1>2, WrittenType DEF TypeOK
<1> QED BY <1>2 DEF Commit, TypeOK

LEMMA DoneType == ASSUME TypeOK, NEW t \in Threads, Done(t)
                  PROVE  requests' \in [Threads -> Request]
BY InitialValues DEF TypeOK, Done

LEMMA GotoType ==
    ASSUME TypeOK, NEW t \in Threads, NEW pc \in Pcs, NEW s \in Sessions \cup {None},
           NEW read \in View, Goto(t, pc, s, read)
    PROVE  requests' \in [Threads -> Request]
BY InitialValues DEF TypeOK, Goto, Request

LEMMA HandledType ==
    ASSUME TypeOK, NEW s \in Sessions, NEW new \in View
    PROVE  Handled(s, new) \in Pass
BY DEF TypeOK, Handled, Pass

LEMMA ReapType == ASSUME TypeOK PROVE Reap \in [Sessions -> Row]
<1> SUFFICES ASSUME NEW s \in Sessions
             PROVE  Written(rows[s], reaper.read[s], reaper.new[s]) \in Row
  BY DEF Reap
<1> QED BY WrittenType DEF TypeOK, Pass

LEMMA ChangedType ==
    ASSUME NEW views \in [Sessions -> View] PROVE Changed(views) \in [Sessions -> View]
BY InitialValues DEF Changed

LEMMA WithoutRunType ==
    ASSUME NEW view \in View, NEW new \in WithoutRun(view) PROVE new \in View
BY DEF WithoutRun, View, Status, Live

\* A start that the agent works on has a row.  TypeOK needs it: these are the
\* sessions that go into lateStarts.
StartsHaveRow ==
    \A t \in Threads : requests[t].pc = "agent" => requests[t].session \in Sessions
TInv == TypeOK /\ StartsHaveRow

LEMMA InitTInv == Init => TInv
BY InitialValues, ConstantsAssumption
   DEF Init, TInv, TypeOK, StartsHaveRow, Row, Status, Live, Idle

\* What a step of a request does to the requests is enough for StartsHaveRow.
LEMMA DoneInv == ASSUME TInv, NEW t \in Threads, Done(t)
                 PROVE  requests' \in [Threads -> Request] /\ StartsHaveRow'
BY InitialValues DEF TInv, TypeOK, StartsHaveRow, Done, Idle

LEMMA GotoInv ==
    ASSUME TInv, NEW t \in Threads, NEW pc \in Pcs, NEW s \in Sessions \cup {None},
           NEW read \in View, Goto(t, pc, s, read), pc = "agent" => s \in Sessions
    PROVE  requests' \in [Threads -> Request] /\ StartsHaveRow'
<1>1. [Idle EXCEPT !.pc = pc, !.place = requests[t].place, !.session = s, !.read = read]
        \in Request
  BY InitialValues DEF TInv, TypeOK, Request
<1>2. [Idle EXCEPT !.pc = pc, !.place = requests[t].place, !.session = s,
                   !.read = read].pc = pc
  BY DEF Idle
<1>3. [Idle EXCEPT !.pc = pc, !.place = requests[t].place, !.session = s,
                   !.read = read].session = s
  BY DEF Idle
<1> QED BY <1>1, <1>2, <1>3 DEF TInv, TypeOK, StartsHaveRow, Goto

LEMMA StartTInv ==
    ASSUME TInv, NEW t \in Threads,
           \/ \E p \in Places : StartCheck(t, p)
           \/ StartClose(t) \/ StartLimit(t) \/ StartCreate(t)
           \/ AgentCreates(t) \/ AgentFails(t) \/ StartBreaks(t) \/ StartBook(t)
    PROVE  TInv'
<1> USE DEF TInv, TypeOK
<1>1. requests[t] \in Request /\ requests[t].read \in View /\ requests[t].new \in View
  BY DEF Request
<1>2. ASSUME NEW p \in Places, StartCheck(t, p) PROVE TInv'
  <2>1. [Idle EXCEPT !.pc = "limit", !.place = p] \in Request
    BY InitialValues DEF Request, Pcs
  <2>2. ASSUME NEW s \in Sessions
        PROVE  [Idle EXCEPT !.pc = "close", !.place = p, !.session = s,
                            !.read = ViewOf(s)] \in Request
    BY InitialValues, ViewOfType DEF Request, Pcs
  <2> QED BY <1>2, <2>1, <2>2 DEF StartCheck, StartsHaveRow, Idle
<1>3. CASE StartClose(t)
  <2>1. PICK new \in View : Commit(t, new) /\ Goto(t, "limit", requests[t].session, new)
    <3>1. [requests[t].read EXCEPT !.status = "stopped"] \in View
      BY <1>1 DEF View, Status, Live
    <3> QED BY <1>1, <1>3, <3>1, WithoutRunType DEF StartClose
  <2> QED BY <1>1, <1>3, <2>1, CommitType, GotoInv DEF StartClose, Pcs, Request
<1>4. CASE StartLimit(t)
  <2>1. CASE Done(t)
    BY <1>4, <2>1, DoneInv DEF StartLimit
  <2>2. CASE requests' = [requests EXCEPT ![t].pc = "create"]
    BY <1>4, <2>2 DEF StartLimit, StartsHaveRow, Request, Pcs
  <2> QED BY <1>4, <2>1, <2>2 DEF StartLimit
<1>5. CASE StartCreate(t)
  <2> DEFINE r == requests[t]
             seenAs(s) == IF s = r.session THEN r.read ELSE ViewOf(s)
             starting == [status |-> "starting", container |-> None]
  <2>1. starting \in View
    BY DEF View, Status, Live
  <2>2. \A s \in Sessions : seenAs(s) \in View
    BY <1>1, ViewOfType
  <2>3. \A s \in Sessions : Written(rows[s], seenAs(s), starting) \in Row
    BY <2>1, <2>2, WrittenType
  <2>4. [place |-> r.place, status |-> "starting", container |-> None] \in Row
    BY <1>1 DEF Request, Row, Status, Live
  <2>5. PICK s \in Sessions :
          \/ Goto(t, "resume", s, seenAs(s)) /\ UNCHANGED rows
          \/ /\ rows' = [rows EXCEPT ![s] = Written(@, seenAs(s), starting)]
             /\ Goto(t, "agent", s, starting)
          \/ /\ rows' = [rows EXCEPT ![s] = [place |-> r.place, status |-> "starting",
                                             container |-> None]]
             /\ Goto(t, "agent", s, starting)
    BY <1>5 DEF StartCreate
  <2>6. requests' \in [Threads -> Request] /\ StartsHaveRow'
    BY <2>1, <2>2, <2>5, GotoInv DEF Pcs
  <2>7. rows' \in [Sessions -> Row]
    BY <2>3, <2>4, <2>5
  <2> QED BY <1>5, <2>6, <2>7 DEF StartCreate
<1>6. CASE AgentCreates(t)
  <2>1. PICK c \in Containers :
          /\ Create(c, requests[t].session)
          /\ requests' = [requests EXCEPT ![t].pc = "setup", ![t].container = c]
    BY <1>6 DEF AgentCreates
  <2>2. [state |-> "running", session |-> requests[t].session] \in Container
    BY <1>1 DEF Request, Container
  <2>3. [requests[t] EXCEPT !.pc = "setup", !.container = c] \in Request
    BY <1>1 DEF Request, Pcs
  <2> QED BY <1>6, <2>1, <2>2, <2>3 DEF AgentCreates, Create, StartsHaveRow, Request
<1>7. CASE AgentFails(t)
  <2>1. [requests[t].read EXCEPT !.status = "failed"] \in View
    BY <1>1 DEF View, Status
  <2> QED BY <1>1, <1>7, <2>1, CommitType, DoneInv DEF AgentFails, StartsHaveRow
<1>8. CASE StartBreaks(t)
  BY <1>8, DoneInv DEF StartBreaks
<1>9. CASE StartBook(t)
  <2>1. \A st \in {"running", "starting"} :
           [status |-> st, container |-> requests[t].container] \in View
    BY <1>1 DEF View, Status, Live, Request
  <2> QED BY <1>9, <2>1, CommitType, DoneInv DEF StartBook
<1> QED BY <1>2, <1>3, <1>4, <1>5, <1>6, <1>7, <1>8, <1>9

LEMMA ResumeTInv ==
    ASSUME TInv, NEW t \in Threads,
           ResumeBegin(t) \/ AgentResumes(t) \/ ResumeFails(t) \/ ResumeBook(t)
    PROVE  TInv'
<1> USE DEF TInv, TypeOK
<1>1. requests[t] \in Request /\ requests[t].read \in View
  BY DEF Request
<1>2. \A st \in Status : [requests[t].read EXCEPT !.status = st] \in View
  BY <1>1 DEF View
<1>3. CASE ResumeBegin(t)
  BY <1>1, <1>2, <1>3, CommitType, DoneInv, GotoInv
     DEF ResumeBegin, Request, Pcs, Status, Live
<1>4. CASE AgentResumes(t)
  <2>1. containers' \in [Containers -> Container]
    BY <1>4 DEF AgentResumes, Container
  <2> QED BY <1>4, <2>1 DEF AgentResumes, StartsHaveRow, Request, Pcs
<1>5. CASE ResumeFails(t)
  <2>1. [status |-> "angehalten", container |-> None] \in View
    BY DEF View, Status
  <2> QED BY <1>2, <1>5, <2>1, CommitType, DoneInv DEF ResumeFails, Status
<1>6. CASE ResumeBook(t)
  BY <1>2, <1>6, CommitType, DoneInv DEF ResumeBook, Status, Live
<1> QED BY <1>3, <1>4, <1>5, <1>6

LEMMA BeginTInv ==
    ASSUME TInv, NEW t \in Threads, NEW s \in Sessions, NEW pc \in Pcs \ {"agent"},
           NEW new \in View, Begin(t, s, pc, new)
    PROVE  requests' \in [Threads -> Request] /\ StartsHaveRow'
<1>1. [Idle EXCEPT !.pc = pc, !.session = s, !.read = ViewOf(s), !.new = new] \in Request
  BY InitialValues, ViewOfType DEF TInv, Request
<1> QED BY <1>1 DEF TInv, TypeOK, StartsHaveRow, Begin

LEMMA ActTInv ==
    ASSUME TInv, NEW t \in Threads, NEW s \in Sessions, ActStep(t, s)
    PROVE  TInv'
<1>1. ViewOf(s) \in View
  BY ViewOfType DEF TInv
<1>2. PICK pc \in Pcs \ {"agent"}, new \in View : Begin(t, s, pc, new)
  <2>1. \A st \in Status : [ViewOf(s) EXCEPT !.status = st] \in View
    BY <1>1 DEF View
  <2>2. {"paused", "running", "stopped", "angehalten"} \subseteq Status
    BY DEF Status, Live
  <2>3. \A st \in Status : [status |-> st, container |-> None] \in View
    BY DEF View
  <2>4. NoView \in View
    BY InitialValues
  <2>5. CASE ActPause(t, s)
    BY <2>1, <2>2, <2>5 DEF ActPause, Pcs
  <2>6. CASE ActUnpause(t, s)
    BY <2>1, <2>2, <2>6 DEF ActUnpause, Pcs
  <2>7. CASE ActResume(t, s)
    BY <2>4, <2>7 DEF ActResume, Pcs
  <2>8. CASE ActStop(t, s)
    BY <2>1, <2>2, <2>8 DEF ActStop, Pcs
  <2>9. CASE Halt(t, s)
    BY <2>1, <2>2, <2>9 DEF Halt, If, Pcs
  <2>10. CASE DeleteSession(t, s)
    BY <2>1, <2>2, <2>10 DEF DeleteSession, If, Pcs
  <2>11. CASE Rebuild(t, s)
    BY <2>2, <2>3, <2>11 DEF Rebuild, If, Pcs
  <2>12. CASE AdminDelete(t, s)
    BY <2>2, <2>3, <2>12 DEF AdminDelete, If, Pcs
  <2> QED BY <2>5, <2>6, <2>7, <2>8, <2>9, <2>10, <2>11, <2>12 DEF ActStep
<1> QED BY <1>2, BeginTInv DEF Begin, TInv, TypeOK

LEMMA AffectType ==
    ASSUME TypeOK, NEW c, NEW act \in {"pause", "unpause", "start", "stop"}, Affect(c, act)
    PROVE  containers' \in [Containers -> Container]
<1>1. Acts[act].to \in {"running", "paused", "exited"}
  BY DEF Acts
<1>2. c \in Containers => [containers[c] EXCEPT !.state = Acts[act].to] \in Container
  BY <1>1 DEF TypeOK, Container
<1> QED BY <1>2 DEF TypeOK, Affect

LEMMA RemoveType ==
    ASSUME TypeOK, NEW c, Remove(c) PROVE containers' \in [Containers -> Container]
BY InitialValues DEF TypeOK, Remove

LEMMA BookTInv ==
    ASSUME TInv, NEW t \in Threads, AgentActs(t) \/ ActFails(t) \/ Book(t)
    PROVE  TInv'
<1> USE DEF TInv, TypeOK
<1>1. CASE AgentActs(t)
  <2>1. containers' \in [Containers -> Container]
    BY <1>1, AffectType, RemoveType DEF AgentActs, Acts
  <2> QED BY <1>1, <2>1 DEF AgentActs, StartsHaveRow, Request, Pcs
<1>2. CASE ActFails(t)
  BY <1>2, DoneInv DEF ActFails
<1>3. CASE Book(t)
  BY <1>3, CommitType, DoneInv DEF Book, Request
<1> QED BY <1>1, <1>2, <1>3

LEMMA EnvironmentTInv ==
    ASSUME TInv,
           \/ \E s \in Sessions : Heartbeat(s) \/ AgentCreatesLate(s)
           \/ \E c \in Containers : ContainerDies(c)
           \/ ApiCrash
    PROVE  TInv'
<1> USE DEF TInv, TypeOK
<1>1. ASSUME NEW s \in Sessions, Heartbeat(s) PROVE TInv'
  BY <1>1 DEF Heartbeat, Pass, StartsHaveRow
<1>2. ASSUME NEW s \in Sessions, AgentCreatesLate(s) PROVE TInv'
  <2>1. [state |-> "running", session |-> s] \in Container
    BY DEF Container
  <2> QED BY <1>2, <2>1 DEF AgentCreatesLate, Create, StartsHaveRow
<1>3. ASSUME NEW c \in Containers, ContainerDies(c) PROVE TInv'
  <2>1. [containers[c] EXCEPT !.state = "exited"] \in Container
    BY DEF Container
  <2> QED BY <1>3, <2>1, InitialValues DEF ContainerDies, StartsHaveRow
<1>4. CASE ApiCrash
  <2>1. crashes' \in 0 .. MaxCrashes
    BY <1>4, ConstantsAssumption DEF ApiCrash
  <2>2. lateStarts' \in SUBSET Sessions
    BY <1>4 DEF ApiCrash, StartsHaveRow
  <2> QED BY <1>4, <2>1, <2>2, InitialValues DEF ApiCrash, StartsHaveRow, Idle
<1> QED BY <1>1, <1>2, <1>3, <1>4

LEMMA ReaperTInv == ASSUME TInv, ReaperStep PROVE TInv'
<1> USE DEF TInv, TypeOK
<1>1. reaper' \in Pass /\ rows' \in [Sessions -> Row]
                       /\ containers' \in [Containers -> Container]
  <2>1. CASE ReaperReads
    <3> DEFINE live == {s \in Sessions : IsLive(s)}
               read == [s \in Sessions |-> IF s \in live THEN ViewOf(s) ELSE NoView]
    <3>1. read \in [Sessions -> View]
      BY InitialValues, ViewOfType
    <3> HIDE DEF read
    <3>2. PICK idle \in SUBSET live :
             reaper' = [Asleep EXCEPT !.pc = "rows", !.read = read, !.new = read,
                                      !.todo = live, !.idle = idle]
      BY <2>1 DEF ReaperReads, read
    <3> QED BY <2>1, <3>1, <3>2, InitialValues DEF ReaperReads, Pass, Steps
  <2>2. ASSUME NEW s \in Sessions, ReaperCloses(s)
        PROVE  reaper' \in Pass /\ UNCHANGED <<rows, containers>>
    <3>1. reaper.new[s] \in View
      BY DEF Pass
    <3>2. [reaper.new[s] EXCEPT !.status = "stopped"] \in View
      BY <3>1 DEF View, Status
    <3>3. PICK new \in View : reaper' = Handled(s, new)
      BY <2>2, <3>1, <3>2, WithoutRunType DEF ReaperCloses
    <3> QED BY <2>2, <3>3, HandledType DEF ReaperCloses
  <2>3. ASSUME NEW s \in Sessions, ReaperHalts(s)
        PROVE  /\ reaper' \in Pass /\ UNCHANGED rows
               /\ containers' \in [Containers -> Container]
    <3>1. [reaper.new[s] EXCEPT !.status = "angehalten"] \in View
      BY DEF Pass, View, Status
    <3>2. Handled(s, [reaper.new[s] EXCEPT !.status = "angehalten"]) \in Pass
      BY <3>1, HandledType
    <3>3. reaper' \in Pass
      BY <2>3, <3>2 DEF ReaperHalts, Pass, Steps
    <3> QED BY <2>3, <3>3, AffectType DEF ReaperHalts
  <2>4. ASSUME NEW s \in Sessions, ReaperIdles(s)
        PROVE  /\ reaper' \in Pass /\ UNCHANGED rows
               /\ containers' \in [Containers -> Container]
    <3>1. \A st \in {"stopped", "paused"} :
             Handled(s, [reaper.new[s] EXCEPT !.status = st]) \in Pass
      <4>1. \A st \in {"stopped", "paused"} : [reaper.new[s] EXCEPT !.status = st] \in View
        BY DEF Pass, View, Status, Live
      <4> QED BY <4>1, HandledType
    <3> QED BY <2>4, <3>1, AffectType, RemoveType DEF ReaperIdles
  <2>5. ASSUME NEW s \in Sessions, ReaperUnheard(s) \/ ReaperSkips(s)
        PROVE  /\ reaper' \in Pass /\ UNCHANGED rows
               /\ containers' \in [Containers -> Container]
    <3>1. Handled(s, reaper.new[s]) \in Pass
      BY HandledType DEF Pass
    <3>2. CASE ReaperSkips(s)
      BY <3>1, <3>2 DEF ReaperSkips
    <3>3. CASE ReaperUnheard(s)
      BY <3>1, <3>3, AffectType, RemoveType DEF ReaperUnheard
    <3> QED BY <2>5, <3>2, <3>3
  <2>6. CASE ReaperBooks
    BY <2>6, ReapType DEF ReaperBooks, Pass, Steps
  <2>7. CASE ReaperKeeps
    <3>1. \A s \in Sessions : /\ reaper.new[s].container \in Containers \cup {None}
                              /\ rows[s].container \in Containers \cup {None}
      BY DEF Pass, View, Row
    <3> DEFINE keep ==
          {IF s \in Snapshot THEN reaper.new[s].container ELSE rows[s].container :
              s \in {r \in Sessions : rows[r].status = "angehalten"}} \ {None}
    <3>2. keep \in SUBSET Containers
      BY <3>1
    <3>3. reaper' = [reaper EXCEPT !.pc = "list", !.keep = keep]
      BY <2>7 DEF ReaperKeeps
    <3> HIDE DEF keep
    <3> QED BY <2>7, <3>2, <3>3 DEF ReaperKeeps, Pass, Steps
  <2>8. CASE ReaperLists
    BY <2>8, ChangedType, InitialValues DEF ReaperLists, Pass, Steps
  <2>9. ASSUME NEW c \in Containers, ReaperRemoves(c)
        PROVE  /\ reaper' \in Pass /\ UNCHANGED rows
               /\ containers' \in [Containers -> Container]
    BY <2>9, RemoveType DEF ReaperRemoves, Pass
  <2>10. CASE ReaperGivesUp
    BY <2>10, ChangedType, InitialValues DEF ReaperGivesUp, Pass, Steps
  <2>11. CASE ReaperCommits
    BY <2>11, ReapType, InitialValues DEF ReaperCommits
  <2> QED BY <2>1, <2>2, <2>3, <2>4, <2>5, <2>6, <2>7, <2>8, <2>9, <2>10, <2>11
          DEF ReaperStep
<1>2. UNCHANGED <<requests, lateStarts, crashes>>
  BY DEF ReaperStep, ReaperReads, ReaperCloses, ReaperHalts, ReaperIdles, ReaperUnheard,
         ReaperSkips, ReaperBooks, ReaperKeeps, ReaperLists, ReaperRemoves, ReaperGivesUp,
         ReaperCommits
<1> QED BY <1>1, <1>2 DEF StartsHaveRow

LEMMA StepTInv == ASSUME TInv, [Next]_vars PROVE TInv'
<1>1. CASE UNCHANGED vars
  BY <1>1 DEF vars, TInv, TypeOK, StartsHaveRow
<1>2. ASSUME NEW t \in Threads, RequestStep(t) PROVE TInv'
  BY <1>2, StartTInv, ResumeTInv, BookTInv DEF RequestStep
<1> QED BY <1>1, <1>2, ActTInv, EnvironmentTInv, ReaperTInv DEF Next

\* TypeOK is an invariant, whatever the number of sessions, containers, threads,
\* places and crashes: rows, containers, requests and the pass of the reaper
\* keep their types, and so the id that the code writes for "no container"
\* never gets among the containers that a pass keeps or removes.
THEOREM TypeCorrect == Spec => []TypeOK
<1>1. TInv => TypeOK
  BY DEF TInv
<1> QED BY <1>1, InitTInv, StepTInv, PTL DEF Spec

-----------------------------------------------------------------------------
(* OwnContainer is not inductive: what a request or the pass of the reaper     *)
(* has read is committed later.  Own says it of every id that anybody holds    *)
(* for session s.  It holds because no step takes an id from one session to    *)
(* another (NoNewClaims), and because the only new container is one whose id   *)
(* nobody holds.                                                               *)

Claims(s, c) ==
    \/ c \in {rows[s].container, reaper.read[s].container, reaper.new[s].container}
    \/ \E t \in Threads :
          /\ requests[t].session = s
          /\ c \in {requests[t].container, requests[t].read.container,
                    requests[t].new.container}

Own == \A s \in Sessions, c \in Containers :
          Claims(s, c) /\ Exists(c) => containers[c].session = s

RowClaims == \A s \in Sessions, c \in Containers : rows'[s].container = c => Claims(s, c)
RequestClaims ==
    \A s \in Sessions, c \in Containers, t \in Threads :
        /\ requests'[t].session = s
        /\ c \in {requests'[t].container, requests'[t].read.container,
                  requests'[t].new.container}
        => Claims(s, c)
PassClaims ==
    \A s \in Sessions, c \in Containers :
        c \in {reaper'.read[s].container, reaper'.new[s].container} => Claims(s, c)
NoNewClaims == RowClaims /\ RequestClaims /\ PassClaims
NoNewContainers ==
    \A c \in Containers :
        Exists(c)' => Exists(c) /\ containers'[c].session = containers[c].session

LEMMA OwnKept == ASSUME Own, NoNewClaims, NoNewContainers PROVE Own'
BY DEF Own, NoNewClaims, RowClaims, RequestClaims, PassClaims, NoNewContainers, Claims

LEMMA SameRows == ASSUME UNCHANGED rows PROVE RowClaims
BY DEF RowClaims, Claims
LEMMA SameRequests == ASSUME UNCHANGED requests PROVE RequestClaims
BY DEF RequestClaims, Claims
LEMMA SamePass == ASSUME UNCHANGED reaper PROVE PassClaims
BY DEF PassClaims, Claims
LEMMA SameContainers == ASSUME UNCHANGED containers PROVE NoNewContainers
BY DEF NoNewContainers, Exists

LEMMA CommitClaims ==
    ASSUME TypeOK, NEW t \in Threads, NEW new \in View, Commit(t, new),
           new.container \in {requests[t].container, requests[t].read.container,
                              requests[t].new.container, None}
    PROVE  RowClaims
<1>1. ASSUME NEW s \in Sessions, rows'[s].container # rows[s].container
      PROVE  s = requests[t].session /\ rows'[s].container = new.container
  BY <1>1 DEF Commit, Written, TypeOK, Row
<1> QED BY <1>1, ConstantsAssumption DEF RowClaims, Claims

LEMMA DoneClaims == ASSUME TypeOK, NEW t \in Threads, Done(t) PROVE RequestClaims
<1>1. requests'[t] = Idle
  BY DEF Done, TypeOK
<1>2. \A u \in Threads \ {t} : requests'[u] = requests[u]
  BY DEF Done, TypeOK
<1>3. \A c \in Containers :
         c \notin {Idle.container, Idle.read.container, Idle.new.container}
  BY ConstantsAssumption DEF Idle, NoView
<1> QED BY <1>1, <1>2, <1>3 DEF RequestClaims, Claims

\* A request that goes on with a view of session s.
LEMMA ReplacedClaims ==
    ASSUME TypeOK, NEW t \in Threads, NEW request,
           requests' = [requests EXCEPT ![t] = request],
           NEW s \in Sessions \cup {None}, request.session = s,
           \A c \in Containers :
              c \in {request.container, request.read.container, request.new.container}
                 => s \in Sessions /\ Claims(s, c)
    PROVE  RequestClaims
<1>1. requests'[t] = request
  BY DEF TypeOK
<1>2. \A u \in Threads \ {t} : requests'[u] = requests[u]
  BY DEF TypeOK
<1> QED BY <1>1, <1>2 DEF RequestClaims, Claims

LEMMA GotoClaims ==
    ASSUME TypeOK, NEW t \in Threads, NEW pc, NEW s \in Sessions \cup {None},
           NEW read \in View, Goto(t, pc, s, read),
           s \in Sessions =>
              read.container = None \/ Claims(s, read.container)
    PROVE  RequestClaims
<1> DEFINE request == [Idle EXCEPT !.pc = pc, !.place = requests[t].place,
                                   !.session = s, !.read = read]
<1>1. /\ request.session = s /\ request.read = read
      /\ request.container = None /\ request.new.container = None
  BY DEF Idle, NoView
<1>2. requests'[t] = request
  BY DEF Goto, TypeOK
<1>3. \A u \in Threads \ {t} : requests'[u] = requests[u]
  BY DEF Goto, TypeOK
<1> HIDE DEF request
<1> QED BY <1>1, <1>2, <1>3, ConstantsAssumption DEF RequestClaims, Claims

\* A new container carries the id of a session, and nobody has held its own id.
LEMMA CreateOwn ==
    ASSUME TypeOK, Own, NEW c \in Containers, NEW s \in Sessions, Create(c, s),
           UNCHANGED <<rows, reaper>>,
           \A d \in Containers, r \in Sessions :
              Claims(r, d)' => Claims(r, d) \/ (d = c /\ r = s)
    PROVE  Own'
<1>1. containers'[c].session = s
  BY DEF Create, TypeOK
<1>2. \A d \in Containers \ {c} : containers'[d] = containers[d]
  BY DEF Create, TypeOK
<1>3. \A r \in Sessions : ~Claims(r, c)
  BY DEF Create, UnusedContainer, Claims
<1> QED BY <1>1, <1>2, <1>3 DEF Own, Exists

LEMMA StartOwn ==
    ASSUME TInv, Own, NEW t \in Threads,
           \/ \E p \in Places : StartCheck(t, p)
           \/ StartClose(t) \/ StartLimit(t) \/ StartCreate(t)
           \/ AgentCreates(t) \/ AgentFails(t) \/ StartBreaks(t) \/ StartBook(t)
    PROVE  Own'
<1> USE DEF TInv
<1>1. requests[t] \in Request /\ requests[t].read \in View
  BY DEF TypeOK, Request
<1>2. requests[t].session \in Sessions =>
         \A c \in {requests[t].read.container, requests[t].container} :
            c = None \/ Claims(requests[t].session, c)
  BY DEF Claims
<1>3. ASSUME NEW p \in Places, StartCheck(t, p) PROVE Own'
  <2>1. RequestClaims
    <3>1. ASSUME requests' = [requests EXCEPT ![t] = [Idle EXCEPT !.pc = "limit", !.place = p]]
          PROVE  RequestClaims
      <4> DEFINE request == [Idle EXCEPT !.pc = "limit", !.place = p]
      <4>1. /\ request.session = None /\ request.container = None
            /\ request.read.container = None /\ request.new.container = None
        BY DEF Idle, NoView
      <4>2. requests' = [requests EXCEPT ![t] = request]
        BY <3>1
      <4> HIDE DEF request
      <4> QED BY <4>1, <4>2, ReplacedClaims, ConstantsAssumption
    <3>2. ASSUME NEW s \in Sessions,
                 requests' = [requests EXCEPT ![t] = [Idle EXCEPT !.pc = "close",
                                 !.place = p, !.session = s, !.read = ViewOf(s)]]
          PROVE  RequestClaims
      <4> DEFINE request == [Idle EXCEPT !.pc = "close", !.place = p, !.session = s,
                                         !.read = ViewOf(s)]
      <4>1. /\ request.session = s /\ request.container = None
            /\ request.read.container = rows[s].container /\ request.new.container = None
        BY DEF Idle, NoView, ViewOf
      <4>2. \A c \in Containers :
               c \in {request.container, request.read.container, request.new.container}
                  => s \in Sessions /\ Claims(s, c)
        BY <4>1, ConstantsAssumption DEF Claims
      <4>3. requests' = [requests EXCEPT ![t] = request]
        BY <3>2
      <4>4. request.session = s /\ s \in Sessions \cup {None}
        BY <4>1
      <4> HIDE DEF request
      <4> QED BY <4>2, <4>3, <4>4, ReplacedClaims
    <3> QED BY <1>3, <3>1, <3>2 DEF StartCheck
  <2> QED BY <1>3, <2>1, OwnKept, SameRows, SamePass, SameContainers
          DEF StartCheck, NoNewClaims
<1>4. CASE StartClose(t)
  <2>1. PICK new \in View :
          /\ Commit(t, new) /\ Goto(t, "limit", requests[t].session, new)
          /\ new.container \in {requests[t].read.container, None}
    <3>1. [requests[t].read EXCEPT !.status = "stopped"] \in View
      BY <1>1 DEF View, Status, Live
    <3>2. [requests[t].read EXCEPT !.status = "stopped"].container
             = requests[t].read.container
      BY <1>1 DEF View
    <3>3. \A new \in WithoutRun(requests[t].read) :
             new \in View /\ new.container \in {requests[t].read.container, None}
      BY <1>1, WithoutRunType DEF WithoutRun
    <3> QED BY <1>4, <3>1, <3>2, <3>3 DEF StartClose
  <2>2. RowClaims
    BY <2>1, CommitClaims
  <2>3. RequestClaims
    BY <1>1, <1>2, <2>1, GotoClaims DEF Request
  <2> QED BY <1>4, <2>2, <2>3, OwnKept, SamePass, SameContainers
          DEF StartClose, NoNewClaims
<1>5. CASE StartLimit(t)
  <2>1. CASE Done(t)
    BY <1>5, <2>1, DoneClaims, OwnKept, SameRows, SamePass, SameContainers
       DEF StartLimit, NoNewClaims
  <2>2. CASE requests' = [requests EXCEPT ![t].pc = "create"]
    <3>1. RequestClaims
      BY <2>2 DEF RequestClaims, Claims, TypeOK, Request
    <3> QED BY <1>5, <3>1, OwnKept, SameRows, SamePass, SameContainers
            DEF StartLimit, NoNewClaims
  <2> QED BY <1>5, <2>1, <2>2 DEF StartLimit
<1>6. CASE StartCreate(t)
  <2> DEFINE r == requests[t]
             seenAs(s) == IF s = r.session THEN r.read ELSE ViewOf(s)
             starting == [status |-> "starting", container |-> None]
  <2>1. starting \in View
    BY DEF View, Status, Live
  <2>2. \A s \in Sessions : seenAs(s) \in View /\ Claims(s, seenAs(s).container)
    BY <1>1, ViewOfType DEF Claims, ViewOf
  <2>3. PICK s \in Sessions :
          \/ Goto(t, "resume", s, seenAs(s)) /\ UNCHANGED rows
          \/ /\ rows' = [rows EXCEPT ![s] = Written(@, seenAs(s), starting)]
             /\ Goto(t, "agent", s, starting)
          \/ /\ rows' = [rows EXCEPT ![s] = [place |-> r.place, status |-> "starting",
                                             container |-> None]]
             /\ Goto(t, "agent", s, starting)
    BY <1>6 DEF StartCreate
  <2>4. RequestClaims
    BY <2>1, <2>2, <2>3, GotoClaims
  <2>5. RowClaims
    <3>1. Written(rows[s], seenAs(s), starting).container \in {rows[s].container, None}
      BY DEF Written, TypeOK, Row
    <3> QED BY <2>3, <3>1, ConstantsAssumption DEF RowClaims, Claims, TypeOK
  <2> QED BY <1>6, <2>4, <2>5, OwnKept, SamePass, SameContainers
          DEF StartCreate, NoNewClaims
<1>7. CASE AgentCreates(t)
  <2> DEFINE s == requests[t].session
  <2>1. s \in Sessions
    BY <1>7 DEF AgentCreates, StartsHaveRow
  <2>2. PICK c \in Containers :
          /\ Create(c, s)
          /\ requests' = [requests EXCEPT ![t].pc = "setup", ![t].container = c]
    BY <1>7 DEF AgentCreates
  <2>3. /\ requests'[t].session = s /\ requests'[t].container = c
        /\ requests'[t].read = requests[t].read /\ requests'[t].new = requests[t].new
    BY <2>2 DEF TypeOK, Request
  <2>4. \A u \in Threads \ {t} : requests'[u] = requests[u]
    BY <2>2 DEF TypeOK
  <2>5. UNCHANGED <<rows, reaper>>
    BY <1>7 DEF AgentCreates
  <2>6. \A d \in Containers, q \in Sessions :
           Claims(q, d)' => Claims(q, d) \/ (d = c /\ q = s)
    BY <2>3, <2>4, <2>5 DEF Claims
  <2> QED BY <2>1, <2>2, <2>5, <2>6, CreateOwn
<1>8. CASE AgentFails(t)
  <2>1. [requests[t].read EXCEPT !.status = "failed"] \in View
    BY <1>1 DEF View, Status
  <2>2. [requests[t].read EXCEPT !.status = "failed"].container = requests[t].read.container
    BY <1>1 DEF View
  <2> QED BY <1>8, <2>1, <2>2, CommitClaims, DoneClaims, OwnKept, SamePass, SameContainers
          DEF AgentFails, NoNewClaims
<1>9. CASE StartBreaks(t)
  BY <1>9, DoneClaims, OwnKept, SameRows, SamePass, SameContainers
     DEF StartBreaks, NoNewClaims
<1>10. CASE StartBook(t)
  <2>1. PICK st \in {"running", "starting"} :
          Commit(t, [status |-> st, container |-> requests[t].container])
    BY <1>10 DEF StartBook
  <2>2. [status |-> st, container |-> requests[t].container] \in View
    BY <1>1 DEF View, Status, Live, Request
  <2> QED BY <1>10, <2>1, <2>2, CommitClaims, DoneClaims, OwnKept, SamePass, SameContainers
          DEF StartBook, NoNewClaims
<1> QED BY <1>3, <1>4, <1>5, <1>6, <1>7, <1>8, <1>9, <1>10

LEMMA ResumeOwn ==
    ASSUME TInv, Own, NEW t \in Threads,
           ResumeBegin(t) \/ AgentResumes(t) \/ ResumeFails(t) \/ ResumeBook(t)
    PROVE  Own'
<1> USE DEF TInv
<1>1. requests[t] \in Request /\ requests[t].read \in View
  BY DEF TypeOK, Request
<1>2. \A st \in Status :
         /\ [requests[t].read EXCEPT !.status = st] \in View
         /\ [requests[t].read EXCEPT !.status = st].container = requests[t].read.container
  BY <1>1 DEF View
<1>3. {"starting", "running", "angehalten"} \subseteq Status
  BY DEF Status, Live
<1>4. CASE ResumeBegin(t)
  <2> DEFINE new == [requests[t].read EXCEPT !.status = "starting"]
  <2>1. CASE Commit(t, new) /\ Goto(t, "resuming", requests[t].session, new)
    <3>1. RowClaims
      BY <1>2, <1>3, <2>1, CommitClaims
    <3>2. requests[t].session \in Sessions => Claims(requests[t].session, new.container)
      BY <1>2, <1>3 DEF Claims
    <3>3. RequestClaims
      BY <1>1, <1>2, <1>3, <2>1, <3>2, GotoClaims DEF Request
    <3> QED BY <1>4, <3>1, <3>3, OwnKept, SamePass, SameContainers
            DEF ResumeBegin, NoNewClaims
  <2>2. CASE Done(t) /\ UNCHANGED rows
    BY <1>4, <2>2, DoneClaims, OwnKept, SameRows, SamePass, SameContainers
       DEF ResumeBegin, NoNewClaims
  <2> QED BY <1>4, <2>1, <2>2 DEF ResumeBegin
<1>5. CASE AgentResumes(t)
  <2>1. NoNewContainers
    BY <1>5 DEF AgentResumes, NoNewContainers, Exists, TypeOK, Container
  <2>2. RequestClaims
    BY <1>5 DEF AgentResumes, RequestClaims, Claims, TypeOK, Request
  <2> QED BY <1>5, <2>1, <2>2, OwnKept, SameRows, SamePass DEF AgentResumes, NoNewClaims
<1>6. CASE ResumeFails(t)
  <2>1. RowClaims
    <3>1. [status |-> "angehalten", container |-> None] \in View
      BY <1>3 DEF View
    <3> QED BY <1>2, <1>3, <1>6, <3>1, CommitClaims DEF ResumeFails
  <2> QED BY <1>6, <2>1, DoneClaims, OwnKept, SamePass, SameContainers
          DEF ResumeFails, NoNewClaims
<1>7. CASE ResumeBook(t)
  BY <1>2, <1>3, <1>7, CommitClaims, DoneClaims, OwnKept, SamePass, SameContainers
     DEF ResumeBook, NoNewClaims
<1> QED BY <1>4, <1>5, <1>6, <1>7

LEMMA ActOwn ==
    ASSUME TInv, Own, NEW t \in Threads, NEW s \in Sessions, ActStep(t, s)
    PROVE  Own'
<1> USE DEF TInv
<1>1. ViewOf(s) \in View
  BY ViewOfType
<1>2. PICK pc \in Pcs, new \in View :
        Begin(t, s, pc, new) /\ new.container \in {rows[s].container, None}
  <2>1. \A st \in Status :
           /\ [ViewOf(s) EXCEPT !.status = st] \in View
           /\ [ViewOf(s) EXCEPT !.status = st].container = rows[s].container
    BY <1>1 DEF View, ViewOf
  <2>2. {"paused", "running", "stopped", "angehalten"} \subseteq Status
    BY DEF Status, Live
  <2>3. \A st \in Status : /\ [status |-> st, container |-> None] \in View
                           /\ [status |-> st, container |-> None].container = None
    BY DEF View
  <2>4. NoView \in View /\ NoView.container = None
    BY InitialValues DEF NoView
  <2>5. CASE ActPause(t, s)
    BY <2>1, <2>2, <2>5 DEF ActPause, Pcs
  <2>6. CASE ActUnpause(t, s)
    BY <2>1, <2>2, <2>6 DEF ActUnpause, Pcs
  <2>7. CASE ActResume(t, s)
    BY <2>4, <2>7 DEF ActResume, Pcs
  <2>8. CASE ActStop(t, s)
    BY <2>1, <2>2, <2>8 DEF ActStop, Pcs
  <2>9. CASE Halt(t, s)
    BY <2>1, <2>2, <2>9 DEF Halt, If, Pcs
  <2>10. CASE DeleteSession(t, s)
    BY <2>1, <2>2, <2>10 DEF DeleteSession, If, Pcs
  <2>11. CASE Rebuild(t, s)
    BY <2>2, <2>3, <2>11 DEF Rebuild, If, Pcs
  <2>12. CASE AdminDelete(t, s)
    BY <2>2, <2>3, <2>12 DEF AdminDelete, If, Pcs
  <2> QED BY <2>5, <2>6, <2>7, <2>8, <2>9, <2>10, <2>11, <2>12 DEF ActStep
<1>3. RequestClaims
  <2> DEFINE request == [Idle EXCEPT !.pc = pc, !.session = s, !.read = ViewOf(s),
                                     !.new = new]
  <2>1. /\ request.session = s /\ request.container = None
        /\ request.read.container = rows[s].container /\ request.new = new
    BY DEF Idle, ViewOf
  <2>2. requests' = [requests EXCEPT ![t] = request]
    BY <1>2 DEF Begin
  <2> HIDE DEF request
  <2>3. \A c \in Containers :
           c \in {request.container, request.read.container, request.new.container}
              => s \in Sessions /\ Claims(s, c)
    BY <1>2, <2>1, ConstantsAssumption DEF Claims
  <2>4. request.session = s /\ s \in Sessions \cup {None}
    BY <2>1
  <2> QED BY <2>2, <2>3, <2>4, ReplacedClaims
<1> QED BY <1>2, <1>3, OwnKept, SameRows, SamePass, SameContainers DEF Begin, NoNewClaims

LEMMA AffectNothingNew ==
    ASSUME TypeOK, NEW c, NEW act \in {"pause", "unpause", "start", "stop"}, Affect(c, act)
    PROVE  NoNewContainers
<1>1. "gone" \notin Acts[act].from /\ Acts[act].to # "gone"
  BY DEF Acts
<1> QED BY <1>1 DEF NoNewContainers, Affect, Exists, TypeOK, Container

LEMMA RemoveNothingNew ==
    ASSUME TypeOK, NEW c, Remove(c) PROVE NoNewContainers
BY DEF NoNewContainers, Remove, Exists, TypeOK, Gone

LEMMA BookOwn ==
    ASSUME TInv, Own, NEW t \in Threads, AgentActs(t) \/ ActFails(t) \/ Book(t)
    PROVE  Own'
<1> USE DEF TInv
<1>1. CASE AgentActs(t)
  <2>1. NoNewContainers
    BY <1>1, AffectNothingNew, RemoveNothingNew DEF AgentActs, Acts
  <2>2. RequestClaims
    BY <1>1 DEF AgentActs, RequestClaims, Claims, TypeOK, Request
  <2> QED BY <1>1, <2>1, <2>2, OwnKept, SameRows, SamePass DEF AgentActs, NoNewClaims
<1>2. CASE ActFails(t)
  BY <1>2, DoneClaims, OwnKept, SameRows, SamePass, SameContainers
     DEF ActFails, NoNewClaims
<1>3. CASE Book(t)
  <2>1. requests[t].new \in View
    BY DEF TypeOK, Request
  <2> QED BY <1>3, <2>1, CommitClaims, DoneClaims, OwnKept, SamePass, SameContainers
          DEF Book, NoNewClaims
<1> QED BY <1>1, <1>2, <1>3

LEMMA EnvironmentOwn ==
    ASSUME TInv, Own,
           \/ \E s \in Sessions : Heartbeat(s) \/ AgentCreatesLate(s)
           \/ \E c \in Containers : ContainerDies(c)
           \/ ApiCrash
    PROVE  Own'
<1> USE DEF TInv
<1>1. ASSUME NEW s \in Sessions, Heartbeat(s) PROVE Own'
  <2>1. PassClaims
    BY <1>1 DEF Heartbeat, PassClaims, Claims, TypeOK, Pass
  <2> QED BY <1>1, <2>1, OwnKept, SameRows, SameRequests, SameContainers
          DEF Heartbeat, NoNewClaims
<1>2. ASSUME NEW s \in Sessions, AgentCreatesLate(s) PROVE Own'
  <2>1. UNCHANGED <<rows, requests, reaper>>
    BY <1>2 DEF AgentCreatesLate
  <2>2. CASE UNCHANGED containers
    BY <2>1, <2>2, OwnKept, SameRows, SameRequests, SamePass, SameContainers
       DEF NoNewClaims
  <2>3. ASSUME NEW c \in Containers, Create(c, s) PROVE Own'
    <3>1. \A d \in Containers, r \in Sessions : Claims(r, d)' => Claims(r, d)
      BY <2>1 DEF Claims
    <3> QED BY <2>1, <2>3, <3>1, CreateOwn
  <2> QED BY <1>2, <2>2, <2>3 DEF AgentCreatesLate
<1>3. ASSUME NEW c \in Containers, ContainerDies(c) PROVE Own'
  <2>1. NoNewContainers
    BY <1>3 DEF ContainerDies, NoNewContainers, Exists, Runs, Gone, TypeOK, Container
  <2> QED BY <1>3, <2>1, OwnKept, SameRows, SameRequests, SamePass
          DEF ContainerDies, NoNewClaims
<1>4. CASE ApiCrash
  <2>1. RequestClaims
    BY <1>4, ConstantsAssumption DEF ApiCrash, RequestClaims, Idle, NoView
  <2>2. PassClaims
    BY <1>4, ConstantsAssumption DEF ApiCrash, PassClaims, Asleep, Nothing, NoView
  <2> QED BY <1>4, <2>1, <2>2, OwnKept, SameRows, SameContainers DEF ApiCrash, NoNewClaims
<1> QED BY <1>1, <1>2, <1>3, <1>4

\* What the pass holds of row s is, after a step that handles s, what it held or
\* nothing.
LEMMA HandledClaims ==
    ASSUME TypeOK, NEW s \in Sessions, NEW new \in View, NEW pc \in Steps,
           reaper' = [Handled(s, new) EXCEPT !.pc = pc],
           new.container \in {reaper.new[s].container, None}
    PROVE  PassClaims
<1>1. /\ reaper'.read = reaper.read
      /\ reaper'.new = [reaper.new EXCEPT ![s] = new]
  BY DEF Handled, TypeOK, Pass
<1> QED BY <1>1, ConstantsAssumption DEF PassClaims, Claims, TypeOK, Pass

LEMMA ReapClaims == ASSUME TypeOK, rows' = Reap PROVE RowClaims
BY DEF RowClaims, Claims, Reap, Written, TypeOK, Row

LEMMA ChangedClaims ==
    ASSUME TypeOK, reaper'.read = Changed(reaper.read), reaper'.new = Changed(reaper.new)
    PROVE  PassClaims
BY ConstantsAssumption DEF PassClaims, Claims, Changed, TypeOK, Pass, NoView

LEMMA ReaperOwn == ASSUME TInv, Own, ReaperStep PROVE Own'
<1> USE DEF TInv
<1>1. UNCHANGED requests
  BY DEF ReaperStep, ReaperReads, ReaperCloses, ReaperHalts, ReaperIdles, ReaperUnheard,
         ReaperSkips, ReaperBooks, ReaperKeeps, ReaperLists, ReaperRemoves, ReaperGivesUp,
         ReaperCommits
<1>2. \A s \in Sessions : /\ reaper.new[s] \in View
                          /\ Handled(s, reaper.new[s]).pc = reaper.pc
  BY DEF TypeOK, Pass, Handled
<1>3. \A s \in Sessions, st \in Status :
         /\ [reaper.new[s] EXCEPT !.status = st] \in View
         /\ [reaper.new[s] EXCEPT !.status = st].container = reaper.new[s].container
  BY <1>2 DEF View
<1>4. {"stopped", "paused", "angehalten"} \subseteq Status
  BY DEF Status, Live
<1>5. RowClaims
  <2>1. rows' = Reap \/ UNCHANGED rows
    BY DEF ReaperStep, ReaperReads, ReaperCloses, ReaperHalts, ReaperIdles, ReaperUnheard,
           ReaperSkips, ReaperBooks, ReaperKeeps, ReaperLists, ReaperRemoves,
           ReaperGivesUp, ReaperCommits
  <2> QED BY <2>1, ReapClaims, SameRows
<1>6. NoNewContainers
  <2>1. ASSUME NEW s \in Sessions, ReaperHalts(s) \/ ReaperIdles(s) \/ ReaperUnheard(s)
        PROVE  NoNewContainers
    BY <2>1, AffectNothingNew, RemoveNothingNew, SameContainers
       DEF ReaperHalts, ReaperIdles, ReaperUnheard
  <2>2. ASSUME NEW c \in Containers, ReaperRemoves(c) PROVE NoNewContainers
    BY <2>2, RemoveNothingNew DEF ReaperRemoves
  <2>3. CASE UNCHANGED containers
    BY <2>3, SameContainers
  <2> QED BY <2>1, <2>2, <2>3
          DEF ReaperStep, ReaperReads, ReaperCloses, ReaperSkips, ReaperBooks, ReaperKeeps,
              ReaperLists, ReaperGivesUp, ReaperCommits
<1>7. PassClaims
  <2>1. \A s \in Sessions, new \in View :
           Handled(s, new) = [Handled(s, new) EXCEPT !.pc = reaper.pc]
    BY HandledType DEF Handled, TypeOK, Pass
  <2>2. reaper.pc \in Steps /\ "halt" \in Steps
    BY DEF TypeOK, Pass, Steps
  <2>3. CASE ReaperReads
    <3>1. reaper'.read = [s \in Sessions |-> IF IsLive(s) THEN ViewOf(s) ELSE NoView]
          /\ reaper'.new = reaper'.read
      BY <2>3 DEF ReaperReads, Asleep
    <3> QED BY <3>1, ConstantsAssumption DEF PassClaims, Claims, ViewOf, NoView
  <2>4. ASSUME NEW s \in Sessions, ReaperCloses(s) PROVE PassClaims
    <3>1. \A new \in WithoutRun(reaper.new[s]) :
             new \in View /\ new.container \in {reaper.new[s].container, None}
      BY <1>2, WithoutRunType DEF WithoutRun
    <3>2. PICK new \in View : /\ reaper' = Handled(s, new)
                              /\ new.container \in {reaper.new[s].container, None}
      BY <1>3, <1>4, <2>4, <3>1 DEF ReaperCloses
    <3> QED BY <2>1, <2>2, <3>2, HandledClaims
  <2>5. ASSUME NEW s \in Sessions, ReaperHalts(s) PROVE PassClaims
    BY <1>3, <1>4, <2>2, <2>5, HandledClaims DEF ReaperHalts
  <2>6. ASSUME NEW s \in Sessions, ReaperIdles(s) PROVE PassClaims
    <3>1. PICK st \in Status : reaper' = Handled(s, [reaper.new[s] EXCEPT !.status = st])
      BY <1>4, <2>6 DEF ReaperIdles
    <3> DEFINE new == [reaper.new[s] EXCEPT !.status = st]
    <3>2. new \in View /\ new.container \in {reaper.new[s].container, None}
      BY <1>3
    <3>3. reaper' = Handled(s, new)
      BY <3>1
    <3> HIDE DEF new
    <3> QED BY <2>1, <2>2, <3>2, <3>3, HandledClaims
  <2>7. ASSUME NEW s \in Sessions, ReaperUnheard(s) \/ ReaperSkips(s) PROVE PassClaims
    <3>1. reaper' = Handled(s, reaper.new[s])
      BY <2>7 DEF ReaperUnheard, ReaperSkips
    <3> QED BY <1>2, <2>1, <2>2, <3>1, HandledClaims
  <2>8. CASE ReaperBooks
    BY <2>8 DEF ReaperBooks, PassClaims, Claims, TypeOK, Pass
  <2>9. CASE ReaperKeeps
    BY <2>9 DEF ReaperKeeps, PassClaims, Claims, TypeOK, Pass
  <2>10. CASE ReaperLists \/ ReaperGivesUp
    <3>1. reaper'.read = Changed(reaper.read) /\ reaper'.new = Changed(reaper.new)
      BY <2>10 DEF ReaperLists, ReaperGivesUp, Asleep
    <3> QED BY <3>1, ChangedClaims
  <2>11. ASSUME NEW c \in Containers, ReaperRemoves(c) PROVE PassClaims
    BY <2>11 DEF ReaperRemoves, PassClaims, Claims, TypeOK, Pass
  <2>12. CASE ReaperCommits
    BY <2>12, ConstantsAssumption DEF ReaperCommits, PassClaims, Asleep, Nothing, NoView
  <2> QED BY <2>3, <2>4, <2>5, <2>6, <2>7, <2>8, <2>9, <2>10, <2>11, <2>12 DEF ReaperStep
<1> QED BY <1>1, <1>5, <1>6, <1>7, OwnKept, SameRequests DEF NoNewClaims

LEMMA InitOwn == Init => Own
BY DEF Init, Own, Exists, Gone

LEMMA StepOwn == ASSUME TInv, Own, [Next]_vars PROVE Own'
<1>1. CASE UNCHANGED vars
  BY <1>1, OwnKept, SameRows, SameRequests, SamePass, SameContainers DEF vars, NoNewClaims
<1>2. ASSUME NEW t \in Threads, RequestStep(t) PROVE Own'
  BY <1>2, StartOwn, ResumeOwn, BookOwn DEF RequestStep
<1> QED BY <1>1, <1>2, ActOwn, EnvironmentOwn, ReaperOwn DEF Next

\* No interleaving of starts, resumes, deletions, administrators, the reaper and
\* crashes connects a session with the container of another one.
THEOREM EverySessionItsOwnContainer == Spec => []OwnContainer
<1>1. TInv /\ Own => OwnContainer
  BY DEF TInv, TypeOK, Row, Own, OwnContainer, Claims
<1>2. Init => TInv /\ Own
  BY InitTInv, InitOwn
<1>3. TInv /\ Own /\ [Next]_vars => (TInv /\ Own)'
  BY StepTInv, StepOwn
<1> QED BY <1>1, <1>2, <1>3, PTL DEF Spec
=============================================================================
