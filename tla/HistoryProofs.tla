----------------------------- MODULE HistoryProofs -----------------------------
(* Theorems about SessionsHistory: what a pass of the reaper never removes, for *)
(* every number of sessions, containers, threads and places.                    *)
EXTENDS SessionsHistory, SessionsProofs

\* The pass has loaded the rows of its snapshot and no others, and no change
\* that it has in mind unwrites one.
SeesRows ==
    \A s \in Sessions :
        /\ s \in Snapshot => reaper.new[s].status # "none"
        /\ s \notin Snapshot => reaper.new[s] = NoView /\ s \notin reaper.todo

\* A row that is quiet is in the snapshot exactly if it is live; the container of
\* one that is angehalten is in keep_stopped when the pass lists containers; so
\* that no orphan belongs to a quiet row.
KnowsQuiet ==
    /\ quiet \subseteq {s \in Sessions : Listed(s)}
    /\ reaper.pc \in {"rows", "halt", "list"} =>
          \A s \in quiet : IsLive(s) <=> s \in Snapshot
    /\ reaper.pc = "list" =>
          \A s \in quiet : ~IsLive(s) => rows[s].container \in reaper.keep \cup {None}
    /\ reaper.pc # "remove" => reaper.orphans = {}
    /\ \A c \in reaper.orphans : ~Protected(c)

PassInv == TInv /\ SeesRows

-----------------------------------------------------------------------------
(* SeesRows.                                                                   *)

LEMMA InitSees == Init => SeesRows
BY DEF Init, SeesRows, Snapshot, Asleep, Nothing, NoView

LEMMA HandledSees ==
    ASSUME PassInv, NEW s \in Sessions, s \in reaper.todo, NEW new \in View,
           NEW pc \in Steps, reaper' = [Handled(s, new) EXCEPT !.pc = pc],
           new.status # "none"
    PROVE  SeesRows'
<1>1. /\ reaper'.read = reaper.read /\ reaper'.todo = reaper.todo \ {s}
      /\ reaper'.new = [reaper.new EXCEPT ![s] = new]
  BY DEF Handled, PassInv, TInv, TypeOK, Pass
<1>2. \A q \in Sessions : reaper'.new[q] = IF q = s THEN new ELSE reaper.new[q]
  BY <1>1 DEF PassInv, TInv, TypeOK, Pass
<1>3. s \in Snapshot
  BY DEF PassInv, SeesRows
<1> QED BY <1>1, <1>2, <1>3 DEF PassInv, SeesRows, Snapshot

LEMMA SameSees ==
    ASSUME SeesRows, reaper'.read = reaper.read, reaper'.new = reaper.new,
           reaper'.todo = reaper.todo
    PROVE  SeesRows'
BY DEF SeesRows, Snapshot

\* A step that handles a row of the pass.
RowStep(s) == \/ ReaperCloses(s) \/ ReaperHalts(s)
              \/ ReaperIdles(s) \/ ReaperUnheard(s) \/ ReaperSkips(s)

LEMMA RowStepHandles ==
    ASSUME PassInv, NEW s \in Sessions, RowStep(s)
    PROVE  \E new \in View, pc \in {"rows", "halt"} :
              /\ reaper' = [Handled(s, new) EXCEPT !.pc = pc]
              /\ new.status # "none" /\ s \in reaper.todo
              /\ UNCHANGED rows /\ reaper.pc = "rows"
<1>1. reaper.pc = "rows" /\ s \in reaper.todo /\ UNCHANGED rows
  BY DEF RowStep, ReaperCloses, ReaperHalts, ReaperIdles, ReaperUnheard, ReaperSkips
<1>2. reaper.new[s] \in View /\ reaper.new[s].status # "none"
  BY <1>1 DEF PassInv, SeesRows, TInv, TypeOK, Pass
<1>3. \A st \in Status : LET new == [reaper.new[s] EXCEPT !.status = st]
                         IN  new \in View /\ new.status = st
  BY <1>2 DEF View
<1>4. {"stopped", "paused", "angehalten"} \subseteq Status
  BY DEF Status, Live
<1>5. \A new \in View : Handled(s, new) = [Handled(s, new) EXCEPT !.pc = "rows"]
  BY <1>1, HandledType DEF Handled, PassInv, TInv, TypeOK, Pass
<1>6. CASE ReaperCloses(s)
  <2>1. \A new \in WithoutRun(reaper.new[s]) : new \in View /\ new.status = "angehalten"
    BY <1>2, WithoutRunType DEF WithoutRun
  <2>2. PICK new : /\ reaper' = Handled(s, new)
                   /\ \/ new \in WithoutRun(reaper.new[s])
                      \/ new = [reaper.new[s] EXCEPT !.status = "stopped"]
    BY <1>6 DEF ReaperCloses
  <2>3. new \in View /\ new.status # "none"
    <3>1. CASE new \in WithoutRun(reaper.new[s])
      BY <2>1, <3>1
    <3>2. CASE new = [reaper.new[s] EXCEPT !.status = "stopped"]
      <4>1. "stopped" \in Status
        BY <1>4
      <4>2. new \in View /\ new.status = "stopped"
        BY <1>3, <3>2, <4>1
      <4> QED BY <4>2
    <3> QED BY <2>2, <3>1, <3>2
  <2> QED BY <1>1, <1>5, <2>2, <2>3
<1>7. CASE ReaperHalts(s)
  <2>1. PICK new : new = [reaper.new[s] EXCEPT !.status = "angehalten"]
    OBVIOUS
  <2>2. new \in View /\ new.status = "angehalten"
    BY <1>3, <1>4, <2>1
  <2>3. reaper' = [Handled(s, new) EXCEPT !.pc = "halt"]
    BY <1>7, <2>1 DEF ReaperHalts
  <2> QED BY <1>1, <2>2, <2>3
<1>8. CASE ReaperIdles(s)
  <2>1. PICK st \in {"stopped", "paused"} :
           reaper' = Handled(s, [reaper.new[s] EXCEPT !.status = st])
    BY <1>8 DEF ReaperIdles
  <2>2. PICK new : new = [reaper.new[s] EXCEPT !.status = st]
    OBVIOUS
  <2>3. new \in View /\ new.status = st
    BY <1>3, <1>4, <2>1, <2>2
  <2> QED BY <1>1, <1>5, <2>1, <2>2, <2>3
<1>9. CASE ReaperUnheard(s) \/ ReaperSkips(s)
  <2>1. reaper' = Handled(s, reaper.new[s])
    BY <1>9 DEF ReaperUnheard, ReaperSkips
  <2> QED BY <1>1, <1>2, <1>5, <2>1
<1> QED BY <1>6, <1>7, <1>8, <1>9 DEF RowStep

LEMMA BooksSee == ASSUME PassInv, ReaperBooks PROVE SeesRows' /\ Snapshot' = Snapshot
<1>1. reaper'.read = reaper.new /\ reaper'.new = reaper.new /\ reaper'.todo = reaper.todo
  BY DEF ReaperBooks, PassInv, TInv, TypeOK, Pass
<1>2. ASSUME NEW s \in Sessions
      PROVE  /\ s \in Snapshot => reaper.new[s] # NoView
             /\ s \notin Snapshot => reaper.new[s] = NoView
  BY DEF PassInv, SeesRows, NoView
<1>3. Snapshot' = Snapshot
  BY <1>1, <1>2 DEF Snapshot
<1> QED BY <1>1, <1>3 DEF PassInv, SeesRows

LEMMA ReadsSee == ASSUME ReaperReads
                  PROVE  SeesRows' /\ Snapshot' = {s \in Sessions : IsLive(s)}
<1>1. /\ reaper'.read = [s \in Sessions |-> IF s \in {q \in Sessions : IsLive(q)}
                                            THEN ViewOf(s) ELSE NoView]
      /\ reaper'.new = reaper'.read
      /\ reaper'.todo = {q \in Sessions : IsLive(q)}
  BY DEF ReaperReads, Asleep
<1>2. \A s \in Sessions : IsLive(s) => ViewOf(s).status # "none" /\ ViewOf(s) # NoView
  BY DEF IsLive, Live, ViewOf, NoView
<1>3. Snapshot' = {s \in Sessions : IsLive(s)}
  BY <1>1, <1>2 DEF Snapshot
<1> QED BY <1>1, <1>2, <1>3 DEF SeesRows

LEMMA PassSees == ASSUME PassInv, ReaperStep PROVE SeesRows'
<1>1. ASSUME NEW s \in Sessions, RowStep(s) PROVE SeesRows'
  BY <1>1, RowStepHandles, HandledSees DEF Steps
<1>2. CASE ReaperKeeps \/ \E c \in Containers : ReaperRemoves(c)
  <2>1. /\ reaper'.read = reaper.read /\ reaper'.new = reaper.new
        /\ reaper'.todo = reaper.todo
    BY <1>2 DEF ReaperKeeps, ReaperRemoves, PassInv, TInv, TypeOK, Pass
  <2> QED BY <2>1, SameSees DEF PassInv
<1>3. CASE ReaperLists \/ ReaperGivesUp
  <2>1. /\ reaper'.read = Changed(reaper.read) /\ reaper'.new = Changed(reaper.new)
        /\ reaper'.todo = {}
    BY <1>3 DEF ReaperLists, ReaperGivesUp, Asleep
  <2> QED BY <2>1 DEF PassInv, SeesRows, Snapshot, Changed
<1>4. CASE ReaperCommits
  BY <1>4 DEF ReaperCommits, SeesRows, Snapshot, Asleep, Nothing, NoView
<1> QED BY <1>1, <1>2, <1>3, <1>4, BooksSee, ReadsSee DEF ReaperStep, RowStep

\* No other step moves the pass, but a heartbeat, which it has not loaded, and a
\* crash, which ends it.
LEMMA OtherSteps ==
    ASSUME [Next]_vars
    PROVE  \/ ReaperStep
           \/ UNCHANGED reaper
           \/ \E s \in Sessions : Heartbeat(s)
           \/ ApiCrash
<1>1. \A t \in Threads : RequestStep(t) => UNCHANGED reaper
  BY DEF RequestStep, StartCheck, StartClose, StartLimit, StartCreate, AgentCreates,
         AgentFails, StartBreaks, StartBook, ResumeBegin, AgentResumes, ResumeFails,
         ResumeBook, AgentActs, ActFails, Book
<1>2. \A t \in Threads, s \in Sessions : ActStep(t, s) => UNCHANGED reaper
  BY DEF ActStep, ActPause, ActUnpause, ActResume, ActStop, Halt, DeleteSession, Rebuild,
         AdminDelete, Begin
<1> QED BY <1>1, <1>2 DEF Next, vars, AgentCreatesLate, ContainerDies

LEMMA StepSees == ASSUME PassInv, [Next]_vars PROVE SeesRows'
<1>1. UNCHANGED reaper => SeesRows'
  BY SameSees DEF PassInv
<1>2. ASSUME NEW s \in Sessions, Heartbeat(s) PROVE SeesRows'
  <2>1. /\ reaper'.read = reaper.read /\ reaper'.new = reaper.new
        /\ reaper'.todo = reaper.todo
    BY <1>2 DEF Heartbeat, PassInv, TInv, TypeOK, Pass
  <2> QED BY <2>1, SameSees DEF PassInv
<1>3. ApiCrash => SeesRows'
  BY DEF ApiCrash, SeesRows, Snapshot, Asleep, Nothing, NoView
<1> QED BY <1>1, <1>2, <1>3, OtherSteps, PassSees

-----------------------------------------------------------------------------
(* KnowsQuiet.                                                                 *)

\* The label of a container that somebody may still remove never changes.
LEMMA LabelsStay ==
    ASSUME TInv, [Next]_vars
    PROVE  \A c \in reaper.orphans : containers'[c].session \in {containers[c].session, None}
<1>0. reaper.orphans \subseteq Containers /\ containers \in [Containers -> Container]
  BY DEF TInv, TypeOK, Pass
<1> DEFINE Stay == \A c \in reaper.orphans :
                      containers'[c].session \in {containers[c].session, None}
<1>1. UNCHANGED containers => Stay
  BY <1>0
<1>2. \A c : Remove(c) => Stay
  BY <1>0 DEF Remove, Gone
<1>3. \A c, act : Affect(c, act) => Stay
  BY <1>0 DEF Affect, Container
<1>4. \A c \in Containers, s \in Sessions \cup {None} : Create(c, s) => Stay
  BY <1>0 DEF Create, UnusedContainer
<1>5. ASSUME NEW c, NEW st, containers' = [containers EXCEPT ![c].state = st] PROVE Stay
  BY <1>0, <1>5 DEF Container
<1>6. \A t \in Threads : requests[t].session \in Sessions \cup {None}
  BY DEF TInv, TypeOK, Request
<1>7. \A t \in Threads : RequestStep(t) => Stay
  <2> SUFFICES ASSUME NEW t \in Threads, RequestStep(t) PROVE Stay
    OBVIOUS
  <2>1. CASE AgentCreates(t)
    BY <1>4, <1>6, <2>1 DEF AgentCreates
  <2>2. CASE AgentResumes(t)
    BY <1>5, <2>2 DEF AgentResumes
  <2>3. CASE AgentActs(t)
    BY <1>2, <1>3, <2>3 DEF AgentActs
  <2>4. CASE UNCHANGED containers
    BY <1>1, <2>4
  <2> QED BY <2>1, <2>2, <2>3, <2>4
          DEF RequestStep, StartCheck, StartClose, StartLimit, StartCreate, AgentFails,
              StartBreaks, StartBook, ResumeBegin, ResumeFails, ResumeBook, ActFails, Book
<1>8. \A t \in Threads, s \in Sessions : ActStep(t, s) => UNCHANGED containers
  BY DEF ActStep, ActPause, ActUnpause, ActResume, ActStop, Halt, DeleteSession, Rebuild,
         AdminDelete, Begin
<1>9. ASSUME NEW s \in Sessions, Heartbeat(s) \/ AgentCreatesLate(s) PROVE Stay
  BY <1>1, <1>4, <1>9 DEF Heartbeat, AgentCreatesLate
<1>10. ASSUME NEW c \in Containers, ContainerDies(c) PROVE Stay
  BY <1>0, <1>5, <1>10 DEF ContainerDies, Gone
<1>11. ReaperStep => Stay
  <2>1. ASSUME NEW s \in Sessions, ReaperHalts(s) \/ ReaperIdles(s) \/ ReaperUnheard(s)
        PROVE  Stay
    BY <1>1, <1>2, <1>3, <2>1 DEF ReaperHalts, ReaperIdles, ReaperUnheard
  <2>2. ASSUME NEW c \in Containers, ReaperRemoves(c) PROVE Stay
    BY <1>2, <2>2 DEF ReaperRemoves
  <2> QED BY <1>1, <2>1, <2>2
          DEF ReaperStep, ReaperReads, ReaperCloses, ReaperSkips, ReaperBooks, ReaperKeeps,
              ReaperLists, ReaperGivesUp, ReaperCommits
<1> QED BY <1>1, <1>7, <1>8, <1>9, <1>10, <1>11 DEF Next, vars, ApiCrash

\* What is quiet after a step of a pass was quiet before.
LEMMA QuietStays ==
    ASSUME TInv, KnowsQuiet, Record, reaper.pc # "asleep"
    PROVE  \A s \in quiet' : /\ s \in quiet /\ Listed(s)'
                             /\ IsLive(s)' <=> IsLive(s)
                             /\ ~IsLive(s) => rows'[s].container = rows[s].container
BY DEF Record, Unchanged, KnowsQuiet, Listed, IsLive, Live

\* Orphans that were none of a quiet row remain so.
LEMMA OrphansStay ==
    ASSUME TInv, KnowsQuiet, [Next]_vars, Record, reaper'.pc # "asleep",
           reaper.pc # "asleep", reaper'.orphans \subseteq reaper.orphans
    PROVE  \A c \in reaper'.orphans : ~Protected(c)'
<1> SUFFICES ASSUME NEW c \in reaper'.orphans, Protected(c)' PROVE FALSE
  OBVIOUS
<1>1. c \in reaper.orphans /\ ~Protected(c)
  BY DEF KnowsQuiet
<1>2. PICK s : s = containers'[c].session
  OBVIOUS
<1>3. s \in quiet' /\ (IsLive(s)' \/ rows'[s].container = c)
  BY <1>2 DEF Protected, IsLive
<1>4. s \in quiet /\ s \in Sessions
  BY <1>3, QuietStays DEF KnowsQuiet
<1>5. containers[c].session = s
  BY <1>1, <1>2, <1>4, LabelsStay, ConstantsAssumption
<1>6. IsLive(s) \/ rows[s].container = c
  BY <1>3, QuietStays
<1> QED BY <1>1, <1>4, <1>5, <1>6 DEF Protected

LEMMA StepKnows == ASSUME PassInv, KnowsQuiet, [Next]_vars, Record PROVE KnowsQuiet'
<1>0. TInv
  BY DEF PassInv
<1>1. CASE reaper'.pc = "asleep"
  <2>1. quiet' = {}
    BY <1>1 DEF Record
  <2>2. reaper'.orphans = {}
    <3>1. CASE UNCHANGED reaper
      BY <1>1, <3>1 DEF KnowsQuiet
    <3>2. CASE reaper' = Asleep
      BY <3>2 DEF Asleep
    <3>3. ASSUME NEW s \in Sessions, Heartbeat(s) PROVE reaper'.orphans = {}
      BY <1>0, <1>1, <3>3 DEF Heartbeat, KnowsQuiet, TInv, TypeOK, Pass
    <3>4. ASSUME ReaperStep PROVE reaper' = Asleep
      <4>1. ASSUME NEW s \in Sessions, RowStep(s) PROVE FALSE
        <5>1. PICK new \in View, pc \in {"rows", "halt"} :
                 reaper' = [Handled(s, new) EXCEPT !.pc = pc]
          BY <4>1, RowStepHandles
        <5>2. reaper'.pc = pc
          BY <1>0, <5>1 DEF Handled, TInv, TypeOK, Pass
        <5> QED BY <1>1, <5>2
      <4>2. CASE ReaperBooks \/ ReaperKeeps
        BY <1>0, <1>1, <4>2 DEF ReaperBooks, ReaperKeeps, TInv, TypeOK, Pass
      <4>3. ASSUME NEW c \in Containers, ReaperRemoves(c) PROVE FALSE
        BY <1>0, <1>1, <4>3 DEF ReaperRemoves, TInv, TypeOK, Pass
      <4>4. CASE ReaperReads \/ ReaperLists \/ ReaperGivesUp
        BY <1>1, <4>4 DEF ReaperReads, ReaperLists, ReaperGivesUp, Asleep
      <4> QED BY <3>4, <4>1, <4>2, <4>3, <4>4 DEF ReaperStep, RowStep, ReaperCommits
    <3> QED BY <3>1, <3>2, <3>3, <3>4, OtherSteps DEF ApiCrash
  <2> QED BY <1>1, <2>1, <2>2 DEF KnowsQuiet
<1>2. CASE reaper.pc = "asleep" /\ reaper'.pc # "asleep"
  <2>1. ReaperReads
    <3>1. ASSUME NEW s \in Sessions, Heartbeat(s) PROVE FALSE
      BY <1>0, <1>2, <3>1 DEF Heartbeat, TInv, TypeOK, Pass
    <3>2. ~ApiCrash /\ ~UNCHANGED reaper
      BY <1>2 DEF ApiCrash, Asleep
    <3>3. ReaperStep
      BY <3>1, <3>2, OtherSteps
    <3> QED BY <1>2, <3>3
            DEF ReaperStep, ReaperCloses, ReaperHalts, ReaperIdles, ReaperUnheard, ReaperSkips,
                ReaperBooks, ReaperKeeps, ReaperLists, ReaperRemoves, ReaperGivesUp,
                ReaperCommits
  <2>2. quiet' = {s \in Sessions : Listed(s)}
    BY <1>2 DEF Record
  <2>3. UNCHANGED rows /\ reaper'.pc = "rows" /\ reaper'.orphans = {}
    BY <2>1 DEF ReaperReads, Asleep
  <2>4. Snapshot' = {s \in Sessions : IsLive(s)}
    BY <2>1, ReadsSee
  <2> QED BY <2>2, <2>3, <2>4 DEF KnowsQuiet, Listed, IsLive
<1>3. CASE reaper.pc # "asleep" /\ reaper'.pc # "asleep"
  <2>1. quiet' \subseteq {s \in Sessions : Listed(s)'}
    BY <1>0, <1>3, QuietStays DEF KnowsQuiet
  <2>2. ASSUME reaper.pc \in {"rows", "halt", "list"}, Snapshot' = Snapshot
        PROVE  \A s \in quiet' : IsLive(s)' <=> s \in Snapshot'
    BY <1>0, <1>3, <2>2, QuietStays DEF KnowsQuiet
  <2>3. ASSUME reaper'.orphans \subseteq reaper.orphans
        PROVE  \A c \in reaper'.orphans : ~Protected(c)'
    BY <1>0, <1>3, <2>3, OrphansStay
  <2>4. CASE UNCHANGED reaper
    <3>1. Snapshot' = Snapshot
      BY <2>4 DEF Snapshot
    <3>2. reaper'.pc = "list" =>
             \A s \in quiet' : ~IsLive(s)' => rows'[s].container \in reaper'.keep \cup {None}
      BY <1>0, <1>3, <2>4, QuietStays DEF KnowsQuiet
    <3> QED BY <2>1, <2>2, <2>3, <2>4, <3>1, <3>2 DEF KnowsQuiet
  <2>5. ASSUME NEW s \in Sessions, Heartbeat(s) PROVE KnowsQuiet'
    <3>1. /\ reaper'.pc = reaper.pc /\ reaper'.read = reaper.read
          /\ reaper'.keep = reaper.keep /\ reaper'.orphans = reaper.orphans
      BY <1>0, <2>5 DEF Heartbeat, TInv, TypeOK, Pass
    <3>2. Snapshot' = Snapshot
      BY <3>1 DEF Snapshot
    <3>3. reaper'.pc = "list" =>
             \A q \in quiet' : ~IsLive(q)' => rows'[q].container \in reaper'.keep \cup {None}
      BY <1>0, <1>3, <3>1, QuietStays DEF KnowsQuiet
    <3> QED BY <2>1, <2>2, <2>3, <3>1, <3>2, <3>3 DEF KnowsQuiet
  <2>6. ASSUME NEW s \in Sessions, RowStep(s) PROVE KnowsQuiet'
    <3>1. PICK new \in View, pc \in {"rows", "halt"} :
             reaper' = [Handled(s, new) EXCEPT !.pc = pc] /\ reaper.pc = "rows"
      BY <2>6, RowStepHandles
    <3>2. /\ reaper'.pc = pc /\ reaper'.read = reaper.read /\ reaper'.orphans = reaper.orphans
      BY <1>0, <3>1 DEF Handled, TInv, TypeOK, Pass
    <3>3. Snapshot' = Snapshot
      BY <3>2 DEF Snapshot
    <3> QED BY <2>1, <2>2, <2>3, <3>1, <3>2, <3>3 DEF KnowsQuiet
  <2>7. CASE ReaperBooks
    <3>1. /\ reaper.pc = "halt" /\ reaper'.pc = "rows" /\ reaper'.orphans = reaper.orphans
      BY <1>0, <2>7 DEF ReaperBooks, TInv, TypeOK, Pass
    <3> QED BY <2>1, <2>2, <2>3, <2>7, <3>1, BooksSee DEF KnowsQuiet
  <2>8. CASE ReaperKeeps
    <3>1. /\ reaper.pc = "rows" /\ reaper'.pc = "list" /\ reaper'.read = reaper.read
          /\ reaper'.orphans = reaper.orphans /\ UNCHANGED rows
          /\ reaper'.keep = {IF s \in Snapshot THEN reaper.new[s].container
                             ELSE rows[s].container :
                                s \in {r \in Sessions : rows[r].status = "angehalten"}} \ {None}
      BY <1>0, <2>8 DEF ReaperKeeps, TInv, TypeOK, Pass
    <3>2. Snapshot' = Snapshot
      BY <3>1 DEF Snapshot
    <3>3. ASSUME NEW s \in quiet', ~IsLive(s)'
          PROVE  rows'[s].container \in reaper'.keep \cup {None}
      <4>1. s \in Sessions /\ rows[s].status = "angehalten" /\ s \notin Snapshot
        BY <1>0, <1>3, <3>1, <3>3, QuietStays DEF KnowsQuiet, Listed, IsLive
      <4> QED BY <3>1, <4>1
    <3> QED BY <2>1, <2>2, <2>3, <3>1, <3>2, <3>3 DEF KnowsQuiet
  <2>9. CASE ReaperLists
    <3>1. /\ reaper.pc = "list" /\ reaper'.pc = "remove" /\ UNCHANGED <<rows, containers>>
          /\ \A c \in reaper'.orphans : /\ c \in Containers /\ c \notin reaper.keep
                                        /\ containers[c].session \notin Snapshot
      BY <2>9 DEF ReaperLists, Asleep
    <3>2. ASSUME NEW c \in reaper'.orphans, Protected(c)' PROVE FALSE
      <4>1. PICK s : s = containers[c].session /\ s \in quiet'
                     /\ (IsLive(s) \/ rows[s].container = c)
        BY <3>1, <3>2 DEF Protected, IsLive
      <4>2. s \in quiet
        BY <1>0, <1>3, <4>1, QuietStays
      <4> QED BY <3>1, <4>1, <4>2, ConstantsAssumption DEF KnowsQuiet
    <3> QED BY <2>1, <3>1, <3>2 DEF KnowsQuiet
  <2>10. CASE ReaperGivesUp
    <3>1. reaper'.pc = "remove" /\ reaper'.orphans = {}
      BY <2>10 DEF ReaperGivesUp, Asleep
    <3> QED BY <2>1, <3>1 DEF KnowsQuiet
  <2>11. ASSUME NEW c \in Containers, ReaperRemoves(c) PROVE KnowsQuiet'
    <3>1. /\ reaper'.pc = "remove" /\ reaper'.orphans \subseteq reaper.orphans
      BY <1>0, <2>11 DEF ReaperRemoves, TInv, TypeOK, Pass
    <3> QED BY <2>1, <2>3, <3>1 DEF KnowsQuiet
  <2>12. ~ReaperCommits /\ ~ApiCrash /\ ~ReaperReads
    <3>1. Asleep.pc = "asleep"
      BY DEF Asleep
    <3>2. ReaperReads => reaper.pc = "asleep"
      BY DEF ReaperReads
    <3> QED BY <1>3, <3>1, <3>2 DEF ReaperCommits, ApiCrash
  <2> QED BY <2>4, <2>5, <2>6, <2>7, <2>8, <2>9, <2>10, <2>11, <2>12, OtherSteps
          DEF ReaperStep, RowStep
<1> QED BY <1>1, <1>2, <1>3

\* A pass of the reaper never removes the container of a session that was live
\* before the pass began and has been since, nor that of a place which has been
\* angehalten all the while: for any number of concurrent starts, deletions and
\* other requests, and with crashes (known_sessions and keep_stopped in
\* _reap_once).
THEOREM PassSparesQuiet == HSpec => ReaperSparesQuiet
<1>1. HInit => PassInv /\ KnowsQuiet
  BY InitTInv, InitSees DEF HInit, PassInv, KnowsQuiet, Init, Asleep
<1>2. PassInv /\ KnowsQuiet /\ [HNext]_hvars => (PassInv /\ KnowsQuiet)'
  <2>1. ASSUME PassInv, KnowsQuiet, HNext PROVE (PassInv /\ KnowsQuiet)'
    BY <2>1, StepTInv, StepSees, StepKnows DEF HNext, PassInv
  <2>2. ASSUME PassInv, KnowsQuiet, UNCHANGED hvars PROVE (PassInv /\ KnowsQuiet)'
    <3>1. PassInv'
      BY <2>2, StepTInv, StepSees DEF hvars, PassInv
    <3>2. KnowsQuiet'
      BY <2>2 DEF hvars, vars, KnowsQuiet, Listed, IsLive, Snapshot, Protected
    <3> QED BY <3>1, <3>2
  <2> QED BY <2>1, <2>2
<1>3. ASSUME PassInv, KnowsQuiet
      PROVE  \A c \in Containers : ReaperRemoves(c) => ~Protected(c)
  BY <1>3 DEF ReaperRemoves, KnowsQuiet
<1>4. PassInv /\ KnowsQuiet =>
         [\A c \in Containers : ReaperRemoves(c) => ~Protected(c)]_hvars
  BY <1>3
<1> QED BY <1>1, <1>2, <1>4, PTL DEF HSpec, ReaperSparesQuiet
================================================================================
