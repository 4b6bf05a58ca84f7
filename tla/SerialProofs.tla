----------------------------- MODULE SerialProofs -----------------------------
(* Theorems about Sessions for an API that serves one request at a time, with   *)
(* the reaper, late containers and crashes beside it, for every number of       *)
(* sessions, containers, users and places.                                      *)
EXTENDS SessionsHomes, SessionsProofs, FiniteSetTheorems

\* The requests of all users come one after the other.
OneThread == \A t, u \in Threads : t = u

(* What rows, requests and the pass of the reaper know of each other then.      *)

Opening == {"agent", "setup"}
Resuming == {"resume", "resuming", "resumed"}
Acting == DOMAIN Acts \cup {"remove", "book"}

\* A row that was ever written has a place, only root places are halted, and a
\* root place with a container can be resumed.
RowOK(s) ==
    /\ rows[s].status # "none" => rows[s].place \in Places
    /\ rows[s].status = "angehalten" => IsRoot(s)
    /\ IsRoot(s) /\ rows[s].container # None /\ Exists(rows[s].container) => Listed(s)

\* A request r works on a row, which has the container that the request has read
\* or, if the reaper came in between, none; what it is to write fits the row.
RequestOK(r) ==
    /\ r.pc \in {"close", "limit", "create"} => r.place \in Places
    /\ r.pc \notin {"idle", "limit", "create"} => r.session \in Sessions
    /\ r.session \in Sessions => /\ rows[r.session].status # "none"
                                 /\ rows[r.session].container \in {r.read.container, None}
    /\ r.pc = "close" => rows[r.session].place = r.place
    /\ r.pc \in Opening => /\ r.read.container = None
                           /\ IsRoot(r.session) => Listed(r.session)
    /\ r.pc \in Resuming => IsRoot(r.session)
    /\ r.pc \in Acting => /\ r.new.status \in Live \cup {"stopped", "angehalten"}
                          /\ r.new.status = "angehalten" => IsRoot(r.session)
                          /\ IsRoot(r.session) /\ r.new.status = "stopped"
                             => r.new.container = None
                          /\ r.new.container \in {r.read.container, None}

\* The pass changes rows it has read only, and a root place it can only halt.
PassOK(s) ==
    LET old == reaper.read[s]
        new == reaper.new[s]
    IN
    /\ old = NoView => new = NoView /\ s \notin reaper.todo
    /\ old # NoView => rows[s].status # "none" /\ new.status # "none"
    /\ new.container \in {old.container, None}
    /\ new.status = "angehalten" => IsRoot(s)
    /\ IsRoot(s) /\ new.status # old.status => new.status = "angehalten"

Fits ==
    /\ \A s \in Sessions : RowOK(s)
    /\ \A s \in Sessions : PassOK(s)
    /\ \A t \in Threads : RequestOK(requests[t])
SerialInv == TInv /\ Fits

LEMMA InitFits == Init => Fits
BY InitialValues, ConstantsAssumption
   DEF Init, Fits, RowOK, RequestOK, PassOK, IsRoot, Idle, Asleep, Nothing, NoView, Opening,
       Resuming, Acting, Acts

-----------------------------------------------------------------------------
(* What the parts of a step leave as it was.                                   *)

LEMMA RowsFit ==
    ASSUME TInv, Fits, UNCHANGED rows,
           \A s \in Sessions : LET c == rows[s].container
                               IN c # None /\ Exists(c)' => Exists(c)
    PROVE  \A s \in Sessions : RowOK(s)'
BY DEF Fits, RowOK, IsRoot, Listed, Exists

\* The pass goes on to fit rows that keep their place and are not unwritten.
Steady(s) == /\ rows'[s].place = rows[s].place
             /\ rows[s].status # "none" => rows'[s].status # "none"

LEMMA PassFits ==
    ASSUME TInv, Fits, UNCHANGED reaper,
           \A s \in Sessions : Steady(s) \/ s \notin Snapshot
    PROVE  \A s \in Sessions : PassOK(s)'
BY DEF Fits, PassOK, IsRoot, Steady, Snapshot, NoView

LEMMA SteadyRows == ASSUME UNCHANGED rows PROVE \A s \in Sessions : Steady(s)
BY DEF Steady

\* With one thread the request of a step is the only one.
LEMMA OneRequest ==
    ASSUME TInv, OneThread, NEW t \in Threads, NEW r,
           requests' = [requests EXCEPT ![t] = r], RequestOK(r)'
    PROVE  \A u \in Threads : RequestOK(requests[u])'
<1> SUFFICES ASSUME NEW u \in Threads PROVE RequestOK(requests[u])'
  OBVIOUS
<1>1. requests'[u] = r
  BY DEF OneThread, TInv, TypeOK
<1> QED BY <1>1 DEF RequestOK

LEMMA IdleFits == RequestOK(Idle)'
BY ConstantsAssumption DEF RequestOK, Idle, Opening, Resuming, Acting, Acts

LEMMA DoneFits ==
    ASSUME TInv, OneThread, NEW t \in Threads, Done(t)
    PROVE  \A u \in Threads : RequestOK(requests[u])'
BY IdleFits, OneRequest DEF Done

\* Requests that do not move fit steady rows which lose at most their container.
LEMMA RequestsFit ==
    ASSUME TInv, Fits, UNCHANGED requests,
           \A s \in Sessions : /\ Steady(s)
                               /\ rows'[s].container \in {rows[s].container, None}
                               /\ IsRoot(s) /\ Listed(s) => Listed(s)'
    PROVE  \A t \in Threads : RequestOK(requests[t])'
<1> SUFFICES ASSUME NEW t \in Threads PROVE RequestOK(requests[t])'
  OBVIOUS
<1>1. RequestOK(requests[t]) /\ requests'[t] = requests[t]
  BY DEF Fits
<1>2. requests[t].session \in Sessions \cup {None}
  BY DEF TInv, TypeOK, Request
<1> QED BY <1>1, <1>2 DEF RequestOK, Steady, IsRoot, Opening, Resuming, Acting, Acts

\* A commit of what fits the row.
LEMMA CommitFits ==
    ASSUME TInv, Fits, UNCHANGED <<containers, reaper>>, NEW t \in Threads, NEW new \in View,
           Commit(t, new), requests[t].session \in Sessions,
           new.status # "none",
           new.status = "angehalten" => IsRoot(requests[t].session),
           IsRoot(requests[t].session) =>
              \/ new.container = None
              \/ /\ new.status \in Live \cup {"angehalten"}
                 /\ \/ Listed(requests[t].session)
                    \/ new.container = requests[t].read.container
    PROVE  /\ \A s \in Sessions : RowOK(s)' /\ PassOK(s)' /\ Steady(s)
           /\ rows'[requests[t].session].status # "none"
           /\ rows'[requests[t].session].container \in {new.container, None}
<1> DEFINE q == requests[t].session
<1>1. /\ rows' = [rows EXCEPT ![q] = Written(rows[q], requests[t].read, new)]
      /\ RequestOK(requests[t])
  BY DEF Commit, Fits
<1>2. rows[q] \in Row /\ requests[t].read \in View
  BY DEF TInv, TypeOK, Request
<1>3. /\ rows'[q].place = rows[q].place
      /\ rows'[q].status = IF new.status = requests[t].read.status THEN rows[q].status
                           ELSE new.status
      /\ rows'[q].container = IF new.container = requests[t].read.container
                              THEN rows[q].container ELSE new.container
      /\ \A s \in Sessions \ {q} : rows'[s] = rows[s]
  BY <1>1, <1>2 DEF TInv, TypeOK, Written, Row
<1>4. rows[q].status # "none" /\ rows[q].container \in {requests[t].read.container, None}
  BY <1>1 DEF RequestOK
<1>5. \A s \in Sessions : Steady(s)
  BY <1>3, <1>4 DEF Steady
<1>6. ASSUME NEW s \in Sessions PROVE RowOK(s)'
  <2>1. CASE s # q
    BY <1>3, <2>1 DEF Fits, RowOK, IsRoot, Listed, Exists
  <2>2. CASE s = q
    <3>1. RowOK(q)
      BY DEF Fits
    <3> QED BY <1>3, <1>4, <2>2, <3>1 DEF RowOK, IsRoot, Listed, Exists
  <2> QED BY <2>1, <2>2
<1>7. rows'[q].status # "none" /\ rows'[q].container \in {new.container, None}
  BY <1>3, <1>4
<1> QED BY <1>5, <1>6, <1>7, PassFits

-----------------------------------------------------------------------------
(* One lemma for each group of steps.                                          *)

LEMMA GotoFits ==
    ASSUME TInv, OneThread, NEW t \in Threads, NEW pc \in Pcs, NEW s \in Sessions \cup {None},
           NEW read \in View, Goto(t, pc, s, read),
           pc \in {"limit"} \cup Opening \cup Resuming,
           pc = "limit" => requests[t].place \in Places,
           pc # "limit" => s \in Sessions,
           s \in Sessions => /\ rows'[s].status # "none"
                             /\ rows'[s].container \in {read.container, None},
           pc \in Opening => read.container = None /\ (IsRoot(s)' => Listed(s)'),
           pc \in Resuming => IsRoot(s)'
    PROVE  \A u \in Threads : RequestOK(requests[u])'
<1>0. PICK r : r = [Idle EXCEPT !.pc = pc, !.place = requests[t].place, !.session = s,
                             !.read = read]
  OBVIOUS
<1>1. requests' = [requests EXCEPT ![t] = r]
  BY <1>0 DEF Goto
<1>2. /\ r.pc = pc /\ r.place = requests[t].place /\ r.session = s /\ r.read = read
      /\ r.new = NoView
  BY <1>0 DEF Idle
<1>3. RequestOK(r)'
  BY <1>2 DEF RequestOK, IsRoot, Listed, Opening, Resuming, Acting, Acts
<1> QED BY <1>1, <1>3, OneRequest

LEMMA StartFits ==
    ASSUME TInv, OneThread, Fits, NEW t \in Threads,
           \/ \E p \in Places : StartCheck(t, p)
           \/ StartClose(t) \/ StartLimit(t) \/ StartCreate(t)
           \/ AgentCreates(t) \/ AgentFails(t) \/ StartBreaks(t) \/ StartBook(t)
    PROVE  Fits'
<1>1. /\ RequestOK(requests[t]) /\ requests[t] \in Request
      /\ requests[t].read \in View /\ requests[t].new \in View
  BY DEF Fits, TInv, TypeOK, Request
<1>2. ASSUME NEW p \in Places, StartCheck(t, p) PROVE Fits'
  <2>1. \A s \in Sessions : RowOK(s)' /\ PassOK(s)'
    BY <1>2, RowsFit, PassFits, SteadyRows DEF StartCheck, Exists
  <2>2. ASSUME requests' = [requests EXCEPT ![t] = [Idle EXCEPT !.pc = "limit", !.place = p]]
        PROVE  \A u \in Threads : RequestOK(requests[u])'
    <3>1. RequestOK([Idle EXCEPT !.pc = "limit", !.place = p])'
      BY ConstantsAssumption DEF RequestOK, Idle, Opening, Resuming, Acting, Acts
    <3> QED BY <2>2, <3>1, OneRequest
  <2>3. ASSUME NEW s \in Sessions, IsLive(s), rows[s].place = p,
               requests' = [requests EXCEPT ![t] =
                  [Idle EXCEPT !.pc = "close", !.place = p, !.session = s, !.read = ViewOf(s)]]
        PROVE  \A u \in Threads : RequestOK(requests[u])'
    <3>0. PICK r : r = [Idle EXCEPT !.pc = "close", !.place = p, !.session = s,
                                    !.read = ViewOf(s)]
      OBVIOUS
    <3>1. /\ r.pc = "close" /\ r.place = p /\ r.session = s
          /\ r.read.container = rows[s].container
      BY <3>0 DEF Idle, ViewOf
    <3>2. requests' = [requests EXCEPT ![t] = r]
      BY <2>3, <3>0
    <3>3. RequestOK(r)'
      BY <1>2, <2>3, <3>1
         DEF StartCheck, RequestOK, IsLive, Live, Opening, Resuming, Acting, Acts
    <3> QED BY <3>2, <3>3, OneRequest
  <2> QED BY <1>2, <2>1, <2>2, <2>3 DEF StartCheck, Fits
<1>3. CASE StartClose(t)
  <2> DEFINE s == requests[t].session
  <2>1. /\ s \in Sessions /\ rows[s].place = requests[t].place /\ requests[t].place \in Places
        /\ IsRoot(s) <=> Class[requests[t].place] = "root"
    BY <1>1, <1>3, ConstantsAssumption DEF StartClose, RequestOK, IsRoot
  <2>2. PICK new \in IF Class[requests[t].place] = "root"
                     THEN WithoutRun(requests[t].read)
                     ELSE {[requests[t].read EXCEPT !.status = "stopped"]} :
           Commit(t, new) /\ Goto(t, "limit", s, new)
    BY <1>3 DEF StartClose
  <2>3. new \in View /\ new.status = IF IsRoot(s) THEN "angehalten" ELSE "stopped"
    BY <1>1, <2>1, <2>2, WithoutRunType DEF WithoutRun, View, Status, Live
  <2>4. new.container \in {requests[t].read.container, None}
    BY <1>1, <2>2 DEF WithoutRun, View
  <2>5. /\ \A q \in Sessions : RowOK(q)' /\ PassOK(q)' /\ Steady(q)
        /\ rows'[s].status # "none" /\ rows'[s].container \in {new.container, None}
    <3>1. IsRoot(s) => \/ new.container = None
                       \/ new.status \in Live \cup {"angehalten"}
                          /\ (Listed(s) \/ new.container = requests[t].read.container)
      BY <2>3, <2>4
    <3> QED BY <1>3, <2>1, <2>2, <2>3, <3>1, CommitFits DEF StartClose
  <2>6. \A u \in Threads : RequestOK(requests[u])'
    BY <2>1, <2>2, <2>3, <2>5, GotoFits DEF Pcs, Opening, Resuming
  <2> QED BY <2>5, <2>6 DEF Fits
<1>4. CASE StartLimit(t)
  <2>1. \A s \in Sessions : RowOK(s)' /\ PassOK(s)'
    BY <1>4, RowsFit, PassFits, SteadyRows DEF StartLimit, Exists
  <2>2. CASE Done(t)
    BY <2>1, <2>2, DoneFits DEF Fits
  <2>3. CASE requests' = [requests EXCEPT ![t].pc = "create"]
    <3>0. PICK r : r = [requests[t] EXCEPT !.pc = "create"]
      OBVIOUS
    <3>1. requests' = [requests EXCEPT ![t] = r]
      BY <2>3, <3>0
    <3>2. RequestOK(r)'
      BY <3>0, <1>1, <1>4 DEF StartLimit, RequestOK, Request, Opening, Resuming, Acting, Acts
    <3> QED BY <2>1, <3>1, <3>2, OneRequest DEF Fits
  <2> QED BY <1>4, <2>2, <2>3 DEF StartLimit
<1>5. CASE StartCreate(t)
  <2> DEFINE r == requests[t]
             seenAs(s) == IF s = r.session THEN r.read ELSE ViewOf(s)
             starting == [status |-> "starting", container |-> None]
             places == {s \in Sessions : /\ rows[s].place = r.place
                                         /\ rows[s].status = "angehalten"
                                         /\ Class[r.place] = "root"}
  <2>1. /\ r.place \in Places
        /\ \A s \in Sessions : /\ seenAs(s) \in View
                               /\ rows[s].container \in {seenAs(s).container, None}
        /\ \A s \in places : IsRoot(s) /\ rows[s].status = "angehalten"
        /\ starting \in View
    BY <1>1, <1>5, ViewOfType, ConstantsAssumption
       DEF TInv, StartCreate, RequestOK, IsRoot, ViewOf, View, Status, Live
  <2>2. ASSUME NEW s \in places, Goto(t, "resume", s, seenAs(s)), UNCHANGED rows
        PROVE  Fits'
    <3>1. \A q \in Sessions : RowOK(q)' /\ PassOK(q)'
      BY <1>5, <2>2, RowsFit, PassFits, SteadyRows DEF StartCreate, Exists
    <3>2. \A u \in Threads : RequestOK(requests[u])'
      <4>1. rows'[s].status # "none" /\ rows'[s].container \in {seenAs(s).container, None}
            /\ IsRoot(s)'
        BY <2>1, <2>2 DEF IsRoot
      <4>2. seenAs(s) \in View
        BY <2>1
      <4> HIDE DEF seenAs
      <4> QED BY <2>2, <4>1, <4>2, GotoFits DEF Pcs, Opening, Resuming
    <3> QED BY <3>1, <3>2 DEF Fits
  <2>3. ASSUME NEW s \in places, seenAs(s).container = None,
               rows' = [rows EXCEPT ![s] = Written(@, seenAs(s), starting)],
               Goto(t, "agent", s, starting)
        PROVE  Fits'
    <3>1. /\ rows'[s].place = rows[s].place /\ rows'[s].status \in {"starting", "angehalten"}
          /\ rows'[s].container = None
          /\ \A q \in Sessions \ {s} : rows'[q] = rows[q]
      BY <2>1, <2>3 DEF Written, TInv, TypeOK, Row
    <3>2. \A q \in Sessions : Steady(q)
      BY <3>1 DEF Steady
    <3>3. \A q \in Sessions : RowOK(q)'
      BY <1>5, <2>1, <3>1 DEF Fits, RowOK, IsRoot, Listed, Exists, StartCreate
    <3>4. \A q \in Sessions : PassOK(q)'
      BY <1>5, <3>2, PassFits DEF StartCreate
    <3>5. \A u \in Threads : RequestOK(requests[u])'
      BY <2>1, <2>3, <3>1, GotoFits DEF Pcs, Opening, Resuming, Listed, Live
    <3> QED BY <3>3, <3>4, <3>5 DEF Fits
  <2>4. ASSUME NEW s \in Sessions, UnusedSession(s),
               rows' = [rows EXCEPT ![s] = [place |-> r.place, status |-> "starting",
                                            container |-> None]],
               Goto(t, "agent", s, starting)
        PROVE  Fits'
    <3>1. /\ rows'[s].place = r.place /\ rows'[s].status = "starting"
          /\ rows'[s].container = None
          /\ \A q \in Sessions \ {s} : rows'[q] = rows[q]
      BY <2>4 DEF TInv, TypeOK
    <3>2. \A q \in Sessions : Steady(q) \/ q \notin Snapshot
      BY <2>4, <3>1 DEF Steady, UnusedSession
    <3>3. \A q \in Sessions : RowOK(q)'
      BY <1>5, <2>1, <3>1 DEF Fits, RowOK, IsRoot, Listed, Exists, StartCreate
    <3>4. \A q \in Sessions : PassOK(q)'
      BY <1>5, <3>2, PassFits DEF StartCreate
    <3>5. \A u \in Threads : RequestOK(requests[u])'
      BY <2>1, <2>4, <3>1, GotoFits DEF Pcs, Opening, Resuming, Listed, Live
    <3> QED BY <3>3, <3>4, <3>5 DEF Fits
  <2> QED BY <1>5, <2>2, <2>3, <2>4 DEF StartCreate
<1>6. CASE AgentCreates(t)
  <2>1. PICK c \in Containers :
          /\ Create(c, requests[t].session)
          /\ requests' = [requests EXCEPT ![t].pc = "setup", ![t].container = c]
    BY <1>6 DEF AgentCreates
  <2>2. \A s \in Sessions : RowOK(s)' /\ PassOK(s)'
    <3>1. \A s \in Sessions : rows[s].container # c
      BY <2>1 DEF Create, UnusedContainer
    <3>2. \A d \in Containers \ {c} : Exists(d)' => Exists(d)
      BY <2>1 DEF Create, Exists
    <3>3. \A s \in Sessions : rows[s].container \in Containers \cup {None}
      BY DEF TInv, TypeOK, Row
    <3> QED BY <1>6, <3>1, <3>2, <3>3, RowsFit, PassFits, SteadyRows DEF AgentCreates
  <2>3. \A u \in Threads : RequestOK(requests[u])'
    <3>0. PICK r : r = [requests[t] EXCEPT !.pc = "setup", !.container = c]
      OBVIOUS
    <3>1. requests' = [requests EXCEPT ![t] = r]
      BY <2>1, <3>0 DEF TInv, TypeOK
    <3>2. RequestOK(r)'
      BY <3>0, <1>1, <1>6 DEF AgentCreates, RequestOK, Request, Opening, Resuming, Acting, Acts,
                        IsRoot, Listed
    <3> QED BY <3>1, <3>2, OneRequest
  <2> QED BY <2>2, <2>3 DEF Fits
<1>7. CASE AgentFails(t)
  <2> DEFINE new == [requests[t].read EXCEPT !.status = "failed"]
  <2>1. new \in View /\ new.status = "failed" /\ new.container = None
    BY <1>1, <1>7 DEF AgentFails, RequestOK, Opening, View, Status
  <2>2. requests[t].session \in Sessions
    BY <1>1, <1>7 DEF AgentFails, RequestOK
  <2>3. \A s \in Sessions : RowOK(s)' /\ PassOK(s)'
    BY <1>7, <2>1, <2>2, CommitFits DEF AgentFails
  <2> QED BY <1>7, <2>3, DoneFits DEF AgentFails, Fits
<1>8. CASE StartBreaks(t)
  <2>1. \A s \in Sessions : RowOK(s)' /\ PassOK(s)'
    BY <1>8, RowsFit, PassFits, SteadyRows DEF StartBreaks, Exists
  <2> QED BY <1>8, <2>1, DoneFits DEF StartBreaks, Fits
<1>9. CASE StartBook(t)
  <2>1. PICK st \in {"running", "starting"} :
          Commit(t, [status |-> st, container |-> requests[t].container])
    BY <1>9 DEF StartBook
  <2> DEFINE new == [status |-> st, container |-> requests[t].container]
  <2>2. new \in View /\ new.status \in Live
    BY <1>1 DEF View, Status, Live, Request
  <2>3. /\ requests[t].session \in Sessions
        /\ IsRoot(requests[t].session) => Listed(requests[t].session)
    BY <1>1, <1>9 DEF StartBook, RequestOK, Opening
  <2>4. new.status # "none" /\ new.status # "angehalten"
    OBVIOUS
  <2>5. Commit(t, new)
    BY <2>1
  <2> HIDE DEF new
  <2>6. \A s \in Sessions : RowOK(s)' /\ PassOK(s)'
    BY <1>9, <2>2, <2>3, <2>4, <2>5, CommitFits DEF StartBook
  <2> QED BY <1>9, <2>6, DoneFits DEF StartBook, Fits
<1> QED BY <1>2, <1>3, <1>4, <1>5, <1>6, <1>7, <1>8, <1>9

LEMMA ResumeFits ==
    ASSUME TInv, OneThread, Fits, NEW t \in Threads,
           ResumeBegin(t) \/ AgentResumes(t) \/ ResumeFails(t) \/ ResumeBook(t)
    PROVE  Fits'
<1>0. PICK s : s = requests[t].session
  OBVIOUS
<1>1. /\ RequestOK(requests[t]) /\ requests[t] \in Request /\ requests[t].read \in View
      /\ requests[t].pc \in Resuming /\ s \in Sessions /\ IsRoot(s)
  BY <1>0 DEF Fits, TInv, TypeOK, Request, RequestOK, Resuming, ResumeBegin, AgentResumes,
         ResumeFails, ResumeBook
<1>2. \A st \in Status :
         LET new == [requests[t].read EXCEPT !.status = st]
         IN  new \in View /\ new.status = st /\ new.container = requests[t].read.container
  BY <1>1 DEF View
<1>3. {"starting", "running", "angehalten"} \subseteq Status
      /\ {"starting", "running"} \subseteq Live
  BY DEF Status, Live
<1>4. ASSUME NEW st \in {"starting", "running", "angehalten"},
             Commit(t, [requests[t].read EXCEPT !.status = st]),
             UNCHANGED <<containers, reaper>>
      PROVE  /\ \A q \in Sessions : RowOK(q)' /\ PassOK(q)' /\ Steady(q)
             /\ rows'[s].status # "none"
             /\ rows'[s].container \in {requests[t].read.container, None}
  <2>1. PICK new \in View : /\ new = [requests[t].read EXCEPT !.status = st]
                            /\ new.status = st /\ new.container = requests[t].read.container
    BY <1>2, <1>3
  <2> QED BY <1>0, <1>1, <1>3, <1>4, <2>1, CommitFits
<1>5. CASE ResumeBegin(t)
  <2>1. CASE Done(t) /\ UNCHANGED rows
    <3>1. \A q \in Sessions : RowOK(q)' /\ PassOK(q)'
      BY <1>5, <2>1, RowsFit, PassFits, SteadyRows DEF ResumeBegin, Exists
    <3> QED BY <2>1, <3>1, DoneFits DEF Fits
  <2>2. ASSUME NEW new \in View, new = [requests[t].read EXCEPT !.status = "starting"],
               Commit(t, new), Goto(t, "resuming", s, new)
        PROVE  Fits'
    <3>1. new.container = requests[t].read.container
      BY <1>2, <1>3, <2>2
    <3>2. /\ \A q \in Sessions : RowOK(q)' /\ PassOK(q)' /\ Steady(q)
          /\ rows'[s].status # "none"
          /\ rows'[s].container \in {new.container, None}
      BY <1>4, <1>5, <2>2, <3>1 DEF ResumeBegin
    <3>3. IsRoot(s)'
      BY <1>1, <3>2 DEF IsRoot, Steady
    <3>4. \A u \in Threads : RequestOK(requests[u])'
      BY <1>0, <1>1, <2>2, <3>2, <3>3, GotoFits DEF Pcs, Opening, Resuming
    <3> QED BY <3>2, <3>4 DEF Fits
  <2> QED BY <1>0, <1>2, <1>3, <1>5, <2>1, <2>2 DEF ResumeBegin
<1>6. CASE AgentResumes(t)
  <2>1. \A q \in Sessions : RowOK(q)' /\ PassOK(q)'
    <3>1. \A c \in Containers : Exists(c)' => Exists(c)
      BY <1>6 DEF AgentResumes, Exists, TInv, TypeOK, Container
    <3>2. \A q \in Sessions : rows[q].container \in Containers \cup {None}
      BY DEF TInv, TypeOK, Row
    <3> QED BY <1>6, <3>1, <3>2, RowsFit, PassFits, SteadyRows DEF AgentResumes
  <2>2. PICK r : r = [requests[t] EXCEPT !.pc = "resumed"]
    OBVIOUS
  <2>3. requests' = [requests EXCEPT ![t] = r]
    BY <1>6, <2>2 DEF AgentResumes
  <2>4. RequestOK(r)'
    BY <1>1, <1>6, <2>2 DEF AgentResumes, RequestOK, Request, Opening, Resuming, Acting, Acts,
                            IsRoot
  <2> QED BY <2>1, <2>3, <2>4, OneRequest DEF Fits
<1>7. CASE ResumeFails(t)
  <2>1. CASE Commit(t, [requests[t].read EXCEPT !.status = "angehalten"])
    BY <1>4, <1>7, <2>1, DoneFits DEF ResumeFails, Fits
  <2>2. CASE Commit(t, [status |-> "angehalten", container |-> None])
    <3>1. PICK new : new = [status |-> "angehalten", container |-> None]
      OBVIOUS
    <3>2. new \in View /\ new.status = "angehalten" /\ new.container = None
      BY <1>3, <3>1 DEF View
    <3>3. \A q \in Sessions : RowOK(q)' /\ PassOK(q)'
      BY <1>0, <1>1, <1>7, <2>2, <3>1, <3>2, CommitFits DEF ResumeFails
    <3> QED BY <1>7, <3>3, DoneFits DEF ResumeFails, Fits
  <2> QED BY <1>7, <2>1, <2>2 DEF ResumeFails
<1>8. CASE ResumeBook(t)
  BY <1>4, <1>8, DoneFits DEF ResumeBook, Fits
<1> QED BY <1>5, <1>6, <1>7, <1>8

\* What the handlers set out to write when they load the row of session s.
LEMMA Plans ==
    ASSUME TInv, NEW t \in Threads, NEW s \in Sessions, ActStep(t, s)
    PROVE  \E pc \in Pcs, new \in View :
              /\ Begin(t, s, pc, new)
              /\ \/ pc = "resume" /\ IsRoot(s) /\ "resume" \in Handlers
                 \/ /\ pc \in Acting /\ new.status \in {"paused", "running"}
                    /\ new.container = rows[s].container /\ "pause" \in Handlers
                 \/ pc \in Acting /\ new.status = "angehalten" /\ IsRoot(s)
                    /\ new.container \in {rows[s].container, None}
                 \/ pc \in Acting /\ new.status = "stopped" /\ (IsRoot(s) => new.container = None)
                    /\ new.container \in {rows[s].container, None}
<1>1. ViewOf(s) \in View /\ NoView \in View
  BY ViewOfType, InitialValues DEF TInv
<1>2. /\ \A st \in Status :
            LET new == [ViewOf(s) EXCEPT !.status = st]
            IN  new \in View /\ new.status = st /\ new.container = rows[s].container
      /\ \A st \in Status :
            LET new == [status |-> st, container |-> None]
            IN  new \in View /\ new.status = st /\ new.container = None
  BY <1>1 DEF View, ViewOf
<1>3. {"paused", "running", "stopped", "angehalten"} \subseteq Status
  BY DEF Status, Live
<1>4. {"pause", "unpause", "start", "stop", "remove", "book"} \subseteq Acting \cap Pcs
      /\ "resume" \in Pcs
  BY DEF Acting, Acts, Pcs
<1>5. CASE ActPause(t, s)
  BY <1>2, <1>3, <1>4, <1>5 DEF ActPause
<1>6. CASE ActUnpause(t, s)
  BY <1>2, <1>3, <1>4, <1>6 DEF ActUnpause
<1>7. CASE ActResume(t, s)
  BY <1>1, <1>4, <1>7 DEF ActResume
<1>8. CASE ActStop(t, s)
  BY <1>2, <1>3, <1>4, <1>8 DEF ActStop
<1>9. CASE Halt(t, s)
  BY <1>2, <1>3, <1>4, <1>9 DEF Halt, If
<1>10. CASE DeleteSession(t, s)
  BY <1>2, <1>3, <1>4, <1>10 DEF DeleteSession, If
<1>11. CASE Rebuild(t, s)
  BY <1>2, <1>3, <1>4, <1>11 DEF Rebuild, If
<1>12. CASE AdminDelete(t, s)
  BY <1>2, <1>3, <1>4, <1>12 DEF AdminDelete, If
<1> QED BY <1>5, <1>6, <1>7, <1>8, <1>9, <1>10, <1>11, <1>12 DEF ActStep

LEMMA ActFits ==
    ASSUME TInv, OneThread, Fits, NEW t \in Threads, NEW s \in Sessions, ActStep(t, s)
    PROVE  Fits'
<1>1. PICK pc \in Pcs, new \in View :
         /\ Begin(t, s, pc, new)
         /\ \/ pc = "resume" /\ IsRoot(s)
            \/ /\ pc \in Acting /\ new.status \in Live \cup {"stopped", "angehalten"}
               /\ new.status = "angehalten" => IsRoot(s)
               /\ IsRoot(s) /\ new.status = "stopped" => new.container = None
               /\ new.container \in {rows[s].container, None}
  BY Plans DEF Live
<1>2. \A q \in Sessions : RowOK(q)' /\ PassOK(q)'
  BY <1>1, RowsFit, PassFits, SteadyRows DEF Begin, Exists
<1>3. PICK r : r = [Idle EXCEPT !.pc = pc, !.session = s, !.read = ViewOf(s), !.new = new]
  OBVIOUS
<1>4. /\ r.pc = pc /\ r.session = s /\ r.read.container = rows[s].container /\ r.new = new
      /\ requests' = [requests EXCEPT ![t] = r]
  BY <1>1, <1>3 DEF Idle, ViewOf, Begin
<1>5. RequestOK(r)'
  BY <1>1, <1>4 DEF RequestOK, Begin, IsRoot, Opening, Resuming, Acting, Acts
<1> QED BY <1>2, <1>4, <1>5, OneRequest DEF Fits

LEMMA BookFits ==
    ASSUME TInv, OneThread, Fits, NEW t \in Threads, AgentActs(t) \/ ActFails(t) \/ Book(t)
    PROVE  Fits'
<1>1. /\ RequestOK(requests[t]) /\ requests[t] \in Request
      /\ requests[t].pc \in Acting /\ requests[t].session \in Sessions
      /\ requests[t].new \in View
  BY DEF Fits, TInv, TypeOK, Request, RequestOK, Acting, Acts, AgentActs, ActFails, Book
<1>2. CASE AgentActs(t)
  <2>1. \A q \in Sessions : RowOK(q)' /\ PassOK(q)'
    <3>1. NoNewContainers
      BY <1>2, AffectNothingNew, RemoveNothingNew DEF AgentActs, Acts, TInv
    <3>2. \A q \in Sessions : rows[q].container \in Containers \cup {None}
      BY DEF TInv, TypeOK, Row
    <3> QED BY <1>2, <3>1, <3>2, RowsFit, PassFits, SteadyRows DEF AgentActs, NoNewContainers
  <2>2. PICK r : r = [requests[t] EXCEPT !.pc = "book"]
    OBVIOUS
  <2>3. requests' = [requests EXCEPT ![t] = r]
    BY <1>2, <2>2 DEF AgentActs
  <2>4. RequestOK(r)'
    BY <1>1, <1>2, <2>2 DEF AgentActs, RequestOK, Request, Opening, Resuming, Acting, Acts,
                            IsRoot
  <2> QED BY <2>1, <2>3, <2>4, OneRequest DEF Fits
<1>3. CASE ActFails(t)
  <2>1. \A q \in Sessions : RowOK(q)' /\ PassOK(q)'
    BY <1>3, RowsFit, PassFits, SteadyRows DEF ActFails, Exists
  <2> QED BY <1>3, <2>1, DoneFits DEF ActFails, Fits
<1>4. CASE Book(t)
  <2>1. /\ requests[t].new.status \in Live \cup {"stopped", "angehalten"}
        /\ requests[t].new.status = "angehalten" => IsRoot(requests[t].session)
        /\ IsRoot(requests[t].session) /\ requests[t].new.status = "stopped"
           => requests[t].new.container = None
        /\ requests[t].new.container \in {requests[t].read.container, None}
    BY <1>1 DEF RequestOK
  <2>2. requests[t].new.status # "none"
    BY <2>1 DEF Live
  <2>3. \A q \in Sessions : RowOK(q)' /\ PassOK(q)'
    BY <1>1, <1>4, <2>1, <2>2, CommitFits DEF Book
  <2> QED BY <1>4, <2>3, DoneFits DEF Book, Fits
<1> QED BY <1>2, <1>3, <1>4

LEMMA NoContainersFit ==
    ASSUME TInv, Fits, NoNewContainers, UNCHANGED rows
    PROVE  \A s \in Sessions : RowOK(s)'
<1>1. \A s \in Sessions : rows[s].container \in Containers \cup {None}
  BY DEF TInv, TypeOK, Row
<1> QED BY <1>1, RowsFit DEF NoNewContainers

LEMMA EnvironmentFits ==
    ASSUME TInv, OneThread, Fits,
           \/ \E s \in Sessions : Heartbeat(s) \/ AgentCreatesLate(s)
           \/ \E c \in Containers : ContainerDies(c)
           \/ ApiCrash
    PROVE  Fits'
<1>1. UNCHANGED rows
  BY DEF Heartbeat, AgentCreatesLate, ContainerDies, ApiCrash
<1>2. UNCHANGED requests => \A t \in Threads : RequestOK(requests[t])'
  BY <1>1, RequestsFit, SteadyRows DEF Listed
<1>3. ASSUME NEW s \in Sessions, Heartbeat(s) PROVE Fits'
  <2>1. \A q \in Sessions : RowOK(q)'
    BY <1>3, RowsFit DEF Heartbeat, Exists
  <2>2. reaper'.read = reaper.read /\ reaper'.new = reaper.new /\ reaper'.todo = reaper.todo
    BY <1>3 DEF Heartbeat, TInv, TypeOK, Pass
  <2>3. \A q \in Sessions : PassOK(q)'
    BY <1>1, <2>2 DEF Fits, PassOK, IsRoot
  <2> QED BY <1>2, <1>3, <2>1, <2>3 DEF Heartbeat, Fits
<1>4. ASSUME NEW s \in Sessions, AgentCreatesLate(s) PROVE Fits'
  <2>1. \A q \in Sessions : PassOK(q)'
    BY <1>1, <1>4, PassFits, SteadyRows DEF AgentCreatesLate
  <2>2. ASSUME NEW c \in Containers, Create(c, s) PROVE \A q \in Sessions : RowOK(q)'
    <3>1. \A q \in Sessions : rows[q].container # c
                              /\ rows[q].container \in Containers \cup {None}
      BY <2>2 DEF Create, UnusedContainer, TInv, TypeOK, Row
    <3>2. \A d \in Containers \ {c} : Exists(d)' => Exists(d)
      BY <2>2 DEF Create, Exists
    <3> QED BY <1>1, <3>1, <3>2, RowsFit
  <2>3. \A q \in Sessions : RowOK(q)'
    BY <1>1, <1>4, <2>2, NoContainersFit, SameContainers DEF AgentCreatesLate
  <2> QED BY <1>2, <1>4, <2>1, <2>3 DEF AgentCreatesLate, Fits
<1>5. ASSUME NEW c \in Containers, ContainerDies(c) PROVE Fits'
  <2>1. NoNewContainers
    BY <1>5 DEF ContainerDies, NoNewContainers, Exists, Runs, Gone, TInv, TypeOK, Container
  <2>2. \A q \in Sessions : RowOK(q)' /\ PassOK(q)'
    BY <1>1, <1>5, <2>1, NoContainersFit, PassFits, SteadyRows DEF ContainerDies
  <2> QED BY <1>2, <1>5, <2>2 DEF ContainerDies, Fits
<1>6. CASE ApiCrash
  <2>1. \A q \in Sessions : RowOK(q)'
    BY <1>1, <1>6, RowsFit DEF ApiCrash, Exists
  <2>2. \A t \in Threads : RequestOK(requests[t])'
    BY <1>6, IdleFits DEF ApiCrash, RequestOK
  <2>3. \A q \in Sessions : PassOK(q)'
    BY <1>6 DEF ApiCrash, PassOK, Asleep, Nothing, NoView
  <2> QED BY <2>1, <2>2, <2>3 DEF Fits
<1> QED BY <1>3, <1>4, <1>5, <1>6

\* A step of the pass that handles row s.
LEMMA HandledFits ==
    ASSUME TInv, Fits, UNCHANGED rows, NEW s \in Sessions, s \in reaper.todo,
           NEW new \in View, NEW pc \in Steps, reaper' = [Handled(s, new) EXCEPT !.pc = pc],
           new.status # "none", new.container \in {reaper.new[s].container, None},
           new.status = "angehalten" => IsRoot(s),
           IsRoot(s) /\ new.status # reaper.new[s].status => new.status = "angehalten"
    PROVE  \A q \in Sessions : PassOK(q)'
<1>1. /\ reaper'.read = reaper.read /\ reaper'.todo = reaper.todo \ {s}
      /\ reaper'.new = [reaper.new EXCEPT ![s] = new]
  BY DEF Handled, TInv, TypeOK, Pass
<1>2. \A q \in Sessions : reaper'.new[q] = IF q = s THEN new ELSE reaper.new[q]
  BY <1>1 DEF TInv, TypeOK, Pass
<1>3. reaper.read[s] # NoView
  BY DEF Fits, PassOK
<1>4. PassOK(s)'
  BY <1>1, <1>2, <1>3 DEF Fits, PassOK, IsRoot
<1>5. ASSUME NEW q \in Sessions, q # s PROVE PassOK(q)'
  BY <1>1, <1>2, <1>5 DEF Fits, PassOK, IsRoot
<1> QED BY <1>4, <1>5

\* The commit of a pass.
LEMMA ReapFits ==
    ASSUME TInv, Fits, rows' = Reap, NoNewContainers
    PROVE  \A s \in Sessions : /\ RowOK(s)' /\ Steady(s)
                               /\ rows'[s].container \in {rows[s].container, None}
                               /\ IsRoot(s) /\ Listed(s) => Listed(s)'
<1> TAKE s \in Sessions
<1>1. /\ rows'[s].place = rows[s].place
      /\ rows'[s].status = IF reaper.new[s].status = reaper.read[s].status
                           THEN rows[s].status ELSE reaper.new[s].status
      /\ rows'[s].container = IF reaper.new[s].container = reaper.read[s].container
                              THEN rows[s].container ELSE reaper.new[s].container
  BY DEF Reap, Written, TInv, TypeOK, Row
<1>2. RowOK(s) /\ PassOK(s)
  BY DEF Fits
<1>3. Steady(s) /\ rows'[s].container \in {rows[s].container, None}
  BY <1>1, <1>2 DEF Steady, PassOK
<1>4. IsRoot(s) /\ Listed(s) => Listed(s)'
  BY <1>1, <1>2 DEF PassOK, Listed
<1>5. RowOK(s)'
  <2>1. rows'[s].status # "none" => rows[s].status # "none"
    BY <1>1, <1>2 DEF PassOK
  <2>2. IsRoot(s)' <=> IsRoot(s)
    BY <1>1 DEF IsRoot
  <2>3. rows'[s].status = "angehalten" => IsRoot(s)
    BY <1>1, <1>2 DEF PassOK, RowOK
  <2>4. rows[s].container \in Containers \cup {None}
    BY DEF TInv, TypeOK, Row
  <2> QED BY <1>1, <1>2, <1>3, <1>4, <2>1, <2>2, <2>3, <2>4 DEF RowOK, NoNewContainers
<1> QED BY <1>3, <1>4, <1>5

LEMMA ChangedFits ==
    ASSUME TInv, Fits, UNCHANGED rows, reaper'.todo = {},
           reaper'.read = Changed(reaper.read), reaper'.new = Changed(reaper.new)
    PROVE  \A s \in Sessions : PassOK(s)'
BY DEF Fits, PassOK, Changed, IsRoot, NoView

LEMMA ReaperFits == ASSUME TInv, OneThread, Fits, ReaperStep PROVE Fits'
<1>1. UNCHANGED requests
  BY DEF ReaperStep, ReaperReads, ReaperCloses, ReaperHalts, ReaperIdles, ReaperUnheard,
         ReaperSkips, ReaperBooks, ReaperKeeps, ReaperLists, ReaperRemoves, ReaperGivesUp,
         ReaperCommits
<1>2. UNCHANGED rows \/ rows' = Reap
  BY DEF ReaperStep, ReaperReads, ReaperCloses, ReaperHalts, ReaperIdles, ReaperUnheard,
         ReaperSkips, ReaperBooks, ReaperKeeps, ReaperLists, ReaperRemoves, ReaperGivesUp,
         ReaperCommits
<1>3. NoNewContainers
  <2>1. ASSUME NEW s \in Sessions, ReaperHalts(s) \/ ReaperIdles(s) \/ ReaperUnheard(s)
        PROVE  NoNewContainers
    BY <2>1, AffectNothingNew, RemoveNothingNew, SameContainers
       DEF ReaperHalts, ReaperIdles, ReaperUnheard, TInv
  <2>2. ASSUME NEW c \in Containers, ReaperRemoves(c) PROVE NoNewContainers
    BY <2>2, RemoveNothingNew DEF ReaperRemoves, TInv
  <2>3. CASE UNCHANGED containers
    BY <2>3, SameContainers
  <2> QED BY <2>1, <2>2, <2>3
          DEF ReaperStep, ReaperReads, ReaperCloses, ReaperSkips, ReaperBooks, ReaperKeeps,
              ReaperLists, ReaperGivesUp, ReaperCommits
<1>4. \A s \in Sessions : RowOK(s)'
  BY <1>2, <1>3, NoContainersFit, ReapFits
<1>5. \A t \in Threads : RequestOK(requests[t])'
  BY <1>1, <1>2, <1>3, RequestsFit, ReapFits, SteadyRows DEF Listed
<1>6. \A s \in Sessions : PassOK(s)'
  <2>1. \A s \in Sessions, st \in Status :
           LET new == [reaper.new[s] EXCEPT !.status = st]
           IN  new \in View /\ new.status = st /\ new.container = reaper.new[s].container
    BY DEF TInv, TypeOK, Pass, View
  <2>2. {"stopped", "paused", "angehalten"} \subseteq Status
    BY DEF Status, Live
  <2>3. \A s \in Sessions : reaper.new[s] \in View
    BY DEF TInv, TypeOK, Pass
  <2>4. \A s \in Sessions, new \in View :
           Handled(s, new) = [Handled(s, new) EXCEPT !.pc = reaper.pc]
    BY HandledType DEF Handled, TInv, TypeOK, Pass
  <2>5. \A s \in reaper.todo : /\ reaper.new[s].status # "none"
                               /\ reaper.new[s].status = "angehalten" => IsRoot(s)
    BY DEF Fits, PassOK, TInv, TypeOK, Pass
  <2>6. reaper.pc \in Steps /\ "halt" \in Steps
    BY DEF TInv, TypeOK, Pass, Steps
  <2>7. CASE ReaperReads
    <3>1. /\ reaper'.read = [s \in Sessions |-> IF s \in {q \in Sessions : IsLive(q)}
                                                THEN ViewOf(s) ELSE NoView]
          /\ reaper'.new = reaper'.read
          /\ reaper'.todo = {q \in Sessions : IsLive(q)}
          /\ UNCHANGED rows
      BY <2>7 DEF ReaperReads, Asleep
    <3> QED BY <3>1 DEF PassOK, ViewOf, NoView, IsLive, Live
  <2>8. ASSUME NEW s \in Sessions, ReaperCloses(s) PROVE \A q \in Sessions : PassOK(q)'
    <3>0. \A new \in WithoutRun(reaper.new[s]) :
             /\ new \in View /\ new.status = "angehalten"
             /\ new.container \in {reaper.new[s].container, None}
      BY <2>3, WithoutRunType DEF WithoutRun
    <3>1. PICK new : /\ reaper' = Handled(s, new)
                     /\ \/ IsRoot(s) /\ new \in WithoutRun(reaper.new[s])
                        \/ ~IsRoot(s) /\ new = [reaper.new[s] EXCEPT !.status = "stopped"]
      BY <2>8 DEF ReaperCloses
    <3>2. /\ new \in View /\ new.container \in {reaper.new[s].container, None}
          /\ IsRoot(s) => new.status = "angehalten"
          /\ ~IsRoot(s) => new.status = "stopped"
      <4>1. CASE IsRoot(s)
        BY <3>0, <3>1, <4>1
      <4>2. CASE ~IsRoot(s)
        <5>1. new = [reaper.new[s] EXCEPT !.status = "stopped"] /\ "stopped" \in Status
          BY <2>2, <3>1, <4>2
        <5>2. /\ new \in View /\ new.status = "stopped"
              /\ new.container = reaper.new[s].container
          BY <2>1, <5>1
        <5> QED BY <4>2, <5>2
      <4> QED BY <4>1, <4>2
    <3>3. reaper' = [Handled(s, new) EXCEPT !.pc = reaper.pc]
      BY <2>4, <3>1, <3>2
    <3>4. s \in reaper.todo /\ UNCHANGED rows
      BY <2>8 DEF ReaperCloses
    <3>5. /\ new.status # "none" /\ new.status = "angehalten" => IsRoot(s)
          /\ IsRoot(s) => new.status = "angehalten"
      BY <3>2
    <3> QED BY <2>6, <3>2, <3>3, <3>4, <3>5, HandledFits
  <2>9. ASSUME NEW s \in Sessions, ReaperHalts(s) PROVE \A q \in Sessions : PassOK(q)'
    BY <2>1, <2>2, <2>6, <2>9, HandledFits DEF ReaperHalts
  <2>10. ASSUME NEW s \in Sessions, ReaperIdles(s) PROVE \A q \in Sessions : PassOK(q)'
    <3>1. PICK st \in {"stopped", "paused"} :
             reaper' = Handled(s, [reaper.new[s] EXCEPT !.status = st])
      BY <2>10 DEF ReaperIdles
    <3>0. PICK new : new = [reaper.new[s] EXCEPT !.status = st]
      OBVIOUS
    <3>2. /\ reaper' = Handled(s, new) /\ new \in View /\ new.status = st
          /\ new.container = reaper.new[s].container
      BY <2>1, <2>2, <3>0, <3>1
    <3>3. reaper' = [Handled(s, new) EXCEPT !.pc = reaper.pc]
      BY <2>4, <3>2
    <3>4. s \in reaper.todo /\ ~IsRoot(s) /\ UNCHANGED rows
      BY <2>10 DEF ReaperIdles
    <3>5. new.status # "none" /\ new.status # "angehalten"
      BY <3>1, <3>2
    <3>6. new.container \in {reaper.new[s].container, None}
      BY <3>2
    <3> QED BY <2>6, <3>2, <3>3, <3>4, <3>5, <3>6, HandledFits
  <2>11. ASSUME NEW s \in Sessions, ReaperUnheard(s) \/ ReaperSkips(s)
         PROVE  \A q \in Sessions : PassOK(q)'
    <3>1. reaper' = Handled(s, reaper.new[s]) /\ s \in reaper.todo /\ UNCHANGED rows
      BY <2>11 DEF ReaperUnheard, ReaperSkips
    <3> QED BY <2>3, <2>4, <2>5, <2>6, <3>1, HandledFits
  <2>12. CASE ReaperBooks
    <3>1. /\ reaper'.read = reaper.new /\ reaper'.new = reaper.new
          /\ reaper'.todo = reaper.todo /\ rows' = Reap
      BY <2>12 DEF ReaperBooks, TInv, TypeOK, Pass
    <3> QED BY <1>3, <3>1, ReapFits DEF Fits, PassOK, Steady, IsRoot, NoView
  <2>13. CASE ReaperKeeps
    <3>1. /\ reaper'.read = reaper.read /\ reaper'.new = reaper.new
          /\ reaper'.todo = reaper.todo /\ UNCHANGED rows
      BY <2>13 DEF ReaperKeeps, TInv, TypeOK, Pass
    <3> QED BY <3>1 DEF Fits, PassOK, IsRoot
  <2>14. CASE ReaperLists \/ ReaperGivesUp
    <3>1. /\ reaper'.read = Changed(reaper.read) /\ reaper'.new = Changed(reaper.new)
          /\ reaper'.todo = {} /\ UNCHANGED rows
      BY <2>14 DEF ReaperLists, ReaperGivesUp, Asleep
    <3> QED BY <3>1, ChangedFits
  <2>15. ASSUME NEW c \in Containers, ReaperRemoves(c) PROVE \A s \in Sessions : PassOK(s)'
    <3>1. /\ reaper'.read = reaper.read /\ reaper'.new = reaper.new
          /\ reaper'.todo = reaper.todo /\ UNCHANGED rows
      BY <2>15 DEF ReaperRemoves, TInv, TypeOK, Pass
    <3> QED BY <3>1 DEF Fits, PassOK, IsRoot
  <2>16. CASE ReaperCommits
    BY <2>16 DEF ReaperCommits, PassOK, Asleep, Nothing, NoView
  <2> QED BY <2>7, <2>8, <2>9, <2>10, <2>11, <2>12, <2>13, <2>14, <2>15, <2>16 DEF ReaperStep
<1> QED BY <1>4, <1>5, <1>6 DEF Fits

LEMMA StepFits == ASSUME OneThread, TInv, Fits, [Next]_vars PROVE Fits'
<1>1. CASE UNCHANGED vars
  <2>1. \A s \in Sessions : RowOK(s)' /\ PassOK(s)'
    BY <1>1, RowsFit, PassFits, SteadyRows DEF vars, Exists
  <2>2. \A t \in Threads : RequestOK(requests[t])'
    BY <1>1, RequestsFit, SteadyRows DEF vars, Listed
  <2> QED BY <2>1, <2>2 DEF Fits
<1>2. ASSUME NEW t \in Threads, RequestStep(t) PROVE Fits'
  BY <1>2, StartFits, ResumeFits, BookFits DEF RequestStep
<1> QED BY <1>1, <1>2, ActFits, EnvironmentFits, ReaperFits DEF Next

\* While the container of a root place exists, its row can be resumed, in every
\* system that serves one request at a time: lost answers, containers that the
\* agent creates late, crashes and the reaper never close it around the container
\* (platz_ohne_lauf, platz_anhalten, platz_neu_aufsetzen).
THEOREM RootStateStaysReachable == ASSUME OneThread PROVE Spec => []RootStateReachable
<1>1. Fits => RootStateReachable
  BY DEF Fits, RowOK, RootStateReachable
<1>2. Init => TInv /\ Fits
  BY InitTInv, InitFits
<1>3. TInv /\ Fits /\ [Next]_vars => (TInv /\ Fits)'
  BY StepTInv, StepFits
<1> QED BY <1>1, <1>2, <1>3, PTL DEF Spec

-----------------------------------------------------------------------------
(* The limit of a user and the homes.  They hold if, moreover,                 *)
(*   - the reaper pauses no idle session: its pass commits the status paused   *)
(*     last, and may bring a row back to life that was closed meanwhile;       *)
(*   - nobody resumes a halted place, or acts on a closed row or a halted root *)
(*     place, which no check of _starten precedes;                             *)
(*   - a home directory has one user (profile_path begins with the user's id). *)

OneByOne ==
    /\ OneThread
    /\ IsFiniteSet(Sessions) /\ SessionLimit \in Nat
    /\ \A p \in Places : IdleAction[p] # "pause"
    /\ Handlers \cap {"resume", "unlisted"} = {}
    /\ "pause" \in Handlers => \A p \in Places : Class[p] = "standard"
    /\ \A p, q \in Places : Home[p] = Home[q] /\ Home[p] # None => Owner[p] = Owner[q]

\* Place p can have the live session s beside those there are.
Room(p, s) ==
    /\ Cardinality(LiveOf(Owner[p]) \ {s}) < SessionLimit
    /\ Home[p] # None => \A r \in Sessions \ {s} : IsLive(r) => Home[rows[r].place] # Home[p]

OnePerHome ==
    \A r, s \in Sessions :
        /\ IsLive(r) /\ IsLive(s)
        /\ Home[rows[r].place] = Home[rows[s].place] /\ Home[rows[r].place] # None
        => r = s

\* The room that the check of _starten has found for a request stays until the
\* request commits; a request that acts on a live row keeps the room of the row.
HasRoom(r) ==
    /\ r.pc = "create" => Room(r.place, None)
    /\ r.pc \in Opening \cup Resuming => Room(rows[r.session].place, r.session)
    /\ r.pc \in Acting /\ r.new.status \in Live => Room(rows[r.session].place, r.session)

\* The pass only closes sessions.
OnlyCloses == \A s \in Sessions : reaper.new[s].status \in {reaper.read[s].status} \cup (Status \ Live)

RoomInv ==
    /\ WithinLimit
    /\ OnePerHome
    /\ \A t \in Threads : HasRoom(requests[t])
    /\ OnlyCloses

LEMMA InitHasRoom == OneByOne /\ Init => RoomInv
<1> SUFFICES ASSUME OneByOne, Init PROVE RoomInv
  OBVIOUS
<1>1. \A s \in Sessions : ~IsLive(s)
  BY DEF Init, IsLive, Live
<1>2. \A p \in Places : LiveOf(Owner[p]) = {}
  BY <1>1 DEF LiveOf
<1>3. WithinLimit
  BY <1>2, FS_EmptySet DEF WithinLimit, OneByOne
<1> QED BY <1>1, <1>3
        DEF Init, RoomInv, OnePerHome, HasRoom, OnlyCloses, Idle, Asleep, Nothing, NoView,
            Opening, Resuming, Acting, Acts

(* A step only ends sessions, or it lets one session into its room.            *)

Ends == \A s \in Sessions : rows'[s].place = rows[s].place /\ (IsLive(s)' => IsLive(s))
Enters(s) ==
    /\ rows'[s].place \in Places /\ Room(rows'[s].place, s)
    /\ IsLive(s) => rows'[s].place = rows[s].place
    /\ \A r \in Sessions \ {s} : rows'[r] = rows[r]
Moves == Ends \/ \E s \in Sessions : Enters(s)

OthersEnd(s) ==
    \A r \in Sessions \ {s} : IsLive(r)' => IsLive(r) /\ rows'[r].place = rows[r].place

LEMMA OthersOnlyEnd ==
    /\ \A s : Ends => OthersEnd(s)
    /\ \A s \in Sessions : Enters(s) => OthersEnd(s)
BY DEF Ends, Enters, OthersEnd, IsLive

LEMMA FiniteLives == ASSUME OneByOne, NEW u PROVE IsFiniteSet(LiveOf(u))
BY FS_Subset DEF LiveOf, OneByOne

LEMMA RoomStays ==
    ASSUME OneByOne, NEW p, NEW s, OthersEnd(s), Room(p, s)
    PROVE  Room(p, s)'
<1>1. (LiveOf(Owner[p]) \ {s})' \subseteq LiveOf(Owner[p]) \ {s}
  BY DEF LiveOf, OthersEnd
<1>2. IsFiniteSet(LiveOf(Owner[p]) \ {s})
  BY FiniteLives, FS_RemoveElement
<1>3. /\ Cardinality(LiveOf(Owner[p]) \ {s}) \in Nat
      /\ Cardinality((LiveOf(Owner[p]) \ {s})') \in Nat
      /\ Cardinality((LiveOf(Owner[p]) \ {s})') <= Cardinality(LiveOf(Owner[p]) \ {s})
  BY <1>1, <1>2, FS_Subset, FS_CardinalityType
<1>4. Cardinality(LiveOf(Owner[p]) \ {s})' < SessionLimit
  BY <1>3 DEF Room, OneByOne
<1>5. Home[p] # None =>
         \A r \in Sessions \ {s} : IsLive(r)' => Home[rows'[r].place] # Home[p]
  BY DEF Room, OthersEnd
<1> QED BY <1>4, <1>5 DEF Room

LEMMA MovesHold ==
    ASSUME OneByOne, WithinLimit, OnePerHome, Moves
    PROVE  WithinLimit' /\ OnePerHome'
<1>1. CASE Ends
  <2>1. ASSUME NEW p \in Places PROVE Cardinality(LiveOf(Owner[p]))' <= SessionLimit
    <3>1. LiveOf(Owner[p])' \subseteq LiveOf(Owner[p])
      BY <1>1 DEF LiveOf, Ends
    <3>2. /\ Cardinality(LiveOf(Owner[p])) \in Nat
          /\ Cardinality(LiveOf(Owner[p])') \in Nat
          /\ Cardinality(LiveOf(Owner[p])') <= Cardinality(LiveOf(Owner[p]))
      BY <3>1, FiniteLives, FS_Subset, FS_CardinalityType
    <3> QED BY <3>2 DEF WithinLimit, OneByOne
  <2> QED BY <1>1, <2>1 DEF WithinLimit, OnePerHome, Ends
<1>2. ASSUME NEW s \in Sessions, Enters(s) PROVE WithinLimit' /\ OnePerHome'
  <2>0. OthersEnd(s)
    BY <1>2, OthersOnlyEnd
  <2>1. ASSUME NEW p \in Places PROVE Cardinality(LiveOf(Owner[p]))' <= SessionLimit
    <3> DEFINE others == LiveOf(Owner[p]) \ {s}
    <3>1. /\ IsFiniteSet(LiveOf(Owner[p])) /\ IsFiniteSet(others)
          /\ Cardinality(others) \in Nat /\ Cardinality(LiveOf(Owner[p])) \in Nat
      BY FiniteLives, FS_RemoveElement, FS_CardinalityType
    <3>2. CASE Owner[rows'[s].place] = Owner[p]
      <4>1. Cardinality(others) < SessionLimit
        BY <1>2, <3>2 DEF Enters, Room
      <4>2. LiveOf(Owner[p])' \subseteq others \cup {s}
        BY <2>0 DEF LiveOf, OthersEnd
      <4>3. /\ IsFiniteSet(others \cup {s})
            /\ Cardinality(others \cup {s}) = Cardinality(others) + 1
        BY <3>1, FS_AddElement
      <4>4. /\ Cardinality(LiveOf(Owner[p])') <= Cardinality(others \cup {s})
            /\ Cardinality(LiveOf(Owner[p])') \in Nat
        BY <4>2, <4>3, FS_Subset, FS_CardinalityType
      <4> HIDE DEF others
      <4> QED BY <3>1, <4>1, <4>3, <4>4 DEF OneByOne
    <3>3. CASE Owner[rows'[s].place] # Owner[p]
      <4>1. LiveOf(Owner[p])' \subseteq LiveOf(Owner[p])
        BY <2>0, <3>3 DEF LiveOf, OthersEnd
      <4>2. /\ Cardinality(LiveOf(Owner[p])') <= Cardinality(LiveOf(Owner[p]))
            /\ Cardinality(LiveOf(Owner[p])') \in Nat
        BY <3>1, <4>1, FS_Subset, FS_CardinalityType
      <4> QED BY <3>1, <4>2 DEF WithinLimit, OneByOne
    <3> QED BY <3>2, <3>3
  <2>2. OnePerHome'
    BY <1>2, <2>0 DEF OnePerHome, Enters, OthersEnd, Room
  <2> QED BY <2>1, <2>2 DEF WithinLimit
<1> QED BY <1>1, <1>2 DEF Moves

LEMMA CommitMoves ==
    ASSUME TInv, Fits, NEW t \in Threads, NEW new \in View, Commit(t, new),
           requests[t].session \in Sessions,
           new.status \in Live =>
              Room(rows[requests[t].session].place, requests[t].session)
    PROVE  Moves
<1>0. PICK s : s = requests[t].session
  OBVIOUS
<1>1. /\ rows'[s].place = rows[s].place
      /\ rows'[s].status \in {rows[s].status, new.status}
      /\ \A r \in Sessions \ {s} : rows'[r] = rows[r]
  BY <1>0 DEF Commit, Written, TInv, TypeOK, Row
<1>2. CASE new.status \in Live
  <2>1. rows[s].place \in Places
    BY <1>0 DEF Fits, RowOK, RequestOK
  <2> QED BY <1>0, <1>1, <1>2, <2>1 DEF Moves, Enters
<1>3. CASE new.status \notin Live
  BY <1>0, <1>1, <1>3 DEF Moves, Ends, IsLive
<1> QED BY <1>2, <1>3

\* The room that StartLimit has found is room for the row that StartCreate picks.
LEMMA CreateMoves ==
    ASSUME TInv, OneByOne, Fits, RoomInv, NEW t \in Threads, StartCreate(t)
    PROVE  \/ UNCHANGED rows /\ \E s \in Sessions, read \in View :
                 /\ Goto(t, "resume", s, read)
                 /\ Room(rows'[s].place, s)
           \/ \E s \in Sessions :
                 /\ Goto(t, "agent", s, [status |-> "starting", container |-> None])
                 /\ Enters(s)
<1> DEFINE r == requests[t]
           seenAs(s) == IF s = r.session THEN r.read ELSE ViewOf(s)
           starting == [status |-> "starting", container |-> None]
           places == {s \in Sessions : /\ rows[s].place = r.place
                                       /\ rows[s].status = "angehalten"
                                       /\ Class[r.place] = "root"}
<1>1. r.pc = "create" /\ r.place \in Places /\ Room(r.place, None)
  BY DEF StartCreate, Fits, RequestOK, RoomInv, HasRoom
<1>2. \A s \in Sessions : ~IsLive(s) => Room(r.place, s)
  <2> SUFFICES ASSUME NEW s \in Sessions, ~IsLive(s) PROVE Room(r.place, s)
    OBVIOUS
  <2>1. LiveOf(Owner[r.place]) \ {s} = LiveOf(Owner[r.place]) \ {None}
    BY ConstantsAssumption DEF LiveOf
  <2> QED BY <1>1, <2>1, ConstantsAssumption DEF Room
<1>3. \A s \in Sessions : seenAs(s) \in View
  BY ViewOfType DEF TInv, TypeOK, Request
<1>4. ASSUME NEW s \in places PROVE ~IsLive(s) /\ s \in Sessions /\ rows[s].place = r.place
  BY DEF IsLive, Live
<1>5. ASSUME NEW s \in places, Goto(t, "resume", s, seenAs(s)), UNCHANGED rows
      PROVE  Room(rows'[s].place, s)
  BY <1>2, <1>4, <1>5
<1>6. ASSUME NEW s \in places, rows' = [rows EXCEPT ![s] = Written(@, seenAs(s), starting)]
      PROVE  Enters(s)
  <2>1. /\ rows'[s].place = r.place
        /\ \A q \in Sessions \ {s} : rows'[q] = rows[q]
    BY <1>4, <1>6 DEF Written, TInv, TypeOK, Row
  <2> QED BY <1>1, <1>2, <1>4, <2>1 DEF Enters
<1>7. ASSUME NEW s \in Sessions, UnusedSession(s),
             rows' = [rows EXCEPT ![s] = [place |-> r.place, status |-> "starting",
                                          container |-> None]]
      PROVE  Enters(s)
  <2>1. /\ rows'[s].place = r.place
        /\ \A q \in Sessions \ {s} : rows'[q] = rows[q]
        /\ ~IsLive(s)
    BY <1>7 DEF TInv, TypeOK, UnusedSession, IsLive, Live
  <2> QED BY <1>1, <1>2, <2>1 DEF Enters
<1> QED BY <1>3, <1>4, <1>5, <1>6, <1>7 DEF StartCreate

LEMMA RequestMoves ==
    ASSUME TInv, OneByOne, Fits, RoomInv, NEW t \in Threads, RequestStep(t)
    PROVE  Moves
<1>1. /\ RequestOK(requests[t]) /\ HasRoom(requests[t]) /\ requests[t] \in Request
      /\ requests[t].read \in View /\ requests[t].new \in View
  BY DEF Fits, RoomInv, TInv, TypeOK, Request
<1>2. \A st \in Status : LET new == [requests[t].read EXCEPT !.status = st]
                         IN  new \in View /\ new.status = st
  BY <1>1 DEF View
<1>3. {"starting", "running", "stopped", "failed", "angehalten"} \subseteq Status
      /\ {"stopped", "failed", "angehalten"} \cap Live = {}
  BY DEF Status, Live
<1>4. requests[t].pc \notin {"idle", "limit", "create"} => requests[t].session \in Sessions
  BY <1>1 DEF RequestOK
<1>5. requests[t].pc \in Opening \cup Resuming =>
         Room(rows[requests[t].session].place, requests[t].session)
  BY <1>1 DEF HasRoom
<1>6. CASE StartClose(t)
  <2>1. PICK new \in View : Commit(t, new) /\ new.status \notin Live
    <3>1. \A new \in WithoutRun(requests[t].read) : new \in View /\ new.status = "angehalten"
      BY <1>1, WithoutRunType DEF WithoutRun
    <3> QED BY <1>2, <1>3, <1>6, <3>1 DEF StartClose
  <2> QED BY <1>4, <1>6, <2>1, CommitMoves DEF StartClose
<1>7. CASE AgentFails(t)
  <2>1. PICK new \in View : Commit(t, new) /\ new.status \notin Live
    BY <1>2, <1>3, <1>7 DEF AgentFails
  <2> QED BY <1>4, <1>7, <2>1, CommitMoves DEF AgentFails
<1>8. CASE StartBook(t)
  <2>1. PICK st \in {"running", "starting"} :
          Commit(t, [status |-> st, container |-> requests[t].container])
    BY <1>8 DEF StartBook
  <2>2. [status |-> st, container |-> requests[t].container] \in View
    BY <1>1, <1>3 DEF View, Request
  <2> QED BY <1>4, <1>5, <1>8, <2>1, <2>2, CommitMoves DEF StartBook, Opening
<1>9. CASE ResumeBegin(t)
  <2>1. CASE UNCHANGED rows
    BY <2>1 DEF Moves, Ends, IsLive
  <2>2. ASSUME NEW new, new = [requests[t].read EXCEPT !.status = "starting"], Commit(t, new)
        PROVE  Moves
    <3>1. new \in View
      BY <1>2, <1>3, <2>2
    <3> QED BY <1>4, <1>5, <1>9, <2>2, <3>1, CommitMoves DEF ResumeBegin, Resuming
  <2> QED BY <1>9, <2>1, <2>2 DEF ResumeBegin
<1>10. CASE ResumeFails(t)
  <2>1. PICK new \in View : Commit(t, new) /\ new.status \notin Live
    <3>1. [status |-> "angehalten", container |-> None] \in View
      BY <1>3 DEF View
    <3> QED BY <1>2, <1>3, <1>10, <3>1 DEF ResumeFails
  <2> QED BY <1>4, <1>10, <2>1, CommitMoves DEF ResumeFails
<1>11. CASE ResumeBook(t)
  <2>1. PICK new \in View : Commit(t, new)
    BY <1>2, <1>3, <1>11 DEF ResumeBook
  <2> QED BY <1>4, <1>5, <1>11, <2>1, CommitMoves DEF ResumeBook, Resuming
<1>12. CASE Book(t)
  BY <1>1, <1>4, <1>12, CommitMoves DEF Book, HasRoom, Acting
<1>13. CASE StartCreate(t)
  BY <1>13, CreateMoves DEF Moves, Ends, IsLive
<1>14. CASE UNCHANGED rows
  BY <1>14 DEF Moves, Ends, IsLive
<1> QED BY <1>6, <1>7, <1>8, <1>9, <1>10, <1>11, <1>12, <1>13, <1>14
        DEF RequestStep, StartCheck, StartLimit, AgentCreates, StartBreaks, AgentResumes,
            AgentActs, ActFails

LEMMA ReapEnds == ASSUME TInv, OnlyCloses, rows' = Reap PROVE Ends
BY DEF OnlyCloses, Reap, Written, Ends, IsLive, TInv, TypeOK, Row

LEMMA StepMoves == ASSUME TInv, OneByOne, Fits, RoomInv, [Next]_vars PROVE Moves
<1>1. UNCHANGED rows => Moves
  BY DEF Moves, Ends, IsLive
<1>2. ReaperStep => Moves
  BY <1>1, ReapEnds
     DEF Moves, RoomInv, ReaperStep, ReaperReads, ReaperCloses, ReaperHalts, ReaperIdles,
         ReaperUnheard, ReaperSkips, ReaperBooks, ReaperKeeps, ReaperLists, ReaperRemoves,
         ReaperGivesUp, ReaperCommits
<1>3. \A t \in Threads, s \in Sessions : ActStep(t, s) => UNCHANGED rows
  BY DEF ActStep, ActPause, ActUnpause, ActResume, ActStop, Halt, DeleteSession, Rebuild,
         AdminDelete, Begin
<1> QED BY <1>1, <1>2, <1>3, RequestMoves
        DEF Next, vars, Heartbeat, AgentCreatesLate, ContainerDies, ApiCrash

(* The requests keep their room.                                               *)

LEMMA OneHasRoom ==
    ASSUME TInv, OneThread, NEW t \in Threads, NEW r,
           requests' = [requests EXCEPT ![t] = r], HasRoom(r)'
    PROVE  \A u \in Threads : HasRoom(requests[u])'
<1> SUFFICES ASSUME NEW u \in Threads PROVE HasRoom(requests[u])'
  OBVIOUS
<1>1. requests'[u] = r
  BY DEF OneThread, TInv, TypeOK
<1> QED BY <1>1 DEF HasRoom

LEMMA NoClaim ==
    ASSUME TInv, OneThread, NEW t \in Threads, NEW r,
           requests' = [requests EXCEPT ![t] = r], r.pc \in {"idle", "close", "limit"}
    PROVE  \A u \in Threads : HasRoom(requests[u])'
<1>1. HasRoom(r)'
  BY DEF HasRoom, Opening, Resuming, Acting, Acts
<1> QED BY <1>1, OneHasRoom

LEMMA GotoHasRoom ==
    ASSUME TInv, OneThread, NEW t \in Threads, NEW pc \in Opening \cup Resuming,
           NEW s \in Sessions, NEW read \in View, Goto(t, pc, s, read),
           Room(rows[s].place, s)'
    PROVE  \A u \in Threads : HasRoom(requests[u])'
<1>0. PICK r : r = [Idle EXCEPT !.pc = pc, !.place = requests[t].place, !.session = s,
                             !.read = read]
  OBVIOUS
<1>1. requests' = [requests EXCEPT ![t] = r] /\ r.pc = pc /\ r.session = s
  BY <1>0 DEF Goto, Idle
<1>2. HasRoom(r)'
  BY <1>1 DEF HasRoom, Opening, Resuming, Acting, Acts
<1> QED BY <1>1, <1>2, OneHasRoom

\* The request moves on with the session and the room that it has.
LEMMA GoesOnHasRoom ==
    ASSUME TInv, OneByOne, Fits, NEW t \in Threads, NEW r,
           requests' = [requests EXCEPT ![t] = r], UNCHANGED rows,
           HasRoom(requests[t]), r.session = requests[t].session, r.new = requests[t].new,
           \/ r.pc \in Opening /\ requests[t].pc \in Opening
           \/ r.pc \in Resuming /\ requests[t].pc \in Resuming
           \/ r.pc \in Acting /\ requests[t].pc \in Acting
    PROVE  \A u \in Threads : HasRoom(requests[u])'
<1>1. HasRoom(r)'
  <2>1. ASSUME Room(rows[r.session].place, r.session)
        PROVE  Room(rows[r.session].place, r.session)'
    BY <2>1 DEF Room, LiveOf, IsLive
  <2> QED BY <2>1 DEF HasRoom, Opening, Resuming, Acting, Acts
<1> QED BY <1>1, OneHasRoom DEF OneByOne

LEMMA StartHasRoom ==
    ASSUME TInv, OneByOne, Fits, RoomInv, NEW t \in Threads,
           \/ \E p \in Places : StartCheck(t, p)
           \/ StartClose(t) \/ StartLimit(t) \/ StartCreate(t)
           \/ AgentCreates(t) \/ AgentFails(t) \/ StartBreaks(t) \/ StartBook(t)
    PROVE  \A u \in Threads : HasRoom(requests[u])'
<1>0. OneThread
  BY DEF OneByOne
<1>1. HasRoom(requests[t]) /\ requests[t] \in Request /\ RequestOK(requests[t])
  BY DEF RoomInv, Fits, TInv, TypeOK
<1>2. Done(t) => \A u \in Threads : HasRoom(requests[u])'
  BY <1>0, NoClaim DEF Done, Idle
<1>3. ASSUME NEW p \in Places, StartCheck(t, p)
      PROVE  \A u \in Threads : HasRoom(requests[u])'
  <2>1. PICK r : requests' = [requests EXCEPT ![t] = r] /\ r.pc \in {"idle", "close", "limit"}
    BY <1>3 DEF StartCheck, Idle
  <2> QED BY <1>0, <2>1, NoClaim
<1>4. CASE StartClose(t)
  <2>1. PICK new : Goto(t, "limit", requests[t].session, new)
    BY <1>4 DEF StartClose
  <2>2. PICK r : r = [Idle EXCEPT !.pc = "limit", !.place = requests[t].place,
                                  !.session = requests[t].session, !.read = new]
    OBVIOUS
  <2>3. r.pc = "limit" /\ requests' = [requests EXCEPT ![t] = r]
    BY <2>1, <2>2 DEF Goto, Idle
  <2> QED BY <1>0, <2>3, NoClaim
<1>5. CASE StartLimit(t)
  <2> DEFINE p == requests[t].place
  <2>1. CASE Done(t)
    BY <1>2, <2>1
  <2>2. CASE /\ requests' = [requests EXCEPT ![t].pc = "create"]
             /\ Cardinality(LiveOf(Owner[p])) < SessionLimit
             /\ Home[p] # None => \A s \in LiveOf(Owner[p]) : Home[rows[s].place] # Home[p]
    <3>1. p \in Places
      BY <1>1, <1>5 DEF StartLimit, RequestOK
    <3>2. LiveOf(Owner[p]) \ {None} = LiveOf(Owner[p])
      BY ConstantsAssumption DEF LiveOf
    <3>3. ASSUME NEW s \in Sessions, IsLive(s), Home[p] # None, Home[rows[s].place] = Home[p]
          PROVE  s \in LiveOf(Owner[p])
      <4>1. RowOK(s)
        BY DEF Fits
      <4>2. rows[s].place \in Places
        BY <3>3, <4>1 DEF RowOK, IsLive, Live
      <4> QED BY <3>1, <3>3, <4>2 DEF OneByOne, LiveOf
    <3>4. Room(p, None)
      <4>1. Home[p] # None =>
               \A s \in Sessions \ {None} : IsLive(s) => Home[rows[s].place] # Home[p]
        BY <2>2, <3>3
      <4> QED BY <2>2, <3>2, <4>1 DEF Room
    <3>5. PICK r : r = [requests[t] EXCEPT !.pc = "create"]
      OBVIOUS
    <3>6. r.pc = "create" /\ r.place = p
      BY <1>1, <3>5 DEF Request
    <3>7. HasRoom(r)'
      <4>1. Room(r.place, None)'
        BY <1>5, <3>4, <3>6 DEF StartLimit, Room, LiveOf, IsLive
      <4> QED BY <3>6, <4>1 DEF HasRoom, Opening, Resuming, Acting, Acts
    <3> QED BY <1>0, <2>2, <3>5, <3>7, OneHasRoom
  <2> QED BY <1>5, <2>1, <2>2 DEF StartLimit
<1>6. CASE StartCreate(t)
  <2>1. ASSUME NEW s \in Sessions, NEW read \in View, Goto(t, "resume", s, read),
               UNCHANGED rows, Room(rows'[s].place, s)
        PROVE  \A u \in Threads : HasRoom(requests[u])'
    <3>1. Room(rows[s].place, s)'
      BY <2>1 DEF Room, LiveOf, IsLive
    <3> QED BY <1>0, <2>1, <3>1, GotoHasRoom DEF Resuming
  <2>2. ASSUME NEW s \in Sessions, Enters(s),
               Goto(t, "agent", s, [status |-> "starting", container |-> None])
        PROVE  \A u \in Threads : HasRoom(requests[u])'
    <3>0. PICK p : p = rows'[s].place
      OBVIOUS
    <3>1. Room(p, s)'
      BY <2>2, <3>0, OthersOnlyEnd, RoomStays DEF Enters
    <3>2. Room(rows[s].place, s)'
      BY <3>0, <3>1 DEF Room
    <3>3. [status |-> "starting", container |-> None] \in View
      BY DEF View, Status, Live
    <3> QED BY <1>0, <2>2, <3>2, <3>3, GotoHasRoom DEF Opening
  <2> QED BY <1>6, <2>1, <2>2, CreateMoves
<1>7. CASE AgentCreates(t)
  <2>1. PICK c \in Containers :
          requests' = [requests EXCEPT ![t].pc = "setup", ![t].container = c]
    BY <1>7 DEF AgentCreates
  <2>2. PICK r : r = [requests[t] EXCEPT !.pc = "setup", !.container = c]
    OBVIOUS
  <2>3. requests' = [requests EXCEPT ![t] = r]
    BY <2>1, <2>2 DEF TInv, TypeOK
  <2>4. r.pc = "setup" /\ r.session = requests[t].session /\ r.new = requests[t].new
    BY <1>1, <2>2 DEF Request
  <2> QED BY <1>1, <1>7, <2>3, <2>4, GoesOnHasRoom DEF AgentCreates, Opening
<1> QED BY <1>2, <1>3, <1>4, <1>5, <1>6, <1>7 DEF AgentFails, StartBreaks, StartBook

LEMMA ResumeHasRoom ==
    ASSUME TInv, OneByOne, Fits, RoomInv, NEW t \in Threads,
           ResumeBegin(t) \/ AgentResumes(t) \/ ResumeFails(t) \/ ResumeBook(t)
    PROVE  \A u \in Threads : HasRoom(requests[u])'
<1>0. PICK s : s = requests[t].session
  OBVIOUS
<1>1. /\ OneThread /\ HasRoom(requests[t]) /\ requests[t] \in Request
      /\ requests[t].pc \in Resuming /\ s \in Sessions
      /\ requests[t].read \in View
  BY <1>0 DEF OneByOne, RoomInv, Fits, TInv, TypeOK, RequestOK, Request, Resuming,
              ResumeBegin, AgentResumes, ResumeFails, ResumeBook
<1>2. Done(t) => \A u \in Threads : HasRoom(requests[u])'
  BY <1>1, NoClaim DEF Done, Idle
<1>3. ASSUME NEW new, new = [requests[t].read EXCEPT !.status = "starting"],
             Commit(t, new), Goto(t, "resuming", s, new)
      PROVE  \A u \in Threads : HasRoom(requests[u])'
  <2>1. new \in View
    BY <1>1, <1>3 DEF View, Status, Live
  <2>2. PICK p : p = rows[s].place
    OBVIOUS
  <2>3. /\ rows'[s].place = p
        /\ \A r \in Sessions \ {s} : rows'[r] = rows[r]
    BY <1>0, <1>1, <1>3, <2>2 DEF Commit, Written, TInv, TypeOK, Row
  <2>4. Room(p, s) /\ OthersEnd(s)
    BY <1>0, <1>1, <2>2, <2>3 DEF HasRoom, OthersEnd, IsLive
  <2>5. Room(p, s)'
    BY <2>4, RoomStays
  <2>6. Room(rows[s].place, s)'
    BY <2>3, <2>5 DEF Room
  <2> QED BY <1>1, <1>3, <2>1, <2>6, GotoHasRoom DEF Resuming
<1>4. CASE AgentResumes(t)
  <2>1. PICK r : r = [requests[t] EXCEPT !.pc = "resumed"]
    OBVIOUS
  <2>2. /\ requests' = [requests EXCEPT ![t] = r]
        /\ r.pc = "resumed" /\ r.session = requests[t].session /\ r.new = requests[t].new
    BY <1>1, <1>4, <2>1 DEF AgentResumes, Request
  <2> QED BY <1>1, <1>4, <2>2, GoesOnHasRoom DEF AgentResumes, Resuming
<1> QED BY <1>0, <1>2, <1>3, <1>4 DEF ResumeBegin, ResumeFails, ResumeBook

\* A handler that is to leave a row alive has found it alive.
LEMMA LivePlan ==
    ASSUME TInv, OneByOne, Fits, NEW t \in Threads, NEW s \in Sessions, ActStep(t, s)
    PROVE  \E pc \in Acting, new \in View :
              Begin(t, s, pc, new) /\ (new.status \in Live => IsLive(s))
<1>1. Listed(s) /\ ~ActResume(t, s)
  BY DEF ActStep, ActResume, OneByOne
<1>2. RowOK(s)
  BY DEF Fits
<1>3. "pause" \in Handlers => ~IsRoot(s)
  BY <1>1, <1>2 DEF RowOK, Listed, Live, IsRoot, OneByOne
<1>4. "pause" \in Handlers => IsLive(s)
  BY <1>1, <1>2, <1>3 DEF RowOK, Listed, IsLive
<1>5. PICK pc \in Pcs, new \in View :
         /\ Begin(t, s, pc, new)
         /\ \/ pc = "resume" /\ IsRoot(s) /\ "resume" \in Handlers
            \/ pc \in Acting /\ "pause" \in Handlers
            \/ pc \in Acting /\ new.status \in {"angehalten", "stopped"}
  BY Plans
<1> QED BY <1>4, <1>5 DEF OneByOne, Live

LEMMA ActHasRoom ==
    ASSUME TInv, OneByOne, Fits, RoomInv, NEW t \in Threads, NEW s \in Sessions, ActStep(t, s)
    PROVE  \A u \in Threads : HasRoom(requests[u])'
<1>1. PICK pc \in Acting, new \in View :
         Begin(t, s, pc, new) /\ (new.status \in Live => IsLive(s))
  BY LivePlan
<1>2. PICK r : r = [Idle EXCEPT !.pc = pc, !.session = s, !.read = ViewOf(s), !.new = new]
  OBVIOUS
<1>3. /\ r.pc = pc /\ r.session = s /\ r.new = new /\ UNCHANGED rows
      /\ requests' = [requests EXCEPT ![t] = r]
  BY <1>1, <1>2 DEF Idle, Begin
<1>4. IsLive(s) => Room(rows[s].place, s)
  <2> SUFFICES ASSUME IsLive(s) PROVE Room(rows[s].place, s)
    OBVIOUS
  <2>1. RowOK(s)
    BY DEF Fits
  <2>2. rows[s].place \in Places
    BY <2>1 DEF RowOK, IsLive, Live
  <2> DEFINE lives == LiveOf(Owner[rows[s].place])
  <2>3. s \in lives
    BY DEF LiveOf
  <2>4. /\ IsFiniteSet(lives) /\ Cardinality(lives) \in Nat
        /\ Cardinality(lives \ {s}) = Cardinality(lives) - 1
    BY <2>3, FiniteLives, FS_RemoveElement, FS_CardinalityType
  <2>5. Cardinality(lives) <= SessionLimit
    BY <2>2 DEF RoomInv, WithinLimit
  <2>6. Cardinality(lives \ {s}) < SessionLimit
    <3> HIDE DEF lives
    <3> QED BY <2>4, <2>5 DEF OneByOne
  <2> QED BY <2>6 DEF Room, RoomInv, OnePerHome
<1>5. HasRoom(r)'
  <2>1. r.new.status \in Live => Room(rows[s].place, s)'
    BY <1>1, <1>3, <1>4 DEF Room, LiveOf, IsLive
  <2> QED BY <1>3, <2>1 DEF HasRoom, Opening, Resuming, Acting, Acts
<1> QED BY <1>3, <1>5, OneHasRoom DEF OneByOne

LEMMA BookHasRoom ==
    ASSUME TInv, OneByOne, Fits, RoomInv, NEW t \in Threads,
           AgentActs(t) \/ ActFails(t) \/ Book(t)
    PROVE  \A u \in Threads : HasRoom(requests[u])'
<1>1. /\ OneThread /\ HasRoom(requests[t]) /\ requests[t] \in Request
      /\ requests[t].pc \in Acting
  BY DEF OneByOne, RoomInv, TInv, TypeOK, Acting, Acts, AgentActs, ActFails, Book
<1>2. Done(t) => \A u \in Threads : HasRoom(requests[u])'
  BY <1>1, NoClaim DEF Done, Idle
<1>3. CASE AgentActs(t)
  <2>1. PICK r : r = [requests[t] EXCEPT !.pc = "book"]
    OBVIOUS
  <2>2. /\ requests' = [requests EXCEPT ![t] = r]
        /\ r.pc = "book" /\ r.session = requests[t].session /\ r.new = requests[t].new
    BY <1>1, <1>3, <2>1 DEF AgentActs, Request
  <2> QED BY <1>1, <1>3, <2>2, GoesOnHasRoom DEF AgentActs, Acting
<1> QED BY <1>2, <1>3 DEF ActFails, Book

LEMMA StepHasRoom ==
    ASSUME TInv, OneByOne, Fits, RoomInv, [Next]_vars
    PROVE  \A u \in Threads : HasRoom(requests[u])'
<1>1. ASSUME UNCHANGED requests, Ends PROVE \A u \in Threads : HasRoom(requests[u])'
  <2> SUFFICES ASSUME NEW u \in Threads PROVE HasRoom(requests[u])'
    OBVIOUS
  <2>1. HasRoom(requests[u]) /\ RequestOK(requests[u])
    BY DEF RoomInv, Fits
  <2>2. requests'[u] = requests[u]
    BY <1>1
  <2>3. PICK r : r = requests[u]
    OBVIOUS
  <2>4. r.pc = "create" => Room(r.place, None)'
    BY <1>1, <2>1, <2>3, OthersOnlyEnd, RoomStays DEF HasRoom
  <2>5. ASSUME r.pc \in Opening \cup Resuming \cup Acting,
               r.pc \in Acting => r.new.status \in Live
        PROVE  Room(rows[r.session].place, r.session)'
    <3>1. r.session \in Sessions
      BY <2>1, <2>3, <2>5 DEF RequestOK, Opening, Resuming, Acting, Acts
    <3>2. PICK p : p = rows[r.session].place
      OBVIOUS
    <3>3. Room(p, r.session)'
      BY <1>1, <2>1, <2>3, <2>5, <3>2, OthersOnlyEnd, RoomStays DEF HasRoom
    <3>4. rows'[r.session].place = p
      BY <1>1, <3>1, <3>2 DEF Ends
    <3> QED BY <3>3, <3>4 DEF Room
  <2>6. HasRoom(r)'
    BY <2>4, <2>5 DEF HasRoom, Opening, Resuming, Acting, Acts
  <2>7. requests'[u] = r
    BY <2>2, <2>3
  <2> QED BY <2>6, <2>7 DEF HasRoom
<1>2. UNCHANGED rows => Ends
  BY DEF Ends, IsLive
<1>3. ReaperStep => UNCHANGED requests /\ Ends
  BY <1>2, ReapEnds
     DEF RoomInv, ReaperStep, ReaperReads, ReaperCloses, ReaperHalts, ReaperIdles,
         ReaperUnheard, ReaperSkips, ReaperBooks, ReaperKeeps, ReaperLists, ReaperRemoves,
         ReaperGivesUp, ReaperCommits
<1>4. ApiCrash => \A u \in Threads : HasRoom(requests[u])'
  BY DEF ApiCrash, HasRoom, Idle, Opening, Resuming, Acting, Acts
<1>5. \A t \in Threads : RequestStep(t) => \A u \in Threads : HasRoom(requests[u])'
  BY StartHasRoom, ResumeHasRoom, BookHasRoom DEF RequestStep
<1> QED BY <1>1, <1>2, <1>3, <1>4, <1>5, ActHasRoom
        DEF Next, vars, Heartbeat, AgentCreatesLate, ContainerDies

(* The pass only closes sessions.                                              *)

LEMMA HandledCloses ==
    ASSUME TInv, OnlyCloses, NEW s \in Sessions, NEW new \in View, NEW pc \in Steps,
           reaper' = [Handled(s, new) EXCEPT !.pc = pc],
           new.status \in {reaper.new[s].status} \cup (Status \ Live)
    PROVE  OnlyCloses'
<1>1. /\ reaper'.read = reaper.read
      /\ reaper'.new = [reaper.new EXCEPT ![s] = new]
  BY DEF Handled, TInv, TypeOK, Pass
<1>2. \A q \in Sessions : reaper'.new[q] = IF q = s THEN new ELSE reaper.new[q]
  BY <1>1 DEF TInv, TypeOK, Pass
<1>3. ASSUME NEW q \in Sessions
      PROVE  reaper'.new[q].status \in {reaper'.read[q].status} \cup (Status \ Live)
  BY <1>1, <1>2 DEF OnlyCloses
<1> QED BY <1>3 DEF OnlyCloses

LEMMA StepCloses == ASSUME TInv, OneByOne, Fits, OnlyCloses, ReaperStep PROVE OnlyCloses'
<1>1. \A s \in Sessions, st \in Status :
         LET new == [reaper.new[s] EXCEPT !.status = st] IN new \in View /\ new.status = st
  BY DEF TInv, TypeOK, Pass, View
<1>2. {"stopped", "angehalten"} \subseteq Status \ Live
  BY DEF Status, Live
<1>3. \A s \in Sessions : reaper.new[s] \in View
  BY DEF TInv, TypeOK, Pass
<1>4. \A s \in Sessions, new \in View :
         Handled(s, new) = [Handled(s, new) EXCEPT !.pc = reaper.pc]
  BY HandledType DEF Handled, TInv, TypeOK, Pass
<1>5. reaper.pc \in Steps /\ "halt" \in Steps
  BY DEF TInv, TypeOK, Pass, Steps
<1>6. CASE ReaperReads
  <2>1. reaper'.new = reaper'.read
    BY <1>6 DEF ReaperReads, Asleep
  <2> QED BY <2>1 DEF OnlyCloses
<1>7. ASSUME NEW s \in Sessions, ReaperCloses(s) PROVE OnlyCloses'
  <2>1. \A new \in WithoutRun(reaper.new[s]) : new \in View /\ new.status = "angehalten"
    BY <1>3, WithoutRunType DEF WithoutRun
  <2>2. PICK new \in View : reaper' = Handled(s, new) /\ new.status \in Status \ Live
    <3>1. PICK new : /\ reaper' = Handled(s, new)
                     /\ \/ IsRoot(s) /\ new \in WithoutRun(reaper.new[s])
                        \/ ~IsRoot(s) /\ new = [reaper.new[s] EXCEPT !.status = "stopped"]
      BY <1>7 DEF ReaperCloses
    <3>2. CASE new \in WithoutRun(reaper.new[s])
      BY <1>2, <2>1, <3>1, <3>2
    <3>3. CASE new = [reaper.new[s] EXCEPT !.status = "stopped"]
      <4>1. "stopped" \in Status \ Live
        BY <1>2
      <4>2. new \in View /\ new.status = "stopped"
        BY <1>1, <3>3, <4>1
      <4> QED BY <3>1, <4>1, <4>2
    <3> QED BY <3>1, <3>2, <3>3
  <2> QED BY <1>4, <1>5, <2>2, HandledCloses
<1>8. ASSUME NEW s \in Sessions, ReaperHalts(s) PROVE OnlyCloses'
  BY <1>1, <1>2, <1>5, <1>8, HandledCloses DEF ReaperHalts
<1>9. ASSUME NEW s \in Sessions, ReaperIdles(s) PROVE OnlyCloses'
  <2>1. RowOK(s) /\ PassOK(s) /\ s \in reaper.todo
    BY <1>9 DEF Fits, ReaperIdles
  <2>2. rows[s].place \in Places
    BY <2>1 DEF RowOK, PassOK
  <2>3. reaper' = Handled(s, [reaper.new[s] EXCEPT !.status = "stopped"])
    BY <1>9, <2>2 DEF ReaperIdles, OneByOne
  <2>4. PICK new : new = [reaper.new[s] EXCEPT !.status = "stopped"]
    OBVIOUS
  <2>5. new \in View /\ new.status = "stopped" /\ reaper' = Handled(s, new)
    BY <1>1, <1>2, <2>3, <2>4
  <2> QED BY <1>2, <1>4, <1>5, <2>5, HandledCloses
<1>10. ASSUME NEW s \in Sessions, ReaperUnheard(s) \/ ReaperSkips(s) PROVE OnlyCloses'
  <2>1. reaper' = Handled(s, reaper.new[s])
    BY <1>10 DEF ReaperUnheard, ReaperSkips
  <2> QED BY <1>3, <1>4, <1>5, <2>1, HandledCloses
<1>11. CASE ReaperBooks
  <2>1. reaper'.read = reaper.new /\ reaper'.new = reaper.new
    BY <1>11 DEF ReaperBooks, TInv, TypeOK, Pass
  <2> QED BY <2>1 DEF OnlyCloses
<1>12. ASSUME reaper'.read = reaper.read, reaper'.new = reaper.new PROVE OnlyCloses'
  BY <1>12 DEF OnlyCloses
<1>13. CASE ReaperKeeps
  BY <1>12, <1>13 DEF ReaperKeeps, TInv, TypeOK, Pass
<1>14. CASE ReaperLists \/ ReaperGivesUp
  <2>1. reaper'.read = Changed(reaper.read) /\ reaper'.new = Changed(reaper.new)
    BY <1>14 DEF ReaperLists, ReaperGivesUp, Asleep
  <2> QED BY <2>1 DEF OnlyCloses, Changed
<1>15. ASSUME NEW c \in Containers, ReaperRemoves(c) PROVE OnlyCloses'
  BY <1>12, <1>15 DEF ReaperRemoves, TInv, TypeOK, Pass
<1>16. CASE ReaperCommits
  BY <1>16 DEF ReaperCommits, OnlyCloses, Asleep, Nothing
<1> QED BY <1>6, <1>7, <1>8, <1>9, <1>10, <1>11, <1>13, <1>14, <1>15, <1>16 DEF ReaperStep

LEMMA StepRoom == ASSUME TInv, OneByOne, Fits, RoomInv, [Next]_vars PROVE RoomInv'
<1>1. WithinLimit' /\ OnePerHome'
  BY StepMoves, MovesHold DEF RoomInv
<1>2. OnlyCloses'
  <2>1. CASE ReaperStep
    BY <2>1, StepCloses DEF RoomInv
  <2>2. ASSUME NEW s \in Sessions, Heartbeat(s) PROVE OnlyCloses'
    <3>1. reaper'.read = reaper.read /\ reaper'.new = reaper.new
      BY <2>2 DEF Heartbeat, TInv, TypeOK, Pass
    <3> QED BY <3>1 DEF RoomInv, OnlyCloses
  <2>3. CASE ApiCrash
    BY <2>3 DEF ApiCrash, OnlyCloses, Asleep, Nothing
  <2>4. CASE UNCHANGED reaper
    BY <2>4 DEF RoomInv, OnlyCloses
  <2>5. \A t \in Threads : RequestStep(t) => UNCHANGED reaper
    BY DEF RequestStep, StartCheck, StartClose, StartLimit, StartCreate, AgentCreates,
           AgentFails, StartBreaks, StartBook, ResumeBegin, AgentResumes, ResumeFails,
           ResumeBook, AgentActs, ActFails, Book
  <2>6. \A t \in Threads, s \in Sessions : ActStep(t, s) => UNCHANGED reaper
    BY DEF ActStep, ActPause, ActUnpause, ActResume, ActStop, Halt, DeleteSession, Rebuild,
           AdminDelete, Begin
  <2> QED BY <2>1, <2>2, <2>3, <2>4, <2>5, <2>6
          DEF Next, vars, AgentCreatesLate, ContainerDies
<1> QED BY <1>1, <1>2, StepHasRoom DEF RoomInv

\* A user never has more live sessions than the limit that _starten counts
\* against, in every system with OneByOne: whatever the reaper, a lost answer, a
\* late container or a crash does between the count and the commit of a start.
THEOREM LimitHolds == ASSUME OneByOne PROVE Spec => []WithinLimit
<1>0. OneThread
  BY DEF OneByOne
<1>1. Init => TInv /\ Fits /\ RoomInv
  BY InitTInv, InitFits, InitHasRoom
<1>2. TInv /\ Fits /\ RoomInv /\ [Next]_vars => (TInv /\ Fits /\ RoomInv)'
  BY <1>0, StepTInv, StepFits, StepRoom
<1>3. RoomInv => WithinLimit
  BY DEF RoomInv
<1> QED BY <1>1, <1>2, <1>3, PTL DEF Spec

-----------------------------------------------------------------------------
(* Sessions implements Homes: the user of a home moves out before the next one *)
(* moves in.                                                                   *)

LEMMA InitHomes == Init => H!Init
BY DEF Init, H!Init, LiveIn, IsLive, Live

LEMMA MovesImplement == ASSUME OnePerHome, Moves PROVE [H!Next]_LiveIn
<1>1. ASSUME \A s \in Sessions : IsLive(s)' => IsLive(s) /\ rows'[s].place = rows[s].place
      PROVE  H!Next
  <2> DEFINE Left == {h \in HomeDirs : LiveIn'[h] = {}}
  <2>1. ASSUME NEW h \in HomeDirs PROVE LiveIn'[h] \in {{}, LiveIn[h]}
    <3>1. LiveIn'[h] \subseteq LiveIn[h]
      BY <1>1 DEF LiveIn
    <3>2. \A r, s \in LiveIn[h] : r = s
      BY DEF LiveIn, OnePerHome, HomeDirs
    <3> QED BY <3>1, <3>2
  <2>2. LiveIn' = [h \in HomeDirs |-> IF h \in Left THEN {} ELSE LiveIn[h]]
    <3>1. LiveIn' = [h \in HomeDirs |-> LiveIn'[h]]
      BY DEF LiveIn
    <3> QED BY <2>1, <3>1
  <2>3. Left \in SUBSET HomeDirs
    OBVIOUS
  <2>4. H!MoveOut(Left)
    BY <2>2 DEF H!MoveOut
  <2> QED BY <2>3, <2>4 DEF H!Next
<1>2. ASSUME NEW s \in Sessions, Enters(s), IsLive(s)', ~IsLive(s)
      PROVE  [H!Next]_LiveIn
  <2> DEFINE h == Home[rows'[s].place]
  <2>0. ASSUME NEW g \in HomeDirs
        PROVE  LiveIn'[g] = IF h = g THEN LiveIn[g] \cup {s} ELSE LiveIn[g]
    <3>1. /\ LiveIn'[g] = {r \in Sessions : IsLive(r)' /\ Home[rows'[r].place] = g}
          /\ LiveIn[g] = {r \in Sessions : IsLive(r) /\ Home[rows[r].place] = g}
      BY DEF LiveIn
    <3>2. ASSUME NEW r \in Sessions \ {s}
          PROVE  (IsLive(r)' /\ Home[rows'[r].place] = g) <=>
                 (IsLive(r) /\ Home[rows[r].place] = g)
      BY <1>2 DEF Enters, IsLive
    <3> QED BY <1>2, <3>1, <3>2
  <2>1. CASE h = None
    <3>1. \A g \in HomeDirs : LiveIn'[g] = LiveIn[g]
      BY <2>0, <2>1 DEF HomeDirs
    <3>2. LiveIn' = LiveIn
      BY <3>1 DEF LiveIn
    <3> QED BY <3>2
  <2>2. CASE h # None
    <3>1. h \in HomeDirs
      BY <1>2, <2>2 DEF HomeDirs, Enters
    <3>2. LiveIn[h] = {}
      BY <1>2, <2>2, <3>1 DEF LiveIn, Enters, Room
    <3>3. \A g \in HomeDirs : LiveIn'[g] = IF g = h THEN {s} ELSE LiveIn[g]
      BY <2>0, <3>1, <3>2
    <3>4. LiveIn' = [LiveIn EXCEPT ![h] = {s}]
      BY <3>3 DEF LiveIn
    <3>5. H!MoveIn(h, s)
      BY <3>2, <3>4 DEF H!MoveIn
    <3> QED BY <3>1, <3>5 DEF H!Next
  <2> QED BY <2>1, <2>2
<1>3. CASE Ends
  BY <1>1, <1>3 DEF Ends
<1>4. ASSUME NEW s \in Sessions, Enters(s), ~IsLive(s)' \/ IsLive(s)
      PROVE  \A r \in Sessions : IsLive(r)' => IsLive(r) /\ rows'[r].place = rows[r].place
  BY <1>4 DEF Enters, IsLive
<1> QED BY <1>1, <1>2, <1>3, <1>4 DEF Moves

\* Sessions moves into homes and out of them as the abstract specification Homes
\* allows, in every system with OneByOne: a home is handed on only after the
\* session that lived there is closed (the check of _starten for a clash).
THEOREM HomesImplemented == ASSUME OneByOne PROVE Spec => HandsHomesOn
<1>0. OneThread
  BY DEF OneByOne
<1>1. Init => TInv /\ Fits /\ RoomInv /\ H!Init
  BY InitTInv, InitFits, InitHasRoom, InitHomes
<1>2. TInv /\ Fits /\ RoomInv /\ [Next]_vars => (TInv /\ Fits /\ RoomInv)'
  BY <1>0, StepTInv, StepFits, StepRoom
<1>3. TInv /\ Fits /\ RoomInv /\ [Next]_vars => [H!Next]_LiveIn
  BY StepMoves, MovesImplement DEF RoomInv
<1> QED BY <1>1, <1>2, <1>3, PTL DEF Spec, HandsHomesOn, H!Spec

\* What Homes promises, for homes that are handed on as it allows: no home has two
\* sessions ("Zwei laufende Container auf einem Zuhause vertragen sich nicht", _starten).
THEOREM OneUser == H!Spec => []H!OneUserPerHome
<1> DEFINE HInv == H!TypeOK /\ H!OneUserPerHome
<1>1. H!Init => HInv
  BY DEF H!Init, H!TypeOK, H!OneUserPerHome
<1>2. ASSUME HInv, [H!Next]_LiveIn PROVE HInv'
  <2> DEFINE users == LiveIn
             later == LiveIn'
  <2>0. /\ users \in [HomeDirs -> SUBSET Sessions]
        /\ \A h \in HomeDirs : \A r, s \in users[h] : r = s
    BY <1>2 DEF H!TypeOK, H!OneUserPerHome
  <2>1. ASSUME NEW h \in HomeDirs, NEW s \in Sessions, H!MoveIn(h, s) PROVE HInv'
    <3>1. later = [users EXCEPT ![h] = {s}]
      BY <2>1 DEF H!MoveIn
    <3>2. /\ later \in [HomeDirs -> SUBSET Sessions]
          /\ \A g \in HomeDirs : \A r, q \in later[g] : r = q
      <4> HIDE DEF users, later
      <4> QED BY <2>0, <3>1
    <3> QED BY <3>2 DEF H!TypeOK, H!OneUserPerHome
  <2>2. ASSUME NEW L \in SUBSET HomeDirs, H!MoveOut(L) PROVE HInv'
    <3>1. later = [h \in HomeDirs |-> IF h \in L THEN {} ELSE users[h]]
      BY <2>2 DEF H!MoveOut
    <3>2. /\ later \in [HomeDirs -> SUBSET Sessions]
          /\ \A g \in HomeDirs : \A r, q \in later[g] : r = q
      <4> HIDE DEF users, later
      <4> QED BY <2>0, <3>1
    <3> QED BY <3>2 DEF H!TypeOK, H!OneUserPerHome
  <2>3. CASE UNCHANGED LiveIn
    BY <1>2, <2>3 DEF H!TypeOK, H!OneUserPerHome
  <2> QED BY <1>2, <2>1, <2>2, <2>3 DEF H!Next
<1>3. HInv => H!OneUserPerHome
  OBVIOUS
<1> QED BY <1>1, <1>2, <1>3, PTL DEF H!Spec

\* So with sessions started one at a time a home never has two live sessions, whatever
\* the reaper, lost answers and crashes do in between.
COROLLARY NoHomeShared == ASSUME OneByOne PROVE Spec => []H!OneUserPerHome
BY HomesImplemented, OneUser, PTL DEF HandsHomesOn
=============================================================================
