----------------------------- MODULE StoresProofs -----------------------------
(* Theorems about what is kept of a workspace and put into it: restoring a home, *)
(* the images that are built or frozen, IDE-AI and opencode in the container, the *)
(* package repository they are built from, and the backups that are kept.        *)
EXTENDS Restore, Builds, AiTools, Packages, Backups, FiniteSetTheorems, TLAPS, WellFoundedInduction

-----------------------------------------------------------------------------
(* Restore: types.                                                             *)

Phases == {"idle", "agent", "empty", "unpack", "failed", "back"}
Restores == [pc : Phases, aside : 0 .. MaxDirs]

LEMMA DirsThere ==
    ASSUME RestoreAssumption
    PROVE  1 \in Dirs /\ Dirs \subseteq Nat /\ 0 \notin Dirs /\ 0 .. MaxDirs = Dirs \cup {0}
BY DEF RestoreAssumption, Dirs

LEMMA NoneIsRestore == ASSUME RestoreAssumption PROVE NoRestore \in Restores
BY DirsThere DEF NoRestore, Restores, Phases

\* A request that goes on stays one.
LEMMA TurnTyped ==
    ASSUME RestoreTypeOK, NEW r \in Requests, NEW n \in Restores, Turn(r, n)
    PROVE  restores' \in [Requests -> Restores]
BY DEF RestoreTypeOK, Turn, Restores, Phases

LEMMA GotoTyped ==
    ASSUME RestoreTypeOK, NEW r \in Requests, NEW pc \in Phases, Goto(r, pc)
    PROVE  restores' \in [Requests -> Restores]
<1> DEFINE n == [restores[r] EXCEPT !.pc = pc]
<1>1. restores[r] \in Restores
  BY DEF RestoreTypeOK, Restores, Phases
<1>2. n \in Restores
  BY <1>1 DEF Restores
<1>3. Turn(r, n)
  BY DEF Goto
<1> QED BY <1>2, <1>3, TurnTyped

LEMMA RestoreStepTyped ==
    ASSUME RestoreAssumption, RestoreTypeOK, [RestoreNext]_restoreVars PROVE RestoreTypeOK'
<1> DEFINE Contents == {"unused", "own", "filling", "restored", "mixed", "deleted"}
<1>0. /\ dirs \in [Dirs -> Contents] /\ home \in 0 .. MaxDirs
      /\ restores \in [Requests -> Restores]
      /\ session \in [live : BOOLEAN, dir : 0 .. MaxDirs] /\ crashes \in 0 .. MaxCrashes
  BY DEF RestoreTypeOK, Restores, Phases
<1>1. ASSUME NEW r \in Requests, Check(r) PROVE RestoreTypeOK'
  <2>1. restores' \in [Requests -> Restores]
    BY <1>1, GotoTyped DEF Check, Phases
  <2> QED BY <1>0, <1>1, <2>1 DEF Check, RestoreTypeOK, Restores, Phases
<1>2. ASSUME NEW r \in Requests, MoveAside(r) PROVE RestoreTypeOK'
  <2>1. [pc |-> "empty", aside |-> home] \in Restores
    BY <1>0 DEF Restores, Phases
  <2>2. restores' \in [Requests -> Restores]
    BY <1>2, <2>1, TurnTyped DEF MoveAside
  <2> QED BY <1>0, <1>2, <2>2, DirsThere DEF MoveAside, RestoreTypeOK, Restores, Phases
<1>3. ASSUME NEW r \in Requests, Unpacked(r) PROVE RestoreTypeOK'
  <2>1. restores' \in [Requests -> Restores]
    BY <1>3, TurnTyped, NoneIsRestore DEF Unpacked
  <2>2. home \in Dirs
    BY <1>0, <1>3, DirsThere DEF Unpacked
  <2>3. dirs' \in [Dirs -> Contents]
    BY <1>0, <1>3, <2>2 DEF Unpacked
  <2> QED BY <1>0, <1>3, <2>1, <2>3 DEF Unpacked, RestoreTypeOK, Restores, Phases
<1>4. ASSUME NEW r \in Requests, UnpackFails(r) PROVE RestoreTypeOK'
  <2>1. restores' \in [Requests -> Restores]
    BY <1>4, GotoTyped DEF UnpackFails, Phases
  <2>2. dirs' \in [Dirs -> Contents]
    BY <1>0, <1>4 DEF UnpackFails
  <2> QED BY <1>0, <1>4, <2>1, <2>2, DirsThere DEF UnpackFails, RestoreTypeOK, Restores, Phases
<1>5. ASSUME NEW r \in Requests, PutBack(r) PROVE RestoreTypeOK'
  <2>1. restores' \in [Requests -> Restores]
    BY <1>5, TurnTyped, NoneIsRestore DEF PutBack
  <2>2. home' \in 0 .. MaxDirs
    BY <1>0, <1>5 DEF PutBack, Restores
  <2> QED BY <1>0, <1>5, <2>1, <2>2 DEF PutBack, RestoreTypeOK, Restores, Phases
<1>6. ASSUME NEW r \in Requests, NEW d \in Dirs, MakeDir(r, d) PROVE RestoreTypeOK'
  <2>1. restores' \in [Requests -> Restores]
    BY <1>6, GotoTyped DEF MakeDir, Phases
  <2>2. dirs' \in [Dirs -> Contents] /\ home' \in 0 .. MaxDirs
    BY <1>0, <1>6, DirsThere DEF MakeDir
  <2> QED BY <1>0, <1>6, <2>1, <2>2 DEF MakeDir, RestoreTypeOK, Restores, Phases
<1>7. CASE AgentRestarts
  <2>1. restores' \in [Requests -> Restores]
    BY <1>0, <1>7, NoneIsRestore DEF AgentRestarts
  <2>2. crashes' \in 0 .. MaxCrashes
    BY <1>0, <1>7 DEF AgentRestarts, RestoreAssumption
  <2> QED BY <1>0, <1>7, <2>1, <2>2 DEF AgentRestarts, RestoreTypeOK, Restores, Phases
<1>8. CASE StartSession
  BY <1>0, <1>8 DEF StartSession, RestoreTypeOK, Restores, Phases
<1>9. CASE Work
  BY <1>0, <1>9 DEF Work, RestoreTypeOK, Restores, Phases
<1>10. CASE EndSession
  BY <1>0, <1>10, DirsThere DEF EndSession, NoSession, RestoreTypeOK, Restores, Phases
<1>11. ASSUME NEW d \in Dirs, Mount(d) PROVE RestoreTypeOK'
  <2>1. dirs' \in [Dirs -> Contents] /\ home' \in 0 .. MaxDirs
    BY <1>0, <1>11, DirsThere DEF Mount
  <2>2. session' \in [live : BOOLEAN, dir : 0 .. MaxDirs]
    BY <1>0, <1>11, DirsThere DEF Mount
  <2> QED BY <1>0, <1>11, <2>1, <2>2 DEF Mount, RestoreTypeOK, Restores, Phases
<1>12. CASE UNCHANGED restoreVars
  BY <1>0, <1>12 DEF restoreVars, RestoreTypeOK, Restores, Phases
<1> QED BY <1>1, <1>2, <1>3, <1>4, <1>5, <1>6, <1>7, <1>8, <1>9, <1>10, <1>11, <1>12 DEF RestoreNext

LEMMA RestoreInitTyped == ASSUME RestoreAssumption, RestoreInit PROVE RestoreTypeOK
<1>1. 0 \in 0 .. MaxDirs /\ 1 \in 0 .. MaxDirs /\ 0 \in 0 .. MaxCrashes
  BY DEF RestoreAssumption
<1>2. restores \in [Requests -> Restores]
  BY NoneIsRestore DEF RestoreInit
<1> QED BY <1>1, <1>2 DEF RestoreInit, RestoreTypeOK, NoSession, Restores, Phases

\* Every reachable state of a home that is restored and worked in is well typed, with
\* restores and sessions side by side or not (restore, restore_profile).
THEOREM RestoreTypes == ASSUME RestoreAssumption PROVE RestoreSpec => []RestoreTypeOK
BY RestoreInitTyped, RestoreStepTyped, PTL DEF RestoreSpec

-----------------------------------------------------------------------------
(* Restore: what the user had stays.  When restores and sessions come one at a *)
(* time, the name is free or belongs to a directory that the restore has made  *)
(* itself, from the step that moves the home aside to the last one.            *)

OneRestores == \A r, q \in Requests : ~At(r, "idle") /\ ~At(q, "idle") => r = q
RestoresAlone == session.live => AllIdle
NoneMounted == ~session.live => session.dir = 0
NameIsFree ==
    \A r \in Requests : /\ At(r, "empty") => home = 0
                        /\ At(r, "unpack") => home # 0 /\ dirs[home] = "filling"

RestoreInv == RestoreTypeOK /\ OneRestores /\ RestoresAlone /\ NoneMounted /\ NameIsFree

LEMMA InitRestore == ASSUME RestoreAssumption, RestoreInit PROVE RestoreInv
<1>1. \A r \in Requests : restores[r].pc = "idle"
  BY DEF RestoreInit, NoRestore
<1>2. ~session.live /\ session.dir = 0
  BY DEF RestoreInit, NoSession
<1> QED BY <1>1, <1>2, RestoreInitTyped
        DEF RestoreInv, OneRestores, RestoresAlone, NoneMounted, NameIsFree, At

\* A restore under way has the home to itself.
LEMMA HomeToItself ==
    ASSUME RestoreInv, NEW r \in Requests, ~At(r, "idle")
    PROVE  /\ ~session.live /\ session.dir = 0
           /\ \A q \in Requests \ {r} : At(q, "idle")
BY DEF RestoreInv, OneRestores, RestoresAlone, NoneMounted, AllIdle

\* What a step of the one restore changes of the others.
LEMMA OthersIdle ==
    ASSUME RestoreTypeOK, NEW r \in Requests, NEW n, Turn(r, n)
    PROVE  restores'[r] = n /\ \A q \in Requests \ {r} : restores'[q] = restores[q]
BY DEF RestoreTypeOK, Turn

LEMMA PhaseOf ==
    ASSUME RestoreTypeOK, NEW r \in Requests, NEW pc, Goto(r, pc)
    PROVE  /\ restores'[r].pc = pc
           /\ \A q \in Requests \ {r} : restores'[q] = restores[q]
<1>1. restores[r] \in Restores
  BY DEF RestoreTypeOK, Restores, Phases
<1>2. Turn(r, [restores[r] EXCEPT !.pc = pc])
  BY DEF Goto
<1>3. [restores[r] EXCEPT !.pc = pc].pc = pc
  BY <1>1 DEF Restores
<1> QED BY <1>2, <1>3, OthersIdle

\* After a step of the one restore the invariant holds if its own phase fits.
LEMMA OneGoesOn ==
    ASSUME RestoreInv, RestoreTypeOK', NEW r \in Requests, ~session.live, session' = session,
           \A q \in Requests \ {r} : At(q, "idle") /\ restores'[q] = restores[q],
           At(r, "empty")' => home' = 0,
           At(r, "unpack")' => home' # 0 /\ dirs'[home'] = "filling"
    PROVE  RestoreInv'
<1>1. \A q \in Requests \ {r} : restores'[q].pc = "idle"
  BY DEF At
<1>2. OneRestores' /\ RestoresAlone' /\ NoneMounted'
  BY <1>1 DEF RestoreInv, OneRestores, RestoresAlone, NoneMounted, At
<1>3. NameIsFree'
  BY <1>1 DEF NameIsFree, At
<1> QED BY <1>2, <1>3 DEF RestoreInv

LEMMA RestoreStep ==
    ASSUME RestoreAssumption, InTurn, RestoreInv, [RestoreNext]_restoreVars
    PROVE  RestoreInv' /\ [KeepsWork]_restoreVars
<1>0. RestoreTypeOK /\ RestoreTypeOK'
  BY RestoreStepTyped DEF RestoreInv
<1>1. ASSUME NEW r \in Requests, Check(r) PROVE RestoreInv' /\ KeepsWork
  <2>1. restores'[r].pc = "agent" /\ \A q \in Requests \ {r} : restores'[q] = restores[q]
    BY <1>0, <1>1, PhaseOf DEF Check
  <2>2. RestoreInv'
    BY <1>0, <1>1, <2>1, OneGoesOn DEF Check, AllIdle, At
  <2> QED BY <1>1, <2>2 DEF Check, KeepsWork
<1>2. ASSUME NEW r \in Requests, MoveAside(r) PROVE RestoreInv' /\ KeepsWork
  <2>1. ~session.live /\ \A q \in Requests \ {r} : At(q, "idle")
    BY <1>2, HomeToItself DEF MoveAside, At
  <2>2. restores'[r].pc = "empty" /\ \A q \in Requests \ {r} : restores'[q] = restores[q]
    BY <1>0, <1>2, OthersIdle DEF MoveAside
  <2>3. RestoreInv'
    BY <1>0, <1>2, <2>1, <2>2, OneGoesOn DEF MoveAside, At
  <2> QED BY <1>2, <2>3 DEF MoveAside, KeepsWork
<1>3. ASSUME NEW r \in Requests, Unpacked(r) PROVE RestoreInv' /\ KeepsWork
  <2>1. ~session.live /\ \A q \in Requests \ {r} : At(q, "idle")
    BY <1>3, HomeToItself DEF Unpacked, At
  <2>2. restores'[r] = NoRestore /\ \A q \in Requests \ {r} : restores'[q] = restores[q]
    BY <1>0, <1>3, OthersIdle DEF Unpacked
  <2>3. RestoreInv'
    BY <1>0, <1>3, <2>1, <2>2, OneGoesOn DEF Unpacked, At, NoRestore
  <2>4. dirs[home] = "filling"
    BY <1>3 DEF Unpacked, RestoreInv, NameIsFree
  <2> QED BY <1>0, <1>3, <2>3, <2>4 DEF Unpacked, KeepsWork, RestoreTypeOK
<1>4. ASSUME NEW r \in Requests, UnpackFails(r) PROVE RestoreInv' /\ KeepsWork
  <2>1. ~session.live /\ \A q \in Requests \ {r} : At(q, "idle")
    BY <1>4, HomeToItself DEF UnpackFails, At
  <2>2. restores'[r].pc = "back" /\ \A q \in Requests \ {r} : restores'[q] = restores[q]
    BY <1>0, <1>4, PhaseOf DEF UnpackFails
  <2>3. RestoreInv'
    BY <1>0, <1>4, <2>1, <2>2, OneGoesOn DEF UnpackFails, At
  <2>4. dirs[home] = "filling"
    BY <1>4 DEF UnpackFails, RestoreInv, NameIsFree
  <2> QED BY <1>0, <1>4, <2>3, <2>4 DEF UnpackFails, KeepsWork, RestoreTypeOK
<1>5. ASSUME NEW r \in Requests, PutBack(r) PROVE RestoreInv' /\ KeepsWork
  <2>1. ~session.live /\ \A q \in Requests \ {r} : At(q, "idle")
    BY <1>5, HomeToItself DEF PutBack, At
  <2>2. restores'[r] = NoRestore /\ \A q \in Requests \ {r} : restores'[q] = restores[q]
    BY <1>0, <1>5, OthersIdle DEF PutBack
  <2>3. RestoreInv'
    BY <1>0, <1>5, <2>1, <2>2, OneGoesOn DEF PutBack, At, NoRestore
  <2> QED BY <1>5, <2>3 DEF PutBack, KeepsWork
<1>6. ASSUME NEW r \in Requests, NEW d \in Dirs, MakeDir(r, d) PROVE RestoreInv' /\ KeepsWork
  <2>1. ~session.live /\ \A q \in Requests \ {r} : At(q, "idle")
    BY <1>6, HomeToItself DEF MakeDir, At
  <2>2. restores'[r].pc = "unpack" /\ \A q \in Requests \ {r} : restores'[q] = restores[q]
    BY <1>0, <1>6, PhaseOf DEF MakeDir
  <2>3. dirs[d] = "unused" /\ home' = d /\ dirs' = [dirs EXCEPT ![d] = "filling"]
    BY <1>6 DEF MakeDir, New, RestoreInv, NameIsFree
  <2>4. home' # 0 /\ dirs'[home'] = "filling"
    BY <1>0, <2>3, DirsThere DEF RestoreTypeOK
  <2>5. RestoreInv'
    BY <1>0, <1>6, <2>1, <2>2, <2>4, OneGoesOn DEF MakeDir, At
  <2> QED BY <1>0, <2>3, <2>5 DEF KeepsWork, RestoreTypeOK
<1>7. CASE AgentRestarts
  <2>1. \A r \in Requests : restores'[r].pc = "idle"
    BY <1>0, <1>7 DEF AgentRestarts, At, NoRestore, RestoreTypeOK
  <2>2. RestoreInv'
    BY <1>0, <1>7, <2>1 DEF AgentRestarts, RestoreInv, OneRestores, RestoresAlone, NoneMounted, NameIsFree, AllIdle, At
  <2> QED BY <1>7, <2>2 DEF AgentRestarts, KeepsWork
<1>8. CASE StartSession
  <2>1. AllIdle /\ AllIdle'
    BY <1>8 DEF StartSession, AllIdle, At
  <2>2. RestoreInv'
    BY <1>0, <1>8, <2>1 DEF StartSession, RestoreInv, OneRestores, RestoresAlone, NoneMounted, NameIsFree, AllIdle, At, RestoreTypeOK
  <2> QED BY <1>8, <2>2 DEF StartSession, KeepsWork
<1>9. CASE Work
  <2>1. session.live
    BY <1>9 DEF Work, RestoreInv, NoneMounted
  <2>2. AllIdle /\ AllIdle'
    BY <1>9, <2>1 DEF Work, AllIdle, At, RestoreInv, RestoresAlone
  <2>3. RestoreInv'
    BY <1>0, <1>9, <2>2 DEF Work, RestoreInv, OneRestores, RestoresAlone, NoneMounted, NameIsFree, AllIdle, At
  <2> QED BY <1>0, <1>9, <2>3 DEF Work, KeepsWork, RestoreTypeOK
<1>10. CASE EndSession
  <2>1. session'.live = FALSE /\ session'.dir = 0
    BY <1>10 DEF EndSession, NoSession
  <2>2. RestoreInv'
    BY <1>0, <1>10, <2>1 DEF EndSession, RestoreInv, OneRestores, RestoresAlone, NoneMounted, NameIsFree, AllIdle, At
  <2> QED BY <1>10, <2>2 DEF EndSession, KeepsWork
<1>11. ASSUME NEW d \in Dirs, Mount(d) PROVE RestoreInv' /\ KeepsWork
  <2>1. AllIdle /\ AllIdle'
    BY <1>11 DEF Mount, AllIdle, At, RestoreInv, RestoresAlone
  <2>2. session'.live
    BY <1>0, <1>11 DEF Mount, RestoreTypeOK
  <2>3. RestoreInv'
    BY <1>0, <1>11, <2>1, <2>2 DEF RestoreInv, OneRestores, RestoresAlone, NoneMounted, NameIsFree, AllIdle, At
  <2> QED BY <1>0, <1>11, <2>3 DEF Mount, New, KeepsWork, RestoreTypeOK
<1>12. CASE UNCHANGED restoreVars
  <2>1. RestoreInv'
    BY <1>0, <1>12 DEF restoreVars, RestoreInv, OneRestores, RestoresAlone, NoneMounted, NameIsFree, AllIdle, At
  <2> QED BY <1>12, <2>1
<1> QED BY <1>1, <1>2, <1>3, <1>4, <1>5, <1>6, <1>7, <1>8, <1>9, <1>10, <1>11, <1>12 DEF RestoreNext

\* With restores and sessions one at a time, any number of directories, requests and restarts
\* of the agent leave every directory with work of the user as it is, under its name or aside
\* ("Eine Wiederherstellung, die im Fehlerfall nichts uebriglaesst, ist keine",
\* restore_profile).
THEOREM RestoreKeepsWork ==
    ASSUME RestoreAssumption, InTurn PROVE RestoreSpec => OldStateKept
<1>1. RestoreInit => RestoreInv
  BY InitRestore
<1>2. RestoreInv /\ [RestoreNext]_restoreVars => RestoreInv' /\ [KeepsWork]_restoreVars
  BY RestoreStep
<1> QED BY <1>1, <1>2, PTL DEF RestoreSpec, OldStateKept

-----------------------------------------------------------------------------
(* Builds: types.  An actor that is past its first step has chosen the version *)
(* it works on.                                                                *)

Active == {"queued", "building"}
Final == {"ok", "failed"}
JobStates == Active \cup Final \cup {"none", "lost"}
Jobs == [tag : AnyTags, status : JobStates]
Acting == [pc : {"idle", "flush", "call", "book", "preview", "commit", "copy",
                 "read", "check", "remove", "prune"},
           op : {"none", "build", "watch", "freeze", "delete", "clean", "duplicate"},
           tag : AnyTags, run : 0 .. MaxRuns, spared : SUBSET Versions, known : SUBSET Versions,
           list : SUBSET Versions, gone : SUBSET (0 .. MaxRuns)]

Chosen(n) ==
    /\ n.pc \notin {"idle", "preview", "copy"} => n.tag \in Tags
    /\ n.op \in {"build", "freeze", "watch"} => n.run \in Runs
    /\ n.pc = "read" => n.op \in {"watch", "freeze"}
    /\ n.op = "build" => n.gone = {}

TypedActs == {n \in Acting : Chosen(n)}
BuildsTyped == BuildsTypeOK /\ actors \in [Actors -> TypedActs]

LEMMA TagsThere ==
    ASSUME BuildsAssumption
    PROVE  /\ Base \in AnyTags /\ Tags \subseteq AnyTags
           /\ \A t \in Templates : <<t, 0>> \in AnyTags
           /\ Runs \subseteq 0 .. MaxRuns /\ 0 \in 0 .. MaxRuns /\ 0 \notin Runs
           /\ \A r \in 0 .. MaxRuns : r # 0 => r \in Runs
           /\ \A i \in AnyTags : i[1] \in Templates
           /\ Loop \in Actors
BY DEF BuildsAssumption, Base, Tags, AnyTags, Runs, Actors

LEMMA TagParts == ASSUME NEW i \in Tags PROVE i[1] \in Templates /\ i[2] \in Versions /\ i = <<i[1], i[2]>>
BY DEF Tags

LEMMA RowTypes ==
    ASSUME BuildsAssumption
    PROVE  NoRow \in Row /\ \A r \in 0 .. MaxRuns : [NoRow EXCEPT !.run = r, !.status = "queued"] \in Row
                         /\ [NoRow EXCEPT !.run = r, !.status = "failed"] \in Row
                         /\ [run |-> r, status |-> "ok", image |-> TRUE, current |-> FALSE] \in Row
BY TagsThere DEF NoRow, Row

LEMMA IdleTyped == ASSUME BuildsAssumption PROVE Idle \in TypedActs
BY TagsThere DEF Idle, TypedActs, Acting, Chosen

LEMMA BecomeTyped ==
    ASSUME BuildsTyped, NEW a \in Actors, NEW n \in TypedActs, Become(a, n)
    PROVE  actors' \in [Actors -> TypedActs]
BY DEF BuildsTyped, Become

LEMMA ActTyped == ASSUME BuildsTyped, NEW a \in Actors
                  PROVE  actors[a] \in TypedActs /\ actors[a] \in Acting /\ Chosen(actors[a])
BY DEF BuildsTyped, TypedActs

\* An actor that goes on with the same version.
LEMMA GoesOnTyped ==
    ASSUME BuildsTyped, NEW a \in Actors, NEW pc, GoesTo(a, pc), actors[a].tag \in Tags,
           pc \in {"call", "book", "commit", "remove"} \/ (pc = "read" /\ actors[a].op = "freeze")
    PROVE  actors' \in [Actors -> TypedActs]
<1> DEFINE m == actors[a]
           n == [m EXCEPT !.pc = pc]
<1>1. m \in Acting /\ Chosen(m)
  BY ActTyped
<1>2. n \in Acting /\ n.pc = pc /\ n.op = m.op /\ n.tag = m.tag /\ n.run = m.run /\ n.gone = m.gone
  <2> HIDE DEF m
  <2> QED BY <1>1 DEF Acting
<1>3. Chosen(n)
  <2> HIDE DEF n
  <2> QED BY <1>1, <1>2 DEF Chosen
<1>4. n \in TypedActs
  BY <1>2, <1>3 DEF TypedActs
<1> QED BY <1>4, BecomeTyped DEF GoesTo

LEMMA DoneTyped ==
    ASSUME BuildsAssumption, BuildsTyped, NEW a \in Actors, Done(a)
    PROVE  actors' \in [Actors -> TypedActs]
BY BecomeTyped, IdleTyped DEF Done

\* What a step leaves alone keeps its type.
LEMMA WholeTyped ==
    ASSUME actors' \in [Actors -> TypedActs],
           rows' \in [Tags -> Row],
           templates' \in [Templates -> [exists : BOOLEAN, image : AnyTags]],
           images' \in [Tags -> 0 .. MaxRuns],
           jobs' \in [Runs -> Jobs],
           watched' \in [polled : SUBSET Runs, verified : SUBSET Runs],
           runs' \in 0 .. MaxRuns, faults' \in 0 .. MaxFaults
    PROVE  BuildsTyped'
<1>1. actors' \in [Actors -> Acting]
  BY DEF TypedActs
<1>2. Jobs = [tag : AnyTags, status : {"none", "queued", "building", "ok", "failed", "lost"}]
  BY DEF Jobs, JobStates, Active, Final
<1>3. BuildsTypeOK'
  BY <1>1, <1>2 DEF BuildsTypeOK, Acting
<1> QED BY <1>3 DEF BuildsTyped

LEMMA PartTypes ==
    ASSUME BuildsTyped
    PROVE  /\ actors \in [Actors -> TypedActs]
           /\ rows \in [Tags -> Row]
           /\ templates \in [Templates -> [exists : BOOLEAN, image : AnyTags]]
           /\ images \in [Tags -> 0 .. MaxRuns]
           /\ jobs \in [Runs -> Jobs]
           /\ watched \in [polled : SUBSET Runs, verified : SUBSET Runs]
           /\ runs \in 0 .. MaxRuns /\ faults \in 0 .. MaxFaults
BY DEF BuildsTyped, BuildsTypeOK, Jobs, JobStates, Active, Final

LEMMA WithoutTyped ==
    ASSUME BuildsAssumption, NEW rs \in [Tags -> Row], NEW gone
    PROVE  Without(rs, gone) \in [Tags -> Row]
BY RowTypes DEF Without

LEMMA VersionTyped ==
    ASSUME NEW t \in Templates, NextVersion(t) \in Versions PROVE <<t, NextVersion(t)>> \in Tags
BY DEF Tags

LEMMA FaultTyped == ASSUME BuildsAssumption, BuildsTyped, Fault PROVE faults' \in 0 .. MaxFaults /\ faults' # 0
<1>1. faults \in 0 .. MaxFaults
  BY PartTypes
<1> QED BY <1>1 DEF Fault, BuildsAssumption

LEMMA BuildTyped ==
    ASSUME BuildsAssumption, BuildsTyped, Build PROVE BuildsTyped'
<1>0. /\ actors \in [Actors -> TypedActs] /\ rows \in [Tags -> Row]
      /\ templates \in [Templates -> [exists : BOOLEAN, image : AnyTags]]
      /\ images \in [Tags -> 0 .. MaxRuns] /\ jobs \in [Runs -> Jobs]
      /\ watched \in [polled : SUBSET Runs, verified : SUBSET Runs]
      /\ runs \in 0 .. MaxRuns /\ faults \in 0 .. MaxFaults
  BY PartTypes
<1>a. Loop \in Actors
  BY TagsThere
<1>1. ASSUME NEW t \in Templates, BuildCheck(t) PROVE BuildsTyped'
  <2> DEFINE n == [Idle EXCEPT !.pc = "flush", !.op = "build", !.tag = <<t, NextVersion(t)>>, !.run = runs + 1]
  <2>1. <<t, NextVersion(t)>> \in Tags /\ runs + 1 \in Runs /\ runs' \in 0 .. MaxRuns
    BY <1>0, <1>1, VersionTyped DEF BuildCheck, Runs, BuildsAssumption
  <2>2. n \in TypedActs
    <3> HIDE DEF NextVersion
    <3> QED BY <2>1, TagsThere DEF Idle, TypedActs, Acting, Chosen
  <2>3. actors' \in [Actors -> TypedActs]
    BY <1>a, <1>1, <2>2, BecomeTyped DEF BuildCheck
  <2> QED BY <1>0, <1>1, <2>1, <2>3, WholeTyped DEF BuildCheck
<1>2. CASE AgentAccepts
  <2>1. actors[Loop].tag \in Tags /\ actors[Loop].run \in Runs
    BY <1>a, <1>2, ActTyped DEF AgentAccepts, Stands, Chosen
  <2>2. actors' \in [Actors -> TypedActs]
    BY <1>a, <1>2, <2>1, GoesOnTyped DEF AgentAccepts
  <2>3. jobs' \in [Runs -> Jobs]
    <3>1. [tag |-> actors[Loop].tag, status |-> "queued"] \in Jobs
      BY <2>1, TagsThere DEF Jobs, JobStates, Active
    <3> QED BY <1>0, <1>2, <3>1 DEF AgentAccepts
  <2> QED BY <1>0, <1>2, <2>2, <2>3, WholeTyped DEF AgentAccepts
<1>3. CASE AgentRefuses
  BY <1>0, <1>a, <1>3, DoneTyped, WholeTyped DEF AgentRefuses
<1>4. CASE BuildBook
  <2>1. actors[Loop].tag \in Tags /\ actors[Loop].run \in Runs
    BY <1>a, <1>4, ActTyped DEF BuildBook, Stands, Chosen
  <2>2. actors' \in [Actors -> TypedActs]
    BY <1>a, <1>4, DoneTyped DEF BuildBook
  <2>3. rows' \in [Tags -> Row]
    BY <1>0, <1>4, <2>1, RowTypes, TagsThere DEF BuildBook
  <2>4. watched' \in [polled : SUBSET Runs, verified : SUBSET Runs]
    BY <1>0, <1>4, <2>1 DEF BuildBook
  <2> QED BY <1>0, <1>4, <2>2, <2>3, <2>4, WholeTyped DEF BuildBook
<1>5. CASE BuildAnswerLost
  BY <1>0, <1>a, <1>5, DoneTyped, FaultTyped, WholeTyped DEF BuildAnswerLost
<1> QED BY <1>1, <1>2, <1>3, <1>4, <1>5 DEF Build

LEMMA RowAt ==
    ASSUME NEW rs \in [Tags -> Row], NEW i \in Tags,
           NEW s \in {"none", "queued", "building", "ok", "failed"}, NEW b \in BOOLEAN
    PROVE  [rs EXCEPT ![i].status = s, ![i].image = b] \in [Tags -> Row]
<1> DEFINE row == rs[i]
           one == [row EXCEPT !.status = s]
           two == [one EXCEPT !.image = b]
<1>1. row \in Row
  OBVIOUS
<1>2. two \in Row
  <2> HIDE DEF row
  <2>1. one \in Row
    BY <1>1 DEF Row
  <2> HIDE DEF one
  <2> QED BY <2>1 DEF Row
<1>3. [rs EXCEPT ![i].status = s, ![i].image = b] = [rs EXCEPT ![i] = two]
  OBVIOUS
<1> HIDE DEF two
<1> QED BY <1>2, <1>3

LEMMA JobTyped ==
    ASSUME BuildsAssumption, BuildsTyped, NEW r \in Runs, Job(r) \/ Watch(r) \/ Verify(r)
    PROVE  BuildsTyped'
<1>0. /\ actors \in [Actors -> TypedActs] /\ rows \in [Tags -> Row]
      /\ templates \in [Templates -> [exists : BOOLEAN, image : AnyTags]]
      /\ images \in [Tags -> 0 .. MaxRuns] /\ jobs \in [Runs -> Jobs]
      /\ watched \in [polled : SUBSET Runs, verified : SUBSET Runs]
      /\ runs \in 0 .. MaxRuns /\ faults \in 0 .. MaxFaults
  BY PartTypes
<1>1. CASE JobRuns(r)
  <2>1. jobs' \in [Runs -> Jobs]
    BY <1>0, <1>1 DEF JobRuns, Jobs, JobStates, Active
  <2> QED BY <1>0, <1>1, <2>1, WholeTyped DEF JobRuns
<1>2. ASSUME NEW s \in Final, JobEnds(r, s) PROVE BuildsTyped'
  <2>1. jobs' \in [Runs -> Jobs]
    BY <1>0, <1>2 DEF JobEnds, Jobs, JobStates, Final
  <2>2. images' \in [Tags -> 0 .. MaxRuns]
    BY <1>0, <1>2, TagsThere DEF JobEnds
  <2> QED BY <1>0, <1>2, <2>1, <2>2, WholeTyped DEF JobEnds
<1>3. CASE Watch(r)
  <2>1. CASE RowOf(r) = {}
    <3>1. watched' \in [polled : SUBSET Runs, verified : SUBSET Runs]
      BY <1>0, <1>3, <2>1 DEF Watch, Polled
    <3> QED BY <1>0, <1>3, <2>1, <3>1, WholeTyped DEF Watch, Polled
  <2>2. CASE RowOf(r) # {}
    <3> DEFINE i == CHOOSE i \in RowOf(r) : TRUE
               s == jobs[r].status
               n == [Idle EXCEPT !.pc = "read", !.op = "watch", !.tag = i, !.run = r,
                                 !.spared = ImageOf(i[1]), !.known = {i[2]}]
    <3>1. i \in Tags
      BY <2>2 DEF RowOf
    <3>2. s \in {"none", "queued", "building", "ok", "failed"}
      BY <1>0, <1>3 DEF Watch, Jobs, JobStates, Active, Final
    <3>3. rows' = [rows EXCEPT ![i].status = s, ![i].image = (s = "ok")]
      BY <1>3, <2>2 DEF Watch, Polled
    <3>4. rows' \in [Tags -> Row]
      <4> HIDE DEF i, s
      <4> QED BY <1>0, <3>1, <3>2, <3>3, RowAt
    <3>5. n \in TypedActs
      <4>1. ImageOf(i[1]) \in SUBSET Versions /\ {i[2]} \in SUBSET Versions
        BY <3>1, TagParts DEF ImageOf
      <4> HIDE DEF i, ImageOf
      <4> QED BY <3>1, <4>1, TagsThere DEF Idle, TypedActs, Acting, Chosen
    <3>6. (Become(Loop, n) /\ watched' = [watched EXCEPT !.polled = @ \ {r}]) \/ UNCHANGED <<watched, actors>>
      BY <1>3, <2>2 DEF Watch, Polled
    <3>7. actors' \in [Actors -> TypedActs]
      <4>1. CASE Become(Loop, n)
        <5> HIDE DEF n
        <5> QED BY <3>5, <4>1, BecomeTyped, TagsThere
      <4>2. CASE UNCHANGED <<watched, actors>>
        BY <1>0, <4>2
      <4> QED BY <3>6, <4>1, <4>2
    <3>8. watched' \in [polled : SUBSET Runs, verified : SUBSET Runs]
      BY <1>0, <3>6
    <3> QED BY <1>0, <1>3, <3>4, <3>7, <3>8, WholeTyped DEF Watch, Polled
  <2> QED BY <2>1, <2>2
<1>4. CASE Verify(r)
  <2>1. \A i \in Tags : [rows[i] EXCEPT !.status = "failed"] \in Row
    BY <1>0 DEF Row
  <2>2. rows' \in [Tags -> Row]
    BY <1>0, <1>4, <2>1 DEF Verify
  <2>3. watched' \in [polled : SUBSET Runs, verified : SUBSET Runs]
    BY <1>0, <1>4 DEF Verify
  <2> QED BY <1>0, <1>4, <2>2, <2>3, WholeTyped DEF Verify
<1> QED BY <1>1, <1>2, <1>3, <1>4 DEF Job, Final

LEMMA FlushTyped ==
    ASSUME BuildsAssumption, BuildsTyped, NEW a \in Actors, Flush(a) PROVE BuildsTyped'
<1>0. actors[a].tag \in Tags
  BY ActTyped DEF Flush, Chosen
<1>1. GoesTo(a, "call") \/ GoesTo(a, "commit") \/ Done(a)
  BY DEF Flush
<1>2. actors' \in [Actors -> TypedActs]
  BY <1>0, <1>1, GoesOnTyped, DoneTyped
<1> QED BY <1>2, PartTypes, WholeTyped DEF Flush

LEMMA RemoveTyped ==
    ASSUME BuildsAssumption, BuildsTyped, NEW a \in Actors, Remove(a) PROVE BuildsTyped'
<1> DEFINE m == actors[a]
<1>0. /\ actors \in [Actors -> TypedActs] /\ rows \in [Tags -> Row]
      /\ templates \in [Templates -> [exists : BOOLEAN, image : AnyTags]]
      /\ images \in [Tags -> 0 .. MaxRuns] /\ jobs \in [Runs -> Jobs]
      /\ watched \in [polled : SUBSET Runs, verified : SUBSET Runs]
      /\ runs \in 0 .. MaxRuns /\ faults \in 0 .. MaxFaults
  BY PartTypes
<1>a. m \in Acting /\ Chosen(m)
  BY ActTyped
<1>b. ASSUME m.pc \in {"check", "remove", "read"}, NEW l \in SUBSET Versions
      PROVE  [m EXCEPT !.pc = "check", !.list = l] \in TypedActs
  <2> DEFINE n == [m EXCEPT !.pc = "check", !.list = l]
  <2> HIDE DEF m
  <2>1. n \in Acting /\ n.pc = "check" /\ n.op = m.op /\ n.tag = m.tag /\ n.run = m.run /\ n.gone = m.gone
    BY <1>a DEF Acting
  <2> HIDE DEF n
  <2>2. Chosen(n)
    BY <1>a, <1>b, <2>1 DEF Chosen
  <2>3. n \in TypedActs
    BY <2>1, <2>2 DEF TypedActs
  <2> QED BY <2>3 DEF n
<1>1. CASE PruneRead(a)
  <2>1. m.tag \in Tags /\ m.op \in {"watch", "freeze"} /\ m.run \in Runs /\ m.pc = "read"
    BY <1>a, <1>1 DEF PruneRead, Chosen
  <2>2. PICK l \in SUBSET Versions, g \in SUBSET (0 .. MaxRuns) :
            Become(a, [m EXCEPT !.pc = "check", !.list = l, !.gone = g])
    <3> DEFINE t == m.tag[1]
               finished == {v \in RowsOf(t) : rows[<<t, v>>].status \in {"ok", "failed"}} \cup {m.tag[2]}
               old == {v \in finished : Cardinality({w \in finished : w > v}) >= Keep}
               spared == m.spared \cup (CurrentOf(t) \ m.known)
               l == old \ spared
               g == {IF v = m.tag[2] THEN m.run ELSE rows[<<t, v>>].run : v \in l}
    <3>1. l \in SUBSET Versions
      BY <2>1, TagParts DEF RowsOf
    <3>2. \A v \in Versions : rows[<<t, v>>].run \in 0 .. MaxRuns
      <4>1. \A v \in Versions : <<t, v>> \in Tags
        BY <2>1, TagParts DEF Tags
      <4> QED BY <1>0, <4>1 DEF Row
    <3>3. g \in SUBSET (0 .. MaxRuns)
      <4> HIDE DEF l
      <4> QED BY <2>1, <3>1, <3>2, TagsThere
    <3>4. Become(a, [m EXCEPT !.pc = "check", !.list = l, !.gone = g])
      BY <1>1 DEF PruneRead
    <3> HIDE DEF l, g
    <3> QED BY <3>1, <3>3, <3>4
  <2> DEFINE n == [m EXCEPT !.pc = "check", !.list = l, !.gone = g]
  <2>3. n \in TypedActs
    <3> HIDE DEF m
    <3>1. n \in Acting /\ n.pc = "check" /\ n.op = m.op /\ n.tag = m.tag /\ n.run = m.run
      BY <1>a DEF Acting
    <3> HIDE DEF n
    <3>2. Chosen(n)
      BY <1>a, <2>1, <3>1 DEF Chosen
    <3> QED BY <3>1, <3>2 DEF TypedActs
  <2>4. actors' \in [Actors -> TypedActs]
    <3> HIDE DEF n
    <3>1. Become(a, n)
      BY <2>2 DEF n
    <3> QED BY <2>3, <3>1, BecomeTyped
  <2> QED BY <1>0, <1>1, <2>4, WholeTyped DEF PruneRead
<1>2. CASE RemoveCheck(a)
  <2>1. actors' \in [Actors -> TypedActs]
    <3>1. m.pc = "check" /\ m.tag \in Tags
      BY <1>a, <1>2 DEF RemoveCheck, Chosen
    <3>2. CASE GoesTo(a, "remove")
      BY <3>1, <3>2, GoesOnTyped
    <3>3. CASE ~GoesTo(a, "remove")
      <4>1. Become(a, [m EXCEPT !.list = @ \ {Max(m.list)}])
        BY <1>2, <3>3 DEF RemoveCheck
      <4>2. m.list \in SUBSET Versions
        BY <1>a DEF Acting
      <4>3. [m EXCEPT !.list = @ \ {Max(m.list)}] = [m EXCEPT !.pc = "check", !.list = m.list \ {Max(m.list)}]
        <5> DEFINE x == Max(m.list)
        <5> HIDE DEF x, m
        <5>1. [m EXCEPT !.list = @ \ {x}] = [m EXCEPT !.pc = "check", !.list = m.list \ {x}]
          BY <1>a, <3>1 DEF Acting
        <5> QED BY <5>1 DEF x
      <4>4. [m EXCEPT !.pc = "check", !.list = m.list \ {Max(m.list)}] \in TypedActs
        BY <1>b, <3>1, <4>2
      <4> QED BY <4>1, <4>3, <4>4, BecomeTyped
    <3> QED BY <3>2, <3>3
  <2> QED BY <1>0, <1>2, <2>1, WholeTyped DEF RemoveCheck
<1>3. ASSUME NEW refused \in BOOLEAN, RemoveImage(a, refused) PROVE BuildsTyped'
  <2>1. \E v : Become(a, [m EXCEPT !.pc = "check", !.list = @ \ {v}])
    BY <1>3 DEF RemoveImage
  <2>2. actors' \in [Actors -> TypedActs]
    <3>1. PICK v : Become(a, [m EXCEPT !.pc = "check", !.list = @ \ {v}])
      BY <2>1
    <3>2. m.list \ {v} \in SUBSET Versions /\ m.pc = "remove"
      BY <1>a, <1>3 DEF Acting, RemoveImage
    <3>3. [m EXCEPT !.pc = "check", !.list = m.list \ {v}] \in TypedActs
      BY <1>b, <3>2
    <3> QED BY <3>1, <3>3, BecomeTyped
  <2>3. images' \in [Tags -> 0 .. MaxRuns]
    BY <1>0, <1>3, TagsThere DEF RemoveImage
  <2> QED BY <1>0, <1>3, <2>2, <2>3, WholeTyped DEF RemoveImage
<1>4. CASE PruneCommit(a)
  <2>1. actors' \in [Actors -> TypedActs]
    BY <1>4, DoneTyped DEF PruneCommit
  <2>2. m.tag \in Tags /\ (m.op \in {"freeze", "watch"} => m.run \in Runs)
    BY <1>a, <1>4 DEF PruneCommit, Chosen
  <2>3. rows' \in [Tags -> Row]
    <3>1. CASE m.op = "freeze"
      <4> DEFINE row == [run |-> m.run, status |-> "ok", image |-> TRUE, current |-> FALSE]
      <4>1. [rows EXCEPT ![m.tag] = row] \in [Tags -> Row]
        <5>1. row \in Row
          BY <2>2, <3>1, RowTypes, TagsThere
        <5> HIDE DEF row
        <5> QED BY <1>0, <5>1
      <4>2. rows' = Without([rows EXCEPT ![m.tag] = row], m.gone)
        BY <1>4, <3>1 DEF PruneCommit
      <4> QED BY <4>1, <4>2, WithoutTyped
    <3>2. CASE m.op # "freeze"
      BY <1>0, <1>4, <3>2, WithoutTyped DEF PruneCommit
    <3> QED BY <3>1, <3>2
  <2>4. watched' \in [polled : SUBSET Runs, verified : SUBSET Runs]
    BY <1>0, <1>4, <2>2 DEF PruneCommit
  <2> QED BY <1>0, <1>4, <2>1, <2>3, <2>4, WholeTyped DEF PruneCommit
<1> QED BY <1>1, <1>2, <1>3, <1>4 DEF Remove

LEMMA FreezeTyped ==
    ASSUME BuildsAssumption, BuildsTyped, NEW a \in Actors, Freeze(a) PROVE BuildsTyped'
<1> DEFINE m == actors[a]
<1>0. /\ actors \in [Actors -> TypedActs] /\ rows \in [Tags -> Row]
      /\ templates \in [Templates -> [exists : BOOLEAN, image : AnyTags]]
      /\ images \in [Tags -> 0 .. MaxRuns] /\ jobs \in [Runs -> Jobs]
      /\ watched \in [polled : SUBSET Runs, verified : SUBSET Runs]
      /\ runs \in 0 .. MaxRuns /\ faults \in 0 .. MaxFaults
  BY PartTypes
<1>a. m \in Acting /\ Chosen(m)
  BY ActTyped
<1>1. ASSUME NEW t \in Templates, FreezeCheck(a, t) PROVE BuildsTyped'
  <2> DEFINE n == [Idle EXCEPT !.pc = "preview", !.op = "freeze", !.tag = <<t, 0>>,
                               !.run = runs + 1, !.spared = ImageOf(t)]
  <2>1. runs + 1 \in Runs /\ runs' \in 0 .. MaxRuns /\ ImageOf(t) \in SUBSET Versions
    BY <1>0, <1>1 DEF FreezeCheck, Runs, ImageOf, BuildsAssumption
  <2>2. n \in TypedActs
    <3> HIDE DEF ImageOf
    <3> QED BY <2>1, TagsThere DEF Idle, TypedActs, Acting, Chosen
  <2>3. actors' \in [Actors -> TypedActs]
    <3> HIDE DEF n
    <3>1. Become(a, n)
      BY <1>1 DEF FreezeCheck, n
    <3> QED BY <2>2, <3>1, BecomeTyped
  <2> QED BY <1>0, <1>1, <2>1, <2>3, WholeTyped DEF FreezeCheck
<1>2. CASE FreezeMark(a)
  <2> DEFINE t == m.tag[1]
             i == <<t, NextVersion(t)>>
             sp == m.spared \cup CurrentOf(t)
             kn == RowsOf(t)
             n == [m EXCEPT !.pc = "flush", !.tag = i, !.spared = sp, !.known = kn]
  <2>1. i \in Tags
    <3>1. t \in Templates
      BY <1>a, TagsThere DEF Acting
    <3> QED BY <1>2, <3>1, VersionTyped DEF FreezeMark
  <2>2. sp \in SUBSET Versions /\ kn \in SUBSET Versions
    BY <1>a DEF Acting, CurrentOf, RowsOf
  <2>3. m.op = "freeze"
    BY <1>2 DEF FreezeMark, Stands
  <2>4. n \in TypedActs
    <3> HIDE DEF m, i, sp, kn
    <3>1. n \in Acting /\ n.pc = "flush" /\ n.op = m.op /\ n.tag = i /\ n.run = m.run
      BY <1>a, <2>1, <2>2, TagsThere DEF Acting
    <3> HIDE DEF n
    <3>2. Chosen(n)
      BY <1>a, <2>1, <2>3, <3>1 DEF Chosen
    <3> QED BY <3>1, <3>2 DEF TypedActs
  <2>5. Become(a, n)
    <3>1. n = [m EXCEPT !.pc = "flush", !.tag = i, !.spared = @ \cup CurrentOf(t), !.known = kn]
      <4> HIDE DEF m, i, kn, t
      <4> QED BY <1>a DEF Acting
    <3> HIDE DEF n
    <3> QED BY <1>2, <3>1 DEF FreezeMark
  <2>6. actors' \in [Actors -> TypedActs]
    <3> HIDE DEF n
    <3> QED BY <2>4, <2>5, BecomeTyped
  <2> QED BY <1>0, <1>2, <2>6, WholeTyped DEF FreezeMark
<1>3. CASE FreezeRefused(a)
  BY <1>0, <1>3, DoneTyped, WholeTyped DEF FreezeRefused
<1>4. CASE FreezeCommitted(a)
  <2>1. m.tag \in Tags /\ m.op = "freeze" /\ m.run \in Runs
    BY <1>a, <1>4 DEF FreezeCommitted, Stands, Chosen
  <2>2. actors' \in [Actors -> TypedActs]
    BY <1>4, <2>1, GoesOnTyped DEF FreezeCommitted
  <2>3. images' \in [Tags -> 0 .. MaxRuns]
    BY <1>0, <1>4, <2>1, TagsThere DEF FreezeCommitted
  <2> QED BY <1>0, <1>4, <2>2, <2>3, WholeTyped DEF FreezeCommitted
<1>5. CASE FreezeFails(a) \/ FreezeAnswerLost(a)
  <2>1. m.tag \in Tags /\ m.run \in Runs
    BY <1>a, <1>5 DEF FreezeFails, FreezeAnswerLost, Stands, Chosen
  <2>2. actors' \in [Actors -> TypedActs]
    BY <1>5, DoneTyped DEF FreezeFails, FreezeAnswerLost
  <2>3. rows' \in [Tags -> Row]
    <3> DEFINE row == [NoRow EXCEPT !.run = m.run, !.status = "failed"]
    <3>1. row \in Row
      BY <2>1, RowTypes, TagsThere
    <3>2. rows' = [rows EXCEPT ![m.tag] = row]
      BY <1>5 DEF FreezeFails, FreezeAnswerLost
    <3> HIDE DEF row
    <3> QED BY <1>0, <3>1, <3>2
  <2>4. images' \in [Tags -> 0 .. MaxRuns] /\ faults' \in 0 .. MaxFaults
    BY <1>0, <1>5, <2>1, TagsThere, FaultTyped DEF FreezeFails, FreezeAnswerLost
  <2> QED BY <1>0, <1>5, <2>2, <2>3, <2>4, WholeTyped DEF FreezeFails, FreezeAnswerLost
<1> QED BY <1>1, <1>2, <1>3, <1>4, <1>5 DEF Freeze

LEMMA AdministerTyped ==
    ASSUME BuildsAssumption, BuildsTyped, NEW a \in Actors, Administer(a) PROVE BuildsTyped'
<1>0. /\ actors \in [Actors -> TypedActs] /\ rows \in [Tags -> Row]
      /\ templates \in [Templates -> [exists : BOOLEAN, image : AnyTags]]
      /\ images \in [Tags -> 0 .. MaxRuns] /\ jobs \in [Runs -> Jobs]
      /\ watched \in [polled : SUBSET Runs, verified : SUBSET Runs]
      /\ runs \in 0 .. MaxRuns /\ faults \in 0 .. MaxFaults
  BY PartTypes
<1>1. ASSUME NEW i \in Tags, DeleteCheck(a, i) PROVE BuildsTyped'
  <2> DEFINE n == [Idle EXCEPT !.pc = "check", !.op = "delete", !.tag = i,
                               !.list = {i[2]}, !.gone = {rows[i].run}]
  <2>1. n \in TypedActs
    <3>1. {i[2]} \in SUBSET Versions /\ {rows[i].run} \in SUBSET (0 .. MaxRuns)
      BY <1>0, TagParts DEF Row
    <3> QED BY <3>1, TagsThere DEF Idle, TypedActs, Acting, Chosen
  <2>2. actors' \in [Actors -> TypedActs]
    BY <1>1, <2>1, BecomeTyped DEF DeleteCheck
  <2> QED BY <1>0, <1>1, <2>2, WholeTyped DEF DeleteCheck
<1>2. ASSUME NEW i \in Tags, CleanCheck(a, i) PROVE BuildsTyped'
  <2> DEFINE n == [Idle EXCEPT !.pc = "remove", !.op = "clean", !.tag = i, !.list = {i[2]}]
  <2>1. n \in TypedActs
    <3>1. {i[2]} \in SUBSET Versions
      BY TagParts
    <3> QED BY <3>1, TagsThere DEF Idle, TypedActs, Acting, Chosen
  <2>2. actors' \in [Actors -> TypedActs]
    BY <1>2, <2>1, BecomeTyped DEF CleanCheck
  <2> QED BY <1>0, <1>2, <2>2, WholeTyped DEF CleanCheck
<1>3. ASSUME NEW i \in Tags, Activate(a, i) PROVE BuildsTyped'
  <2>1. rows' \in [Tags -> Row]
    <3>1. \A j \in Tags : [rows[j] EXCEPT !.current = (j = i)] \in Row
      BY <1>0 DEF Row
    <3> QED BY <1>0, <1>3, <3>1 DEF Activate
  <2>2. templates' \in [Templates -> [exists : BOOLEAN, image : AnyTags]]
    BY <1>0, <1>3, TagsThere, TagParts DEF Activate
  <2> QED BY <1>0, <1>3, <2>1, <2>2, WholeTyped DEF Activate
<1>4. ASSUME NEW t \in Templates, NEW u \in Templates, DuplicateCheck(a, t, u) PROVE BuildsTyped'
  <2> DEFINE n == [Idle EXCEPT !.pc = "copy", !.op = "duplicate", !.tag = templates[t].image]
  <2>1. n \in TypedActs
    <3>1. templates[t].image \in AnyTags
      BY <1>0
    <3> QED BY <3>1, TagsThere DEF Idle, TypedActs, Acting, Chosen
  <2>2. actors' \in [Actors -> TypedActs]
    BY <1>4, <2>1, BecomeTyped DEF DuplicateCheck
  <2> QED BY <1>0, <1>4, <2>2, WholeTyped DEF DuplicateCheck
<1>5. ASSUME NEW u \in Templates, DuplicateCommit(a, u) PROVE BuildsTyped'
  <2>1. actors' \in [Actors -> TypedActs]
    BY <1>5, DoneTyped DEF DuplicateCommit
  <2>2. actors[a].tag \in AnyTags
    BY ActTyped DEF Acting
  <2>3. templates' \in [Templates -> [exists : BOOLEAN, image : AnyTags]]
    <3>1. [exists |-> TRUE, image |-> actors[a].tag] \in [exists : BOOLEAN, image : AnyTags]
      BY <2>2
    <3> QED BY <1>0, <1>5, <3>1 DEF DuplicateCommit
  <2> QED BY <1>0, <1>5, <2>1, <2>3, WholeTyped DEF DuplicateCommit
<1>6. ASSUME NEW u \in Templates, DeleteTemplate(a, u) PROVE BuildsTyped'
  <2>1. rows' \in [Tags -> Row]
    BY <1>0, <1>6, RowTypes DEF DeleteTemplate
  <2>2. templates' \in [Templates -> [exists : BOOLEAN, image : AnyTags]]
    BY <1>0, <1>6, TagsThere DEF DeleteTemplate
  <2> QED BY <1>0, <1>6, <2>1, <2>2, WholeTyped DEF DeleteTemplate
<1>7. ASSUME NEW t \in Templates, NEW i \in Tags \cup {Base}, UpdateTemplate(a, t, i) PROVE BuildsTyped'
  <2>1. templates' \in [Templates -> [exists : BOOLEAN, image : AnyTags]]
    BY <1>0, <1>7, TagsThere DEF UpdateTemplate
  <2> QED BY <1>0, <1>7, <2>1, WholeTyped DEF UpdateTemplate
<1> QED BY <1>1, <1>2, <1>3, <1>4, <1>5, <1>6, <1>7 DEF Administer

LEMMA FaultsTyped ==
    ASSUME BuildsAssumption, BuildsTyped, Faults PROVE BuildsTyped'
<1>0. /\ actors \in [Actors -> TypedActs] /\ rows \in [Tags -> Row]
      /\ templates \in [Templates -> [exists : BOOLEAN, image : AnyTags]]
      /\ images \in [Tags -> 0 .. MaxRuns] /\ jobs \in [Runs -> Jobs]
      /\ watched \in [polled : SUBSET Runs, verified : SUBSET Runs]
      /\ runs \in 0 .. MaxRuns /\ faults \in 0 .. MaxFaults
  BY PartTypes
<1>1. CASE ApiRestart
  BY <1>0, <1>1, FaultTyped, IdleTyped, WholeTyped DEF ApiRestart
<1>2. CASE JobsLost
  <2>1. NoJob \in Jobs /\ \A r \in Runs : [jobs[r] EXCEPT !.status = "lost"] \in Jobs
    BY <1>0, TagsThere DEF NoJob, Jobs, JobStates
  <2>2. jobs' \in [Runs -> Jobs]
    BY <1>0, <1>2, <2>1 DEF JobsLost
  <2> QED BY <1>0, <1>2, <2>2, FaultTyped, WholeTyped DEF JobsLost
<1>3. ASSUME NEW i \in Tags, ForeignCleanup(i) PROVE BuildsTyped'
  <2>1. images' \in [Tags -> 0 .. MaxRuns]
    BY <1>0, <1>3, TagsThere DEF ForeignCleanup
  <2> QED BY <1>0, <1>3, <2>1, FaultTyped, WholeTyped DEF ForeignCleanup
<1> QED BY <1>1, <1>2, <1>3 DEF Faults

LEMMA BuildsStepTyped ==
    ASSUME BuildsAssumption, BuildsTyped, [BuildsNext]_buildVars PROVE BuildsTyped'
<1>1. CASE UNCHANGED buildVars
  BY <1>1, PartTypes, WholeTyped DEF buildVars
<1> QED BY <1>1, BuildTyped, JobTyped, FlushTyped, RemoveTyped, FreezeTyped, AdministerTyped,
           FaultsTyped DEF BuildsNext

LEMMA BuildsInitTyped == ASSUME BuildsAssumption, BuildsInit PROVE BuildsTyped
<1>a. 0 \in 0 .. MaxFaults
  BY DEF BuildsAssumption
<1>b. NoJob \in Jobs
  BY TagsThere DEF NoJob, Jobs, JobStates
<1>1. 0 \in 0 .. MaxRuns /\ 0 \in 0 .. MaxFaults /\ NoRow \in Row /\ NoJob \in Jobs
  BY <1>a, <1>b, TagsThere, RowTypes
<1>2. /\ actors \in [Actors -> TypedActs] /\ rows \in [Tags -> Row]
      /\ templates \in [Templates -> [exists : BOOLEAN, image : AnyTags]]
      /\ images \in [Tags -> 0 .. MaxRuns] /\ jobs \in [Runs -> Jobs]
      /\ watched \in [polled : SUBSET Runs, verified : SUBSET Runs]
      /\ runs \in 0 .. MaxRuns /\ faults \in 0 .. MaxFaults
  BY <1>1, IdleTyped, TagsThere DEF BuildsInit
<1>3. actors \in [Actors -> Acting]
  BY <1>2 DEF TypedActs
<1>4. BuildsTypeOK
  BY <1>2, <1>3 DEF BuildsTypeOK, Acting, Jobs, JobStates, Active, Final
<1> QED BY <1>2, <1>4 DEF BuildsTyped

\* Every reachable state of the images, their rows, the builds of the agent and the handlers is
\* well typed, with any number of threads, templates and faults.
THEOREM BuildsTypes == ASSUME BuildsAssumption PROVE BuildsSpec => []BuildsTypeOK
<1>1. BuildsInit => BuildsTyped
  BY BuildsInitTyped
<1>2. BuildsTyped /\ [BuildsNext]_buildVars => BuildsTyped'
  BY BuildsStepTyped
<1>3. BuildsTyped => BuildsTypeOK
  BY DEF BuildsTyped
<1> QED BY <1>1, <1>2, <1>3, PTL DEF BuildsSpec

-----------------------------------------------------------------------------
(* Builds: whose image is behind a tag.  A run holds its tag from its insert   *)
(* to the end of its row, and two runs never hold the same one: that is all    *)
(* the unique pair of template and version gives, since neither the agent nor  *)
(* the image store asks whose tag it is.                                       *)

\* An actor that has inserted a row it has not committed; one whose build the agent has
\* accepted; one whose image is made but whose row is not there yet.
Inserts(n) ==
    \/ n.op = "build" /\ n.pc \in {"call", "book"}
    \/ n.op = "freeze" /\ n.pc \in {"commit", "read", "check", "remove"}
Books(n) == n.op = "build" /\ n.pc = "book"
Holds(n) == n.op = "freeze" /\ n.pc \in {"read", "check", "remove"}
Makes(n) == n.op \in {"build", "freeze"}

\* What an actor knows agrees with rows R, jobs J and images I; runs after k are not begun.
Fit(n, R, J, I, k) ==
    /\ n.run <= k
    /\ \A g \in n.gone : g <= k /\ (g # 0 => J[g].status \notin Active)
    /\ Makes(n) => \A i \in Tags : R[i].run # n.run
    /\ Makes(n) /\ ~Books(n) => J[n.run].status = "none"
    /\ n.op = "watch" => J[n.run].status \notin Active
    /\ Inserts(n) => R[n.tag].status = "none"
    /\ Books(n) => J[n.run].status # "none" /\ J[n.run].tag = n.tag
    /\ (Books(n) /\ J[n.run].status = "ok") \/ Holds(n) => I[n.tag] \in {0, n.run}

\* Two actors do not work on the same run, nor on the same tag.
Apart(m, n) ==
    /\ Makes(m) /\ Makes(n) => m.run # n.run
    /\ Inserts(m) /\ Inserts(n) => m.tag # n.tag
    /\ m.op = "build" => m.run \notin n.gone /\ (n.op = "watch" => m.run # n.run)

\* A row is its run's own, and the image of a run that is done is the run's, or gone.
RowsFit(R, J, I, k) ==
    /\ \A i \in Tags : (R[i].status = "none" <=> R[i].run = 0) /\ R[i].run <= k
    /\ \A i, j \in Tags : R[i].run = R[j].run /\ R[i].run # 0 => i = j
    /\ \A i \in Tags : R[i].status \in Final => J[R[i].run].status \notin Active
    /\ \A i \in Tags : R[i].status # "none" /\ J[R[i].run].status # "none" => J[R[i].run].tag = i
    /\ \A i \in Tags : R[i].status # "none" /\ (R[i].status = "ok" \/ J[R[i].run].status = "ok")
                       => I[i] \in {0, R[i].run}

\* A build the agent works on is booked, or is being booked.
JobsFit(R, J, A, k, P) ==
    /\ \A r \in Runs : J[r].status # "none" => r <= k
    /\ \A r \in Runs : J[r].status \in Active =>
          \/ J[r].tag \in Tags /\ R[J[r].tag].run = r /\ R[J[r].tag].status \in Active
          \/ \E a \in Actors : Books(A[a]) /\ A[a].run = r
    /\ \A r \in P : J[r].status # "none"

Claims ==
    /\ \A a \in Actors : Fit(actors[a], rows, jobs, images, runs)
    /\ \A a, b \in Actors : a # b => Apart(actors[a], actors[b])
    /\ RowsFit(rows, jobs, images, runs)
    /\ JobsFit(rows, jobs, actors, runs, watched.polled)

BuildsInv == BuildsTyped /\ (faults = 0 => Claims)

LEMMA ClaimsOwn == ASSUME BuildsTyped, Claims, NEW i \in Tags, rows[i].status = "ok", images[i] # 0
                   PROVE  images[i] = rows[i].run
BY DEF Claims, RowsFit

LEMMA IdleFits == ASSUME NEW R, NEW J, NEW I, NEW k \in Nat PROVE Fit(Idle, R, J, I, k)
BY DEF Fit, Idle, Makes, Books, Inserts, Holds

LEMMA IdleApart == ASSUME NEW m PROVE Apart(m, Idle) /\ Apart(Idle, m)
BY DEF Apart, Idle, Makes, Inserts

\* One actor goes on; the others fit what has become of rows, jobs and images.
LEMMA OneMoves ==
    ASSUME BuildsTyped, Claims, NEW a \in Actors, NEW n, Become(a, n),
           Fit(n, rows', jobs', images', runs'),
           \A b \in Actors \ {a} : Fit(actors[b], rows', jobs', images', runs'),
           \A b \in Actors \ {a} : Apart(actors[b], n) /\ Apart(n, actors[b]),
           RowsFit(rows', jobs', images', runs'),
           JobsFit(rows', jobs', actors', runs', watched'.polled)
    PROVE  Claims'
<1>1. actors'[a] = n /\ \A b \in Actors \ {a} : actors'[b] = actors[b]
  BY PartTypes DEF Become
<1>2. \A b \in Actors : Fit(actors'[b], rows', jobs', images', runs')
  BY <1>1
<1>3. \A b, c \in Actors : b # c => Apart(actors'[b], actors'[c])
  BY <1>1 DEF Claims
<1> QED BY <1>2, <1>3 DEF Claims

\* What is held does not depend on later runs.
LEMMA FitLater ==
    ASSUME NEW m \in TypedActs, NEW R, NEW J, NEW I, NEW k \in Nat, NEW l \in Nat, k <= l, Fit(m, R, J, I, k)
    PROVE  Fit(m, R, J, I, l)
<1>1. m.run \in Int /\ \A g \in m.gone : g \in Int
  BY DEF TypedActs, Acting
<1> QED BY <1>1 DEF Fit

LEMMA RowsFitLater ==
    ASSUME NEW R \in [Tags -> Row], NEW J, NEW I, NEW k \in Nat, NEW l \in Nat, k <= l, RowsFit(R, J, I, k)
    PROVE  RowsFit(R, J, I, l)
<1>1. \A i \in Tags : R[i].run \in Int
  BY DEF Row
<1> QED BY <1>1 DEF RowsFit

\* An actor whose step touches nothing but itself; it was booking nothing.
LEMMA MovesOn ==
    ASSUME BuildsTyped, Claims, NEW a \in Actors, NEW n, Become(a, n),
           UNCHANGED <<rows, jobs, images, watched>>, runs' \in Nat, runs <= runs',
           Fit(n, rows, jobs, images, runs'),
           \A b \in Actors \ {a} : Apart(actors[b], n) /\ Apart(n, actors[b]),
           ~Books(actors[a])
    PROVE  Claims'
<1>0. runs \in Nat /\ rows \in [Tags -> Row]
  BY PartTypes
<1>1. \A b \in Actors \ {a} : Fit(actors[b], rows, jobs, images, runs')
  BY <1>0, FitLater, ActTyped DEF Claims
<1>2. RowsFit(rows, jobs, images, runs')
  BY <1>0, RowsFitLater DEF Claims
<1>3. JobsFit(rows, jobs, actors', runs', watched.polled)
  <2>1. \A b \in Actors : Books(actors[b]) => b # a /\ actors'[b] = actors[b]
    BY PartTypes DEF Become
  <2>2. \A r \in Runs : jobs[r].status # "none" => r <= runs'
    BY <1>0 DEF Claims, JobsFit, Runs
  <2> QED BY <2>1, <2>2 DEF Claims, JobsFit
<1> QED BY <1>1, <1>2, <1>3, OneMoves

\* The same for one that goes on with the same run and tag, and for one that is done.
LEMMA GoesOn ==
    ASSUME BuildsTyped, Claims, NEW a \in Actors, NEW n, Become(a, n),
           UNCHANGED <<rows, jobs, images, watched, runs>>,
           n.op = actors[a].op, n.run = actors[a].run, n.gone = actors[a].gone,
           Inserts(n) => Inserts(actors[a]) /\ n.tag = actors[a].tag,
           ~Books(n) /\ ~Books(actors[a]), Holds(n) => Holds(actors[a]) /\ n.tag = actors[a].tag
    PROVE  Claims'
<1> DEFINE m == actors[a]
<1>0. runs \in Nat
  BY PartTypes
<1>1. Fit(n, rows, jobs, images, runs)
  BY DEF Claims, Fit, Makes
<1>2. \A b \in Actors \ {a} : Apart(actors[b], n) /\ Apart(n, actors[b])
  BY DEF Claims, Apart, Makes
<1> QED BY <1>0, <1>1, <1>2, MovesOn

LEMMA LeavesOff ==
    ASSUME BuildsTyped, Claims, NEW a \in Actors, Done(a),
           UNCHANGED <<rows, jobs, images, watched, runs>>, ~Books(actors[a])
    PROVE  Claims'
<1>0. runs \in Nat
  BY PartTypes
<1> QED BY <1>0, IdleFits, IdleApart, MovesOn DEF Done

\* A new run is nobody's yet.
LEMMA NewRun ==
    ASSUME BuildsTyped, Claims, NEW a \in Actors, NEW n \in TypedActs, Become(a, n),
           UNCHANGED <<rows, jobs, images, watched>>, runs' = runs + 1,
           Makes(n), n.run = runs + 1, n.run \in Runs, n.gone = {}, ~Inserts(n), ~Books(n), ~Holds(n),
           ~Books(actors[a])
    PROVE  Claims'
<1>0. runs \in Nat /\ runs + 1 \in Nat /\ runs <= runs + 1 /\ runs + 1 <= runs + 1
  BY PartTypes
<1>1. \A i \in Tags : rows[i].run # n.run
  <2>1. \A i \in Tags : rows[i].run \in Nat /\ rows[i].run <= runs
    BY PartTypes DEF Claims, RowsFit, Row
  <2> QED BY <1>0, <2>1
<1>2. jobs[n.run].status = "none"
  BY <1>0 DEF Claims, JobsFit
<1>3. Fit(n, rows, jobs, images, runs')
  BY <1>0, <1>1, <1>2 DEF Fit, Makes
<1>4. ASSUME NEW b \in Actors \ {a} PROVE Apart(actors[b], n) /\ Apart(n, actors[b])
  <2>1. actors[b].run \in Nat /\ actors[b].gone \subseteq Nat
    BY ActTyped DEF Acting
  <2>2. actors[b].run <= runs /\ \A g \in actors[b].gone : g <= runs
    BY DEF Claims, Fit
  <2>3. actors[b].run # n.run /\ n.run \notin actors[b].gone
    BY <1>0, <2>1, <2>2
  <2> QED BY <2>3 DEF Apart
<1> QED BY <1>0, <1>3, <1>4, MovesOn

LEMMA AcceptClaims ==
    ASSUME BuildsAssumption, BuildsTyped, Claims, AgentAccepts PROVE Claims'
<1> DEFINE m == actors[Loop]
           n == [m EXCEPT !.pc = "book"]
<1>0. m \in Acting /\ Chosen(m) /\ Loop \in Actors /\ runs \in Nat
  BY ActTyped, PartTypes, TagsThere
<1>1. m.op = "build" /\ m.pc = "call" /\ m.run \in Runs /\ m.tag \in Tags
  BY <1>0 DEF AgentAccepts, Stands, Chosen
<1>2. n.op = "build" /\ n.pc = "book" /\ n.run = m.run /\ n.tag = m.tag /\ n.gone = m.gone
  <2> HIDE DEF m
  <2> QED BY <1>0, <1>1 DEF Acting
<1>3. Become(Loop, n)
  BY DEF AgentAccepts, GoesTo
<1> HIDE DEF n
<1>4. /\ jobs'[m.run] = [tag |-> m.tag, status |-> "queued"]
      /\ \A r \in Runs : r # m.run => jobs'[r] = jobs[r]
      /\ UNCHANGED <<rows, images, watched, runs>>
  BY <1>1, PartTypes DEF AgentAccepts
<1>5. Fit(m, rows, jobs, images, runs) /\ \A i \in Tags : rows[i].run # m.run
  BY <1>0, <1>1 DEF Claims, Fit, Makes
<1>6. m.gone = {}
  BY <1>0, <1>1 DEF Chosen
<1>7. Fit(n, rows', jobs', images', runs')
  BY <1>1, <1>2, <1>4, <1>5, <1>6 DEF Fit, Makes, Books, Inserts, Holds
<1>8. ASSUME NEW b \in Actors \ {Loop} PROVE Fit(actors[b], rows', jobs', images', runs')
  <2> DEFINE o == actors[b]
  <2>1. o \in Acting /\ Chosen(o) /\ Fit(o, rows, jobs, images, runs) /\ Apart(o, m) /\ Apart(m, o)
    BY <1>0, ActTyped DEF Claims
  <2> HIDE DEF o, m
  <2>2. Makes(o) => o.run # m.run /\ o.run \in Runs
    BY <1>1, <2>1 DEF Apart, Makes, Chosen
  <2>3. \A g \in o.gone : g # 0 => g # m.run /\ g \in Runs
    BY <1>1, <2>1, TagsThere DEF Apart, Acting
  <2>4. o.op = "watch" => o.run # m.run /\ o.run \in Runs
    BY <1>1, <2>1 DEF Apart, Chosen
  <2>5. Fit(o, rows, jobs', images, runs)
    BY <1>4, <2>1, <2>2, <2>3, <2>4 DEF Fit, Makes, Books, Holds
  <2> QED BY <1>4, <2>5 DEF o
<1>9. \A b \in Actors \ {Loop} : Apart(actors[b], n) /\ Apart(n, actors[b])
  <2>1. Inserts(n) /\ Inserts(m) /\ Makes(m) /\ Makes(n)
    BY <1>1, <1>2 DEF Inserts, Makes
  <2> QED BY <1>0, <1>1, <1>2, <2>1 DEF Claims, Apart
<1>10. RowsFit(rows', jobs', images', runs')
  <2>1. \A i \in Tags : rows[i].run # 0 => jobs'[rows[i].run] = jobs[rows[i].run]
    BY <1>4, <1>5, PartTypes, TagsThere DEF Row
  <2>2. RowsFit(rows, jobs, images, runs)
    BY DEF Claims
  <2>3. RowsFit(rows, jobs', images, runs)
    BY <2>1, <2>2 DEF RowsFit, Final
  <2> QED BY <1>4, <2>3
<1>11. JobsFit(rows', jobs', actors', runs', watched'.polled)
  <2>1. actors'[Loop] = n /\ \A b \in Actors \ {Loop} : actors'[b] = actors[b]
    BY <1>0, <1>3, PartTypes DEF Become
  <2>2. m.run <= runs
    BY <1>5 DEF Fit
  <2>3. Books(actors'[Loop]) /\ ~Books(m)
    BY <1>1, <1>2, <2>1 DEF Books
  <2>4. \A r \in Runs : jobs'[r].status # "none" => r <= runs
    BY <1>4, <2>2 DEF Claims, JobsFit
  <2>5. \A r \in watched.polled : jobs'[r].status # "none"
    BY <1>4, PartTypes DEF Claims, JobsFit
  <2>6. ASSUME NEW r \in Runs, jobs'[r].status \in Active
        PROVE  \/ jobs'[r].tag \in Tags /\ rows[jobs'[r].tag].run = r /\ rows[jobs'[r].tag].status \in Active
               \/ \E a \in Actors : Books(actors'[a]) /\ actors'[a].run = r
    <3>1. CASE r = m.run
      BY <1>0, <1>2, <2>1, <2>3, <3>1
    <3>2. CASE r # m.run
      BY <1>4, <2>1, <2>3, <2>6, <3>2 DEF Claims, JobsFit
    <3> QED BY <3>1, <3>2
  <2> QED BY <1>4, <2>4, <2>5, <2>6 DEF JobsFit
<1> QED BY <1>0, <1>3, <1>7, <1>8, <1>9, <1>10, <1>11, OneMoves

LEMMA BookClaims ==
    ASSUME BuildsAssumption, BuildsTyped, Claims, BuildBook PROVE Claims'
<1> DEFINE m == actors[Loop]
           row == [NoRow EXCEPT !.run = m.run, !.status = "queued"]
<1>0. m \in Acting /\ Chosen(m) /\ Loop \in Actors /\ runs \in Nat
  BY ActTyped, PartTypes, TagsThere
<1>1. m.op = "build" /\ m.pc = "book" /\ m.run \in Runs /\ m.tag \in Tags
  BY <1>0 DEF BuildBook, Stands, Chosen
<1>2. /\ rows' = [rows EXCEPT ![m.tag] = row]
      /\ Become(Loop, Idle) /\ watched'.polled = watched.polled \cup {m.run}
      /\ UNCHANGED <<images, jobs, runs>>
  BY PartTypes DEF BuildBook, Done
<1>3. row.run = m.run /\ row.status = "queued"
  BY DEF NoRow
<1> HIDE DEF row
<1>4. Fit(m, rows, jobs, images, runs) /\ Books(m) /\ Inserts(m) /\ Makes(m)
  BY <1>0, <1>1 DEF Claims, Books, Inserts, Makes
<1>5. /\ rows'[m.tag].run = m.run /\ rows'[m.tag].status = "queued"
      /\ \A i \in Tags : i # m.tag => rows'[i] = rows[i]
  BY <1>1, <1>2, <1>3, PartTypes
<1>6. ASSUME NEW b \in Actors \ {Loop} PROVE Fit(actors[b], rows', jobs', images', runs')
  <2> DEFINE o == actors[b]
  <2>1. o \in Acting /\ Chosen(o) /\ Fit(o, rows, jobs, images, runs) /\ Apart(o, m) /\ Apart(m, o)
    BY <1>0, ActTyped DEF Claims
  <2> HIDE DEF o, m
  <2>2. Makes(o) => \A i \in Tags : rows'[i].run # o.run
    BY <1>4, <1>5, <2>1 DEF Fit, Apart
  <2>3. Inserts(o) => rows'[o.tag].status = "none"
    <3> SUFFICES ASSUME Inserts(o) PROVE rows'[o.tag].status = "none"
      OBVIOUS
    <3>1. o.tag # m.tag
      BY <1>4, <2>1 DEF Apart
    <3>2. o.tag \in Tags \/ o.tag \notin Tags
      OBVIOUS
    <3>3. rows'[o.tag] = rows[o.tag]
      BY <1>2, <3>1, PartTypes
    <3> QED BY <2>1, <3>3 DEF Fit
  <2> QED BY <1>2, <2>1, <2>2, <2>3 DEF Fit, o
<1>7. RowsFit(rows', jobs', images', runs')
  <2>1. m.run <= runs /\ m.run # 0 /\ jobs[m.run].tag = m.tag
    BY <1>1, <1>4, TagsThere DEF Fit
  <2>2. \A i \in Tags : rows[i].run # m.run
    BY <1>4 DEF Fit
  <2>3. jobs[m.run].status = "ok" => images[m.tag] \in {0, m.run}
    BY <1>4 DEF Fit
  <2>4. RowsFit(rows, jobs, images, runs)
    BY DEF Claims
  <2>5. RowsFit(rows', jobs, images, runs)
    BY <1>5, <2>1, <2>2, <2>3, <2>4 DEF RowsFit, Final
  <2> QED BY <1>2, <2>5
<1>8. JobsFit(rows', jobs', actors', runs', watched'.polled)
  <2>1. \A b \in Actors \ {Loop} : actors'[b] = actors[b]
    BY <1>2, PartTypes DEF Become
  <2>2. JobsFit(rows, jobs, actors, runs, watched.polled) /\ jobs[m.run].tag = m.tag
        /\ jobs[m.run].status # "none"
    BY <1>4 DEF Claims, Fit
  <2>3. ASSUME NEW r \in Runs, jobs[r].status \in Active
        PROVE  \/ jobs[r].tag \in Tags /\ rows'[jobs[r].tag].run = r /\ rows'[jobs[r].tag].status \in Active
               \/ \E a \in Actors : Books(actors'[a]) /\ actors'[a].run = r
    <3>1. CASE r = m.run
      BY <1>1, <1>5, <2>2, <3>1 DEF Active
    <3>2. CASE r # m.run
      <4>1. CASE jobs[r].tag \in Tags /\ rows[jobs[r].tag].run = r /\ rows[jobs[r].tag].status \in Active
        <5>1. jobs[r].tag # m.tag
          BY <1>4, <4>1 DEF Fit, Active
        <5> QED BY <1>5, <4>1, <5>1
      <4>2. CASE \E a \in Actors : Books(actors[a]) /\ actors[a].run = r
        BY <2>1, <3>2, <4>2
      <4> QED BY <2>2, <2>3, <4>1, <4>2 DEF JobsFit
    <3> QED BY <3>1, <3>2
  <2> QED BY <1>2, <2>2, <2>3 DEF JobsFit
<1> QED BY <1>0, <1>2, <1>6, <1>7, <1>8, IdleFits, IdleApart, OneMoves

LEMMA BuildClaims ==
    ASSUME BuildsAssumption, BuildsTyped, Claims, faults' = faults, Build PROVE Claims'
<1>a. Loop \in Actors
  BY TagsThere
<1>1. ASSUME NEW t \in Templates, BuildCheck(t) PROVE Claims'
  <2> DEFINE n == [Idle EXCEPT !.pc = "flush", !.op = "build", !.tag = <<t, NextVersion(t)>>, !.run = runs + 1]
  <2>1. n.pc = "flush" /\ n.op = "build" /\ n.run = runs + 1 /\ n.gone = {} /\ n.tag = <<t, NextVersion(t)>>
    BY DEF Idle
  <2>2. <<t, NextVersion(t)>> \in Tags /\ runs + 1 \in Runs
    BY <1>1, VersionTyped, PartTypes DEF BuildCheck, Runs, BuildsAssumption
  <2>3. n \in TypedActs
    <3> HIDE DEF NextVersion
    <3> QED BY <2>2, TagsThere DEF Idle, TypedActs, Acting, Chosen
  <2>4. ~Books(actors[Loop])
    BY <1>1 DEF BuildCheck, Free, Books
  <2>5. Become(Loop, n)
    BY <1>1 DEF BuildCheck
  <2> HIDE DEF n
  <2>6. Makes(n) /\ ~Inserts(n) /\ ~Books(n) /\ ~Holds(n)
    BY <2>1 DEF Makes, Inserts, Books, Holds
  <2> QED BY <1>1, <1>a, <2>1, <2>2, <2>3, <2>4, <2>5, <2>6, NewRun DEF BuildCheck
<1>2. CASE AgentAccepts
  BY <1>2, AcceptClaims
<1>3. CASE AgentRefuses
  BY <1>3, <1>a, LeavesOff DEF AgentRefuses, Stands, Books
<1>4. CASE BuildBook
  BY <1>4, BookClaims
<1>5. CASE BuildAnswerLost
  <2>1. faults \in Nat
    BY PartTypes
  <2> QED BY <1>5, <2>1 DEF BuildAnswerLost, Fault
<1> QED BY <1>1, <1>2, <1>3, <1>4, <1>5 DEF Build

LEMMA NoneMoves ==
    ASSUME BuildsTyped, Claims, UNCHANGED actors,
           \A b \in Actors : Fit(actors[b], rows', jobs', images', runs'),
           RowsFit(rows', jobs', images', runs'),
           JobsFit(rows', jobs', actors, runs', watched'.polled)
    PROVE  Claims'
BY DEF Claims

LEMMA Numbers ==
    ASSUME BuildsAssumption, NEW m \in TypedActs
    PROVE  /\ m.op \in {"build", "freeze", "watch"} => m.run \in Runs
           /\ \A g \in m.gone : g # 0 => g \in Runs
BY TagsThere DEF TypedActs, Acting, Chosen

\* A build that goes on or fails changes nothing of what is held.
LEMMA JobGoesOn ==
    ASSUME BuildsAssumption, BuildsTyped, Claims, NEW r \in Runs, NEW s \in {"building", "failed"},
           jobs[r].status \in Active, jobs' = [jobs EXCEPT ![r].status = s],
           UNCHANGED <<rows, images, watched, actors, runs>>
    PROVE  Claims'
<1>1. /\ \A x \in Runs : jobs'[x].tag = jobs[x].tag
      /\ \A x \in Runs : jobs'[x].status = IF x = r THEN s ELSE jobs[x].status
  BY PartTypes DEF Jobs
<1>2. ASSUME NEW b \in Actors PROVE Fit(actors[b], rows, jobs', images, runs)
  <2> DEFINE o == actors[b]
  <2>1. o \in TypedActs /\ Fit(o, rows, jobs, images, runs)
    BY ActTyped DEF Claims
  <2> HIDE DEF o
  <2>2. Makes(o) \/ o.op = "watch" => o.run \in Runs
    BY <2>1, Numbers DEF Makes
  <2>3. Makes(o) /\ ~Books(o) => jobs'[o.run].status = "none"
    BY <1>1, <2>1, <2>2 DEF Fit, Active
  <2>4. \A g \in o.gone : g <= runs /\ (g # 0 => jobs'[g].status \notin Active)
    BY <1>1, <2>1, Numbers DEF Fit, Active
  <2>5. o.op = "watch" => jobs'[o.run].status \notin Active
    BY <1>1, <2>1, <2>2 DEF Fit, Active
  <2>6. Books(o) => jobs'[o.run].status # "none" /\ jobs'[o.run].tag = o.tag
                    /\ (jobs'[o.run].status = "ok" => jobs[o.run].status = "ok")
    BY <1>1, <2>1, <2>2 DEF Fit, Books, Makes
  <2>7. Fit(o, rows, jobs', images, runs)
    BY <2>1, <2>3, <2>4, <2>5, <2>6 DEF Fit
  <2> QED BY <2>7 DEF o
<1>3. RowsFit(rows, jobs', images, runs)
  <2>1. RowsFit(rows, jobs, images, runs)
    BY DEF Claims
  <2>2. \A i \in Tags : rows[i].status # "none" => rows[i].run \in Runs
    BY <2>1, PartTypes, TagsThere DEF RowsFit, Row
  <2>3. \A i \in Tags : rows[i].status \in Final => jobs'[rows[i].run].status \notin Active
    BY <1>1, <2>1, <2>2 DEF RowsFit, Final, Active
  <2> QED BY <1>1, <2>1, <2>2, <2>3 DEF RowsFit, Active
<1>4. JobsFit(rows, jobs', actors, runs, watched.polled)
  <2>1. JobsFit(rows, jobs, actors, runs, watched.polled) /\ watched.polled \subseteq Runs
    BY PartTypes DEF Claims
  <2>2. \A x \in Runs : jobs'[x].status \in Active => jobs[x].status \in Active
    BY <1>1 DEF Active
  <2>3. \A x \in Runs : jobs'[x].status # "none" <=> jobs[x].status # "none"
    BY <1>1 DEF Active
  <2> QED BY <1>1, <2>1, <2>2, <2>3 DEF JobsFit
<1> QED BY <1>2, <1>3, <1>4, NoneMoves

\* The agent writes an image under its own tag only.
LEMMA JobMakesImage ==
    ASSUME BuildsAssumption, BuildsTyped, Claims, NEW r \in Runs, JobEnds(r, "ok")
    PROVE  Claims'
<1> DEFINE t == jobs[r].tag
<1>0. /\ jobs[r].status = "building" /\ jobs' = [jobs EXCEPT ![r].status = "ok"]
      /\ images' = [images EXCEPT ![t] = r]
      /\ UNCHANGED <<rows, watched, actors, runs>>
  BY DEF JobEnds
<1>1. /\ \A x \in Runs : jobs'[x].tag = jobs[x].tag
      /\ \A x \in Runs : jobs'[x].status = IF x = r THEN "ok" ELSE jobs[x].status
  BY <1>0, PartTypes DEF Jobs
<1>2. \A i \in Tags : images'[i] = IF i = t THEN r ELSE images[i]
  BY <1>0, PartTypes
<1>3. \/ rows[t].run = r /\ rows[t].status # "none"
      \/ \E a \in Actors : Books(actors[a]) /\ actors[a].run = r /\ actors[a].tag = t
                           /\ rows[t].status = "none"
  <2>1. \/ rows[t].run = r /\ rows[t].status \in Active
        \/ \E a \in Actors : Books(actors[a]) /\ actors[a].run = r
    BY <1>0 DEF Claims, JobsFit, Active
  <2>2. \A a \in Actors : Books(actors[a]) => Inserts(actors[a]) /\ Fit(actors[a], rows, jobs, images, runs)
    BY DEF Claims, Books, Inserts
  <2> QED BY <2>1, <2>2 DEF Fit, Active
<1> HIDE DEF t
<1>4. ASSUME NEW b \in Actors, Inserts(actors[b]), actors[b].tag = t
      PROVE  Books(actors[b]) /\ actors[b].run = r
  <2>1. rows[t].status = "none"
    BY <1>4 DEF Claims, Fit
  <2>2. PICK a \in Actors : Books(actors[a]) /\ actors[a].run = r /\ actors[a].tag = t
    BY <1>3, <2>1
  <2>3. Inserts(actors[a])
    BY <2>2 DEF Books, Inserts
  <2>4. a = b
    BY <1>4, <2>2, <2>3 DEF Claims, Apart
  <2> QED BY <2>2, <2>4
<1>5. ASSUME NEW b \in Actors PROVE Fit(actors[b], rows, jobs', images', runs)
  <2> DEFINE o == actors[b]
  <2>1. o \in TypedActs /\ Fit(o, rows, jobs, images, runs)
    BY ActTyped DEF Claims
  <2>a. Inserts(o) /\ o.tag = t => Books(o) /\ o.run = r
    BY <1>4
  <2> HIDE DEF o
  <2>2. Makes(o) \/ o.op = "watch" => o.run \in Runs
    BY <2>1, Numbers DEF Makes
  <2>3. Makes(o) /\ ~Books(o) => jobs'[o.run].status = "none"
    BY <1>0, <1>1, <2>1, <2>2 DEF Fit
  <2>4. \A g \in o.gone : g <= runs /\ (g # 0 => jobs'[g].status \notin Active)
    BY <1>1, <2>1, Numbers DEF Fit, Active
  <2>5. o.op = "watch" => jobs'[o.run].status \notin Active
    BY <1>1, <2>1, <2>2 DEF Fit, Active
  <2>6. Books(o) => jobs'[o.run].status # "none" /\ jobs'[o.run].tag = o.tag
    BY <1>1, <2>1, <2>2 DEF Fit, Books, Makes
  <2>7. (Books(o) /\ jobs'[o.run].status = "ok") \/ Holds(o) => images'[o.tag] \in {0, o.run}
    <3> SUFFICES ASSUME (Books(o) /\ jobs'[o.run].status = "ok") \/ Holds(o)
                 PROVE  images'[o.tag] \in {0, o.run}
      OBVIOUS
    <3>1. Inserts(o) /\ o.tag \in Tags
      BY <2>1 DEF Books, Holds, Inserts, TypedActs, Chosen
    <3>2. CASE o.tag = t
      BY <1>2, <2>a, <3>1, <3>2
    <3>3. CASE o.tag # t
      <4>1. images'[o.tag] = images[o.tag]
        BY <1>2, <3>1, <3>3
      <4>2. CASE Holds(o)
        BY <2>1, <4>1, <4>2 DEF Fit
      <4>3. CASE Books(o) /\ jobs'[o.run].status = "ok"
        <5>1. o.run # r
          BY <2>1, <3>3, <4>3 DEF Fit, t
        <5>2. jobs[o.run].status = "ok"
          BY <1>1, <2>2, <4>3, <5>1 DEF Books, Makes
        <5> QED BY <2>1, <4>1, <4>3, <5>2 DEF Fit
      <4> QED BY <4>2, <4>3
    <3> QED BY <3>2, <3>3
  <2>8. Fit(o, rows, jobs', images', runs)
    BY <2>1, <2>3, <2>4, <2>5, <2>6, <2>7 DEF Fit
  <2> QED BY <2>8 DEF o
<1>6. RowsFit(rows, jobs', images', runs)
  <2>1. RowsFit(rows, jobs, images, runs)
    BY DEF Claims
  <2>2. \A i \in Tags : rows[i].status # "none" => rows[i].run \in Runs
    BY <2>1, PartTypes, TagsThere DEF RowsFit, Row
  <2>3. \A i \in Tags : rows[i].status \in Final => jobs'[rows[i].run].status \notin Active
    BY <1>1, <2>1, <2>2 DEF RowsFit, Final, Active
  <2>4. \A i \in Tags : rows[i].status # "none" /\ jobs'[rows[i].run].status # "none" => jobs'[rows[i].run].tag = i
    BY <1>0, <1>1, <2>1, <2>2 DEF RowsFit
  <2>5. ASSUME NEW i \in Tags, rows[i].status # "none",
               rows[i].status = "ok" \/ jobs'[rows[i].run].status = "ok"
        PROVE  images'[i] \in {0, rows[i].run}
    <3>1. CASE i = t
      BY <1>2, <1>3, <2>5, <3>1
    <3>2. CASE i # t
      <4>1. rows[i].run # r
        BY <1>0, <2>1, <2>5, <3>2 DEF RowsFit, t
      <4>2. jobs'[rows[i].run] = jobs[rows[i].run]
        BY <1>0, <2>2, <2>5, <4>1, PartTypes
      <4> QED BY <1>2, <2>1, <2>5, <3>2, <4>2 DEF RowsFit
    <3> QED BY <3>1, <3>2
  <2> QED BY <2>1, <2>3, <2>4, <2>5 DEF RowsFit
<1>7. JobsFit(rows, jobs', actors, runs, watched.polled)
  <2>1. JobsFit(rows, jobs, actors, runs, watched.polled) /\ watched.polled \subseteq Runs
    BY PartTypes DEF Claims
  <2>2. \A x \in Runs : jobs'[x].status \in Active => jobs[x].status \in Active
    BY <1>1 DEF Active
  <2>3. \A x \in Runs : jobs'[x].status # "none" <=> jobs[x].status # "none"
    BY <1>0, <1>1
  <2> QED BY <1>1, <2>1, <2>2, <2>3 DEF JobsFit
<1> QED BY <1>0, <1>5, <1>6, <1>7, NoneMoves

\* Rows that change their status, but not their run.
LEMMA StatusFits ==
    ASSUME BuildsAssumption, BuildsTyped, Claims, NEW R \in [Tags -> Row],
           \A i \in Tags : /\ R[i].run = rows[i].run
                           /\ R[i].status = "none" <=> rows[i].status = "none"
                           /\ R[i].status \in Final => jobs[rows[i].run].status \notin Active
                           /\ R[i].status = "ok" => rows[i].status = "ok" \/ jobs[rows[i].run].status = "ok"
                           /\ rows[i].status \in Active /\ jobs[rows[i].run].status \in Active
                              => R[i].status \in Active
    PROVE  /\ \A b \in Actors : Fit(actors[b], R, jobs, images, runs)
           /\ RowsFit(R, jobs, images, runs)
           /\ \A A, P : JobsFit(rows, jobs, A, runs, P) => JobsFit(R, jobs, A, runs, P)
<1>1. ASSUME NEW b \in Actors PROVE Fit(actors[b], R, jobs, images, runs)
  <2> DEFINE o == actors[b]
  <2>1. o \in TypedActs /\ Fit(o, rows, jobs, images, runs)
    BY ActTyped DEF Claims
  <2> HIDE DEF o
  <2>2. Inserts(o) => o.tag \in Tags
    BY <2>1 DEF Inserts, TypedActs, Chosen
  <2>3. Inserts(o) => R[o.tag].status = "none"
    BY <2>1, <2>2 DEF Fit
  <2>4. Fit(o, R, jobs, images, runs)
    BY <2>1, <2>3 DEF Fit
  <2> QED BY <2>4 DEF o
<1>2. RowsFit(R, jobs, images, runs)
  <2>1. RowsFit(rows, jobs, images, runs)
    BY DEF Claims
  <2> QED BY <2>1 DEF RowsFit
<1>3. ASSUME NEW A, NEW P, JobsFit(rows, jobs, A, runs, P) PROVE JobsFit(R, jobs, A, runs, P)
  BY <1>3 DEF JobsFit
<1> QED BY <1>1, <1>2, <1>3

\* Rows that are deleted, of runs nobody works on any more.
LEMMA DeletedFits ==
    ASSUME BuildsAssumption, NEW Q \in [Tags -> Row], NEW R \in [Tags -> Row], NEW J, NEW I, NEW k \in Nat,
           RowsFit(Q, J, I, k),
           \A i \in Tags : R[i] = Q[i] \/ (R[i] = NoRow /\ J[Q[i].run].status \notin Active)
                           \/ (R[i] = NoRow /\ Q[i].run = 0)
    PROVE  /\ \A b \in TypedActs : Fit(b, Q, J, I, k) => Fit(b, R, J, I, k)
           /\ RowsFit(R, J, I, k)
           /\ \A A, P : JobsFit(Q, J, A, k, P) => JobsFit(R, J, A, k, P)
<1>0. NoRow.run = 0 /\ NoRow.status = "none" /\ 0 <= k
  BY DEF NoRow
<1>1. ASSUME NEW b \in TypedActs, Fit(b, Q, J, I, k) PROVE Fit(b, R, J, I, k)
  <2>1. Makes(b) => \A i \in Tags : R[i].run # b.run
    BY <1>0, <1>1, Numbers, TagsThere DEF Fit, Makes
  <2>2. Inserts(b) => b.tag \in Tags
    BY <1>1 DEF Inserts, TypedActs, Chosen
  <2>3. Inserts(b) => R[b.tag].status = "none"
    BY <1>0, <1>1, <2>2 DEF Fit
  <2> QED BY <1>1, <2>1, <2>3 DEF Fit
<1>2. RowsFit(R, J, I, k)
  BY <1>0 DEF RowsFit, Final
<1>3. ASSUME NEW A, NEW P, JobsFit(Q, J, A, k, P) PROVE JobsFit(R, J, A, k, P)
  <2>1. ASSUME NEW r \in Runs, J[r].status \in Active, J[r].tag \in Tags, Q[J[r].tag].run = r
        PROVE  R[J[r].tag] = Q[J[r].tag]
    BY <2>1, TagsThere
  <2> QED BY <1>3, <2>1 DEF JobsFit
<1> QED BY <1>1, <1>2, <1>3

LEMMA PolledFewer ==
    ASSUME BuildsTyped, NEW R, NEW J, NEW k, NEW P, NEW Q, Q \subseteq P, JobsFit(R, J, actors, k, P),
           \/ UNCHANGED actors
           \/ \E a \in Actors, n \in TypedActs : Become(a, n) /\ ~Books(actors[a])
    PROVE  JobsFit(R, J, actors', k, Q)
<1>1. ASSUME NEW b \in Actors, Books(actors[b]) PROVE actors'[b] = actors[b]
  BY <1>1, PartTypes DEF Become
<1> QED BY <1>1 DEF JobsFit

\* A step that changes the status of rows only.
LEMMA StatusClaims ==
    ASSUME BuildsAssumption, BuildsTyped, Claims, UNCHANGED <<jobs, images, actors, runs>>,
           rows' \in [Tags -> Row], watched'.polled \subseteq watched.polled,
           \A i \in Tags : /\ rows'[i].run = rows[i].run
                           /\ rows'[i].status = rows[i].status
                              \/ (rows[i].status = "ok" /\ rows'[i].status = "failed")
    PROVE  Claims'
<1>0. RowsFit(rows, jobs, images, runs) /\ JobsFit(rows, jobs, actors, runs, watched.polled)
  BY DEF Claims
<1>1. \A i \in Tags : /\ rows'[i].run = rows[i].run
                      /\ rows'[i].status = "none" <=> rows[i].status = "none"
                      /\ rows'[i].status \in Final => jobs[rows[i].run].status \notin Active
                      /\ rows'[i].status = "ok" => rows[i].status = "ok" \/ jobs[rows[i].run].status = "ok"
                      /\ rows[i].status \in Active /\ jobs[rows[i].run].status \in Active
                         => rows'[i].status \in Active
  BY <1>0 DEF RowsFit, Final, Active
<1>2. /\ \A b \in Actors : Fit(actors[b], rows', jobs, images, runs)
      /\ RowsFit(rows', jobs, images, runs)
      /\ \A A, P : JobsFit(rows, jobs, A, runs, P) => JobsFit(rows', jobs, A, runs, P)
  BY <1>1, StatusFits
<1>3. JobsFit(rows', jobs, actors, runs, watched.polled)
  BY <1>0, <1>2
<1>4. JobsFit(rows', jobs, actors', runs, watched'.polled)
  BY <1>3, PolledFewer
<1> QED BY <1>2, <1>4, NoneMoves

LEMMA VerifyClaims ==
    ASSUME BuildsAssumption, BuildsTyped, Claims, NEW r \in Runs, Verify(r) PROVE Claims'
<1>1. \A i \in Tags : /\ [rows[i] EXCEPT !.status = "failed"] \in Row
                      /\ [rows[i] EXCEPT !.status = "failed"].run = rows[i].run
                      /\ [rows[i] EXCEPT !.status = "failed"].status = "failed"
  BY PartTypes DEF Row
<1>2. rows' \in [Tags -> Row]
  BY <1>1, PartTypes DEF Verify
<1>3. \A i \in Tags : /\ rows'[i].run = rows[i].run
                      /\ rows'[i].status = rows[i].status
                         \/ (rows[i].status = "ok" /\ rows'[i].status = "failed")
  BY <1>1 DEF Verify
<1>4. watched'.polled = watched.polled
  BY PartTypes DEF Verify
<1> QED BY <1>2, <1>3, <1>4, StatusClaims DEF Verify

\* The answer of the agent is written to the row of the run.
LEMMA WatchClaims ==
    ASSUME BuildsAssumption, BuildsTyped, Claims, NEW r \in Runs, Watch(r) PROVE Claims'
<1>0. /\ Loop \in Actors /\ runs \in Nat /\ rows \in [Tags -> Row] /\ jobs[r].status \in JobStates
      /\ watched.polled \subseteq Runs /\ 0 \notin Runs
  BY PartTypes, TagsThere DEF Jobs
<1>a. jobs[r].status \notin {"none", "lost"}
  BY DEF Watch, Polled, Claims, JobsFit
<1>b. UNCHANGED <<jobs, images, runs>>
  BY DEF Watch, Polled
<1>c. ~Books(actors[Loop])
  BY DEF Watch, Polled, Free, Books
<1>1. CASE RowOf(r) = {}
  <2>1. UNCHANGED <<rows, actors>> /\ watched'.polled \subseteq watched.polled
    BY <1>1, PartTypes DEF Watch, Polled
  <2> QED BY <1>0, <1>b, <2>1, StatusClaims
<1>2. CASE RowOf(r) # {}
  <2> DEFINE i == CHOOSE i \in RowOf(r) : TRUE
             s == jobs[r].status
             n == [Idle EXCEPT !.pc = "read", !.op = "watch", !.tag = i, !.run = r,
                               !.spared = ImageOf(i[1]), !.known = {i[2]}]
  <2>1. i \in Tags /\ rows[i].run = r
    BY <1>2 DEF RowOf
  <2>2. rows' = [rows EXCEPT ![i].status = s, ![i].image = (s = "ok")]
    BY <1>2 DEF Watch, Polled
  <2>3. \/ s \in Final /\ Become(Loop, n) /\ watched' = [watched EXCEPT !.polled = @ \ {r}]
        \/ UNCHANGED <<watched, actors>>
    BY <1>2 DEF Watch, Polled, Final
  <2>4. n.op = "watch" /\ n.pc = "read" /\ n.run = r /\ n.gone = {}
    BY DEF Idle
  <2>5. n \in TypedActs
    <3>1. ImageOf(i[1]) \in SUBSET Versions /\ {i[2]} \in SUBSET Versions
      BY <2>1, TagParts DEF ImageOf
    <3> HIDE DEF i, ImageOf
    <3> QED BY <2>1, <3>1, TagsThere DEF Idle, TypedActs, Acting, Chosen
  <2> HIDE DEF i, n
  <2>6. rows' \in [Tags -> Row]
    <3>1. s \in {"none", "queued", "building", "ok", "failed"}
      BY <1>0, <1>a DEF JobStates, Active, Final
    <3> HIDE DEF s
    <3> QED BY <1>0, <2>1, <2>2, <3>1, RowAt
  <2>7. /\ \A j \in Tags : rows'[j].run = rows[j].run
        /\ \A j \in Tags : rows'[j].status = IF j = i THEN s ELSE rows[j].status
    BY <1>0, <2>1, <2>2 DEF Row
  <2>8. RowsFit(rows, jobs, images, runs) /\ JobsFit(rows, jobs, actors, runs, watched.polled)
    BY DEF Claims
  <2>9. \A j \in Tags : /\ rows'[j].run = rows[j].run
                        /\ rows'[j].status = "none" <=> rows[j].status = "none"
                        /\ rows'[j].status \in Final => jobs[rows[j].run].status \notin Active
                        /\ rows'[j].status = "ok" => rows[j].status = "ok" \/ jobs[rows[j].run].status = "ok"
                        /\ rows[j].status \in Active /\ jobs[rows[j].run].status \in Active
                           => rows'[j].status \in Active
    <3>1. r # 0
      BY <1>0
    <3> QED BY <1>a, <2>1, <2>7, <2>8, <3>1 DEF RowsFit, Final, Active
  <2>10. /\ \A b \in Actors : Fit(actors[b], rows', jobs, images, runs)
         /\ RowsFit(rows', jobs, images, runs)
         /\ \A A, P : JobsFit(rows, jobs, A, runs, P) => JobsFit(rows', jobs, A, runs, P)
    BY <2>6, <2>9, StatusFits
  <2>11. JobsFit(rows', jobs, actors, runs, watched.polled)
    BY <2>8, <2>10
  <2>12. watched'.polled \subseteq watched.polled
    BY <2>3, PartTypes
  <2>13. JobsFit(rows', jobs, actors', runs, watched'.polled)
    BY <1>0, <1>c, <2>3, <2>5, <2>11, <2>12, PolledFewer
  <2>14. CASE UNCHANGED <<watched, actors>>
    BY <1>b, <2>10, <2>13, <2>14, NoneMoves
  <2>15. CASE s \in Final /\ Become(Loop, n)
    <3>1. r <= runs
      BY <2>1, <2>8 DEF RowsFit
    <3>2. Fit(n, rows', jobs, images, runs)
      BY <2>4, <2>15, <3>1 DEF Fit, Makes, Inserts, Books, Holds, Final, Active
    <3>3. ASSUME NEW b \in Actors \ {Loop} PROVE Apart(actors[b], n) /\ Apart(n, actors[b])
      <4>1. actors[b].op = "build" => actors[b].run # r
        BY <2>1 DEF Claims, Fit, Makes
      <4> QED BY <2>4, <4>1 DEF Apart, Makes, Inserts
    <3> QED BY <1>0, <1>b, <2>10, <2>13, <2>15, <3>2, <3>3, OneMoves
  <2> QED BY <2>3, <2>14, <2>15
<1> QED BY <1>1, <1>2

\* An insert waits for any other one of its version.
LEMMA FlushClaims ==
    ASSUME BuildsAssumption, BuildsTyped, Claims, NEW a \in Actors, Flush(a) PROVE Claims'
<1> DEFINE m == actors[a]
           pc == IF m.op = "build" THEN "call" ELSE "commit"
           n == [m EXCEPT !.pc = pc]
<1>0. m \in Acting /\ runs \in Nat /\ m.pc = "flush" /\ UNCHANGED <<rows, jobs, images, watched, runs>>
  BY ActTyped, PartTypes DEF Flush
<1>1. ~Books(m)
  BY <1>0 DEF Books
<1>2. CASE Done(a)
  BY <1>0, <1>1, <1>2, LeavesOff
<1>3. CASE rows[m.tag].status = "none" /\ GoesTo(a, pc)
  <2>0. n.pc = pc /\ n.op = m.op /\ n.run = m.run /\ n.gone = m.gone /\ n.tag = m.tag
    <3> HIDE DEF m, pc
    <3> QED BY <1>0 DEF Acting
  <2>1. ~Books(n) /\ ~Holds(n) /\ ~Inserts(m) /\ ~Holds(m) /\ (Makes(n) <=> Makes(m))
    BY <1>0, <2>0 DEF Books, Holds, Inserts, Makes
  <2>2. Become(a, n)
    BY <1>3 DEF GoesTo
  <2> HIDE DEF n
  <2>3. Fit(m, rows, jobs, images, runs)
    BY DEF Claims
  <2>4. Fit(n, rows, jobs, images, runs)
    <3> HIDE DEF m
    <3> QED BY <1>1, <1>3, <2>0, <2>1, <2>3 DEF Fit
  <2>5. ASSUME NEW b \in Actors \ {a} PROVE Apart(actors[b], n) /\ Apart(n, actors[b])
    <3>1. Inserts(actors[b]) => actors[b].tag # m.tag
      BY DEF Flush, Inserted, Inserts
    <3>2. Apart(actors[b], m) /\ Apart(m, actors[b])
      BY DEF Claims
    <3> HIDE DEF m
    <3> QED BY <2>0, <2>1, <3>1, <3>2 DEF Apart
  <2> QED BY <1>0, <1>1, <2>2, <2>4, <2>5, MovesOn
<1> QED BY <1>2, <1>3 DEF Flush

\* The rows a pruning deletes are of runs that are done.
LEMMA ReadClaims ==
    ASSUME BuildsAssumption, BuildsTyped, Claims, NEW a \in Actors, PruneRead(a) PROVE Claims'
<1> DEFINE m == actors[a]
           t == m.tag[1]
           finished == {v \in RowsOf(t) : rows[<<t, v>>].status \in {"ok", "failed"}} \cup {m.tag[2]}
           old == {v \in finished : Cardinality({w \in finished : w > v}) >= Keep}
           spared == m.spared \cup (CurrentOf(t) \ m.known)
           gone == {IF v = m.tag[2] THEN m.run ELSE rows[<<t, v>>].run : v \in old \ spared}
           n == [m EXCEPT !.pc = "check", !.list = old \ spared, !.gone = gone]
<1>0. /\ m \in Acting /\ Chosen(m) /\ runs \in Nat /\ m.pc = "read"
      /\ UNCHANGED <<rows, jobs, images, watched, runs>>
  BY ActTyped, PartTypes DEF PruneRead
<1>1. m.op \in {"watch", "freeze"} /\ m.tag \in Tags /\ ~Books(m)
  BY <1>0 DEF Chosen, Books
<1>2. Become(a, n)
  BY DEF PruneRead
<1>3. n.pc = "check" /\ n.op = m.op /\ n.run = m.run /\ n.gone = gone /\ n.tag = m.tag
  <2> HIDE DEF m, old, spared, gone
  <2> QED BY <1>0 DEF Acting
<1>4. \A g \in gone : g = m.run \/ \E i \in Tags : rows[i].status \in Final /\ g = rows[i].run
  <2> SUFFICES ASSUME NEW v \in old, v # m.tag[2]
               PROVE  <<t, v>> \in Tags /\ rows[<<t, v>>].status \in Final
    OBVIOUS
  <2>1. v \in RowsOf(t) /\ rows[<<t, v>>].status \in Final
    BY DEF Final
  <2> QED BY <1>1, <2>1, TagParts DEF RowsOf, Tags
<1> HIDE DEF gone, n
<1>5. Fit(m, rows, jobs, images, runs) /\ RowsFit(rows, jobs, images, runs)
  BY DEF Claims
<1>6. \A g \in gone : g <= runs /\ (g # 0 => jobs[g].status \notin Active)
  <2>1. m.run <= runs /\ jobs[m.run].status \notin Active
    BY <1>1, <1>5 DEF Fit, Makes, Active
  <2> QED BY <1>4, <1>5, <2>1 DEF RowsFit
<1>7. /\ Inserts(n) <=> Inserts(m)
      /\ Holds(n) <=> Holds(m)
      /\ ~Books(n) /\ (Makes(n) <=> Makes(m))
  BY <1>0, <1>1, <1>3 DEF Books, Holds, Inserts, Makes
<1>8. Fit(n, rows, jobs, images, runs)
  <2> HIDE DEF m
  <2> QED BY <1>1, <1>3, <1>5, <1>6, <1>7 DEF Fit
<1>9. ASSUME NEW b \in Actors \ {a} PROVE Apart(actors[b], n) /\ Apart(n, actors[b])
  <2>1. Apart(actors[b], m) /\ Apart(m, actors[b]) /\ Fit(actors[b], rows, jobs, images, runs)
    BY DEF Claims
  <2>2. actors[b].op = "build" => actors[b].run # m.run /\ \A i \in Tags : rows[i].run # actors[b].run
    BY <1>1, <2>1 DEF Apart, Fit, Makes
  <2>3. actors[b].op = "build" => actors[b].run \notin gone
    BY <1>4, <2>2
  <2> HIDE DEF m
  <2> QED BY <1>1, <1>3, <1>7, <2>1, <2>3 DEF Apart
<1> QED BY <1>0, <1>1, <1>2, <1>8, <1>9, MovesOn

\* An image that is removed is no other run's.
LEMMA RemoveClaims ==
    ASSUME BuildsAssumption, BuildsTyped, Claims, NEW a \in Actors, NEW refused \in BOOLEAN,
           RemoveImage(a, refused)
    PROVE  Claims'
<1> DEFINE m == actors[a]
           n == [m EXCEPT !.pc = "check", !.list = @ \ {Max(m.list)}]
<1>0. /\ m \in Acting /\ Chosen(m) /\ runs \in Nat /\ m.pc = "remove"
      /\ Become(a, n) /\ UNCHANGED <<rows, jobs, watched, runs>>
  BY ActTyped, PartTypes DEF RemoveImage
<1>1. n.pc = "check" /\ n.op = m.op /\ n.run = m.run /\ n.gone = m.gone /\ n.tag = m.tag
  <2> HIDE DEF m
  <2> QED BY <1>0 DEF Acting
<1>2. \A i \in Tags : images'[i] \in {0, images[i]}
  BY PartTypes DEF RemoveImage
<1> HIDE DEF n
<1>3. ASSUME NEW o \in TypedActs, Fit(o, rows, jobs, images, runs)
      PROVE  Fit(o, rows, jobs, images', runs)
  <2>1. Books(o) \/ Holds(o) => o.tag \in Tags
    BY DEF Books, Holds, TypedActs, Chosen
  <2> QED BY <1>2, <1>3, <2>1 DEF Fit
<1>4. \A b \in Actors : Fit(actors[b], rows, jobs, images', runs)
  BY <1>3, ActTyped DEF Claims
<1>5. /\ Inserts(n) <=> Inserts(m)
      /\ Holds(n) <=> Holds(m)
      /\ ~Books(n) /\ ~Books(m) /\ (Makes(n) <=> Makes(m))
  BY <1>0, <1>1 DEF Books, Holds, Inserts, Makes
<1>6. Fit(n, rows, jobs, images', runs)
  <2>1. Fit(m, rows, jobs, images', runs)
    BY <1>4
  <2> HIDE DEF m
  <2> QED BY <1>1, <1>5, <2>1 DEF Fit
<1>7. ASSUME NEW b \in Actors \ {a} PROVE Apart(actors[b], n) /\ Apart(n, actors[b])
  <2>1. Apart(actors[b], m) /\ Apart(m, actors[b])
    BY DEF Claims
  <2> HIDE DEF m
  <2> QED BY <1>1, <1>5, <2>1 DEF Apart
<1>8. RowsFit(rows, jobs, images', runs)
  <2>1. RowsFit(rows, jobs, images, runs)
    BY DEF Claims
  <2> QED BY <1>2, <2>1 DEF RowsFit
<1>9. JobsFit(rows, jobs, actors', runs, watched.polled)
  <2>1. \A b \in Actors : Books(actors[b]) => actors'[b] = actors[b]
    BY <1>0, <1>5, PartTypes DEF Become
  <2> QED BY <2>1 DEF Claims, JobsFit
<1> QED BY <1>0, <1>4, <1>6, <1>7, <1>8, <1>9, OneMoves

\* A freeze books the row it has inserted.
LEMMA RowIsBooked ==
    ASSUME BuildsAssumption, BuildsTyped, Claims, NEW a \in Actors, NEW Q, NEW row \in Row,
           actors[a].op = "freeze", Inserts(actors[a]), row.run = actors[a].run,
           row.status = "failed" \/ (row.status = "ok" /\ Holds(actors[a])),
           Q = [rows EXCEPT ![actors[a].tag] = row]
    PROVE  /\ Q \in [Tags -> Row]
           /\ \A b \in Actors \ {a} : Fit(actors[b], Q, jobs, images, runs)
           /\ RowsFit(Q, jobs, images, runs)
           /\ JobsFit(Q, jobs, actors, runs, watched.polled)
<1> DEFINE m == actors[a]
<1>0. /\ m \in TypedActs /\ m.run \in Runs /\ m.tag \in Tags /\ Makes(m) /\ ~Books(m)
      /\ Fit(m, rows, jobs, images, runs) /\ rows \in [Tags -> Row]
  BY ActTyped, PartTypes, Numbers DEF Claims, Makes, Books, Inserts, Chosen
<1>1. /\ Q \in [Tags -> Row] /\ Q[m.tag] = row
      /\ \A i \in Tags : i # m.tag => Q[i] = rows[i]
  BY <1>0
<1>2. /\ m.run <= runs /\ m.run # 0 /\ jobs[m.run].status = "none" /\ rows[m.tag].status = "none"
      /\ \A i \in Tags : rows[i].run # m.run
      /\ Holds(m) => images[m.tag] \in {0, m.run}
  BY <1>0, TagsThere DEF Fit
<1>3. ASSUME NEW b \in Actors \ {a} PROVE Fit(actors[b], Q, jobs, images, runs)
  <2> DEFINE o == actors[b]
  <2>1. o \in TypedActs /\ Fit(o, rows, jobs, images, runs) /\ Apart(o, m)
    BY ActTyped DEF Claims
  <2>2. Inserts(o) => o.tag \in Tags
    BY <2>1 DEF Inserts, TypedActs, Chosen
  <2> HIDE DEF o, m
  <2>3. Makes(o) => \A i \in Tags : Q[i].run # o.run
    BY <1>0, <1>1, <2>1 DEF Fit, Apart, m
  <2>4. Inserts(o) => Q[o.tag].status = "none"
    BY <1>0, <1>1, <2>1, <2>2 DEF Fit, Apart, m
  <2>5. Fit(o, Q, jobs, images, runs)
    BY <2>1, <2>3, <2>4 DEF Fit
  <2> QED BY <2>5 DEF o
<1>4. RowsFit(Q, jobs, images, runs)
  <2>1. RowsFit(rows, jobs, images, runs)
    BY DEF Claims
  <2> HIDE DEF m
  <2>2. row.run = m.run /\ (row.status = "failed" \/ (row.status = "ok" /\ Holds(m)))
    BY DEF m
  <2> QED BY <1>1, <1>2, <2>1, <2>2 DEF RowsFit, Final, Active
<1>5. JobsFit(Q, jobs, actors, runs, watched.polled)
  <2>1. JobsFit(rows, jobs, actors, runs, watched.polled)
    BY DEF Claims
  <2> HIDE DEF m
  <2>2. \A r \in Runs : jobs[r].tag \in Tags /\ rows[jobs[r].tag].status \in Active => Q[jobs[r].tag] = rows[jobs[r].tag]
    BY <1>1, <1>2 DEF Active
  <2> QED BY <2>1, <2>2 DEF JobsFit
<1> QED BY <1>1, <1>3, <1>4, <1>5

\* The handler that has written rows is done.
LEMMA LastWrite ==
    ASSUME BuildsAssumption, BuildsTyped, Claims, NEW a \in Actors, Done(a), ~Books(actors[a]),
           UNCHANGED <<jobs, images, runs>>, watched'.polled = watched.polled,
           \A b \in Actors \ {a} : Fit(actors[b], rows', jobs, images, runs),
           RowsFit(rows', jobs, images, runs),
           JobsFit(rows', jobs, actors, runs, watched.polled)
    PROVE  Claims'
<1>0. runs \in Nat /\ Idle \in TypedActs /\ Become(a, Idle)
  BY PartTypes, IdleTyped DEF Done
<1>1. JobsFit(rows', jobs, actors', runs, watched.polled)
  BY <1>0, PolledFewer
<1> QED BY <1>0, <1>1, IdleFits, IdleApart, OneMoves

LEMMA CommitClaims ==
    ASSUME BuildsAssumption, BuildsTyped, Claims, NEW a \in Actors, PruneCommit(a) PROVE Claims'
<1> DEFINE m == actors[a]
           row == [run |-> m.run, status |-> "ok", image |-> TRUE, current |-> FALSE]
           Q == IF m.op = "freeze" THEN [rows EXCEPT ![m.tag] = row] ELSE rows
<1>0. /\ m \in TypedActs /\ runs \in Nat /\ m.pc = "check" /\ Done(a) /\ ~Books(m)
      /\ UNCHANGED <<jobs, images, runs>> /\ rows \in [Tags -> Row]
      /\ m.gone \subseteq 0 .. MaxRuns /\ m.run \in 0 .. MaxRuns
  BY ActTyped, PartTypes DEF PruneCommit, Books, Acting
<1>1. watched'.polled = watched.polled
  BY PartTypes DEF PruneCommit
<1>2. rows' = rows \/ rows' = Without(Q, m.gone)
  BY DEF PruneCommit
<1>3. /\ Q \in [Tags -> Row]
      /\ \A b \in Actors \ {a} : Fit(actors[b], Q, jobs, images, runs)
      /\ RowsFit(Q, jobs, images, runs)
      /\ JobsFit(Q, jobs, actors, runs, watched.polled)
  <2>1. CASE m.op = "freeze"
    <3>1. Inserts(m) /\ Holds(m)
      BY <1>0, <2>1 DEF Inserts, Holds
    <3>2. row \in Row /\ row.run = m.run /\ row.status = "ok"
      BY <1>0, RowTypes
    <3>3. Q = [rows EXCEPT ![m.tag] = row]
      BY <2>1
    <3> HIDE DEF row, Q
    <3> QED BY <2>1, <3>1, <3>2, <3>3, RowIsBooked
  <2>2. CASE m.op # "freeze"
    BY <1>0, <2>2 DEF Claims
  <2> QED BY <2>1, <2>2
<1> HIDE DEF Q
<1>4. CASE rows' = rows
  BY <1>0, <1>1, <1>4, LastWrite DEF Claims
<1>5. CASE rows' = Without(Q, m.gone)
  <2>1. rows' \in [Tags -> Row]
    BY <1>3, <1>5, WithoutTyped
  <2>2. \A g \in m.gone : g # 0 => jobs[g].status \notin Active
    BY DEF Claims, Fit
  <2>3. \A i \in Tags : rows'[i] = Q[i] \/ (rows'[i] = NoRow /\ jobs[Q[i].run].status \notin Active)
                        \/ (rows'[i] = NoRow /\ Q[i].run = 0)
    BY <1>5, <2>2 DEF Without
  <2>4. /\ \A b \in TypedActs : Fit(b, Q, jobs, images, runs) => Fit(b, rows', jobs, images, runs)
        /\ RowsFit(rows', jobs, images, runs)
        /\ \A A, P : JobsFit(Q, jobs, A, runs, P) => JobsFit(rows', jobs, A, runs, P)
    BY <1>0, <1>3, <2>1, <2>3, DeletedFits
  <2>5. \A b \in Actors \ {a} : Fit(actors[b], rows', jobs, images, runs)
    BY <1>3, <2>4, ActTyped
  <2>6. JobsFit(rows', jobs, actors, runs, watched.polled)
    BY <1>3, <2>4
  <2> QED BY <1>0, <1>1, <2>4, <2>5, <2>6, LastWrite
<1> QED BY <1>2, <1>4, <1>5

LEMMA PruneClaims ==
    ASSUME BuildsAssumption, BuildsTyped, Claims, NEW a \in Actors, Remove(a) PROVE Claims'
<1>1. CASE PruneRead(a)
  BY <1>1, ReadClaims
<1>2. CASE RemoveCheck(a)
  <2> DEFINE m == actors[a]
             v == Max(m.list)
  <2>0. m \in Acting /\ m.pc = "check" /\ UNCHANGED <<rows, jobs, images, watched, runs>>
    BY <1>2, ActTyped DEF RemoveCheck
  <2>1. PICK n \in {[m EXCEPT !.pc = "remove"], [m EXCEPT !.list = @ \ {v}]} : Become(a, n)
    BY <1>2 DEF RemoveCheck, GoesTo
  <2>2. /\ n.op = m.op /\ n.run = m.run /\ n.gone = m.gone /\ n.tag = m.tag
        /\ n.pc \in {"check", "remove"}
    <3> HIDE DEF m, v
    <3> QED BY <2>0 DEF Acting
  <2>3. /\ ~Books(n) /\ ~Books(m)
        /\ Inserts(n) => Inserts(m)
        /\ Holds(n) => Holds(m)
    BY <2>0, <2>2 DEF Books, Inserts, Holds
  <2> QED BY <2>0, <2>1, <2>2, <2>3, GoesOn
<1>3. CASE PruneCommit(a)
  BY <1>3, CommitClaims
<1>4. ASSUME NEW refused \in BOOLEAN, RemoveImage(a, refused) PROVE Claims'
  BY <1>4, RemoveClaims
<1> QED BY <1>1, <1>2, <1>3, <1>4 DEF Remove

\* A freeze makes the image of the tag its insert holds.
LEMMA FrozenClaims ==
    ASSUME BuildsAssumption, BuildsTyped, Claims, NEW a \in Actors, FreezeCommitted(a) PROVE Claims'
<1> DEFINE m == actors[a]
           n == [m EXCEPT !.pc = "read"]
<1>0. /\ m \in Acting /\ Chosen(m) /\ runs \in Nat /\ m.pc = "commit" /\ m.op = "freeze"
      /\ Become(a, n) /\ UNCHANGED <<rows, jobs, watched, runs>>
  BY ActTyped, PartTypes DEF FreezeCommitted, Stands, GoesTo
<1>1. n.pc = "read" /\ n.op = m.op /\ n.run = m.run /\ n.gone = m.gone /\ n.tag = m.tag
  <2> HIDE DEF m
  <2> QED BY <1>0 DEF Acting
<1>2. m.tag \in Tags /\ Inserts(m) /\ ~Books(m) /\ Inserts(n) /\ ~Books(n) /\ Makes(m) /\ Makes(n)
  BY <1>0, <1>1 DEF Chosen, Inserts, Books, Makes
<1>3. images' = [images EXCEPT ![m.tag] = m.run]
  BY DEF FreezeCommitted
<1>4. images'[m.tag] = m.run /\ \A i \in Tags : i # m.tag => images'[i] = images[i]
  BY <1>2, <1>3, PartTypes
<1>5. Fit(m, rows, jobs, images, runs) /\ RowsFit(rows, jobs, images, runs)
  BY DEF Claims
<1> HIDE DEF m, n
<1>6. Fit(n, rows, jobs, images', runs)
  BY <1>0, <1>1, <1>2, <1>4, <1>5 DEF Fit
<1>7. ASSUME NEW b \in Actors \ {a}
      PROVE  /\ Fit(actors[b], rows, jobs, images', runs)
             /\ Apart(actors[b], n) /\ Apart(n, actors[b])
  <2> DEFINE o == actors[b]
  <2>1. o \in TypedActs /\ Fit(o, rows, jobs, images, runs) /\ Apart(o, m) /\ Apart(m, o)
    BY ActTyped DEF Claims, m
  <2> HIDE DEF o
  <2>2. Books(o) \/ Holds(o) => o.tag \in Tags /\ Inserts(o)
    BY <2>1 DEF Books, Holds, Inserts, TypedActs, Chosen
  <2>3. Books(o) \/ Holds(o) => images'[o.tag] = images[o.tag]
    BY <1>2, <1>4, <2>1, <2>2 DEF Apart
  <2>4. Fit(o, rows, jobs, images', runs)
    BY <2>1, <2>3 DEF Fit
  <2>5. Apart(o, n) /\ Apart(n, o)
    BY <1>0, <1>1, <1>2, <2>1 DEF Apart
  <2> QED BY <2>4, <2>5 DEF o
<1>8. RowsFit(rows, jobs, images', runs)
  <2>1. \A i \in Tags : rows[i].status # "none" => images'[i] = images[i]
    BY <1>2, <1>4, <1>5 DEF Fit
  <2> QED BY <1>5, <2>1 DEF RowsFit
<1>9. JobsFit(rows, jobs, actors', runs, watched.polled)
  <2>1. \A b \in Actors : Books(actors[b]) => actors'[b] = actors[b]
    BY <1>0, <1>2, PartTypes DEF Become, m
  <2> QED BY <2>1 DEF Claims, JobsFit
<1> QED BY <1>0, <1>6, <1>7, <1>8, <1>9, OneMoves

LEMMA FreezeClaims ==
    ASSUME BuildsAssumption, BuildsTyped, Claims, NEW a \in Actors, faults' = faults, Freeze(a)
    PROVE  Claims'
<1>1. ASSUME NEW t \in Templates, FreezeCheck(a, t) PROVE Claims'
  <2> DEFINE n == [Idle EXCEPT !.pc = "preview", !.op = "freeze", !.tag = <<t, 0>>,
                               !.run = runs + 1, !.spared = ImageOf(t)]
  <2>1. runs + 1 \in Runs /\ ImageOf(t) \subseteq Versions
    BY <1>1, PartTypes DEF FreezeCheck, Runs, BuildsAssumption, ImageOf
  <2>2. n \in TypedActs
    <3> HIDE DEF ImageOf
    <3> QED BY <2>1, TagsThere DEF Idle, TypedActs, Acting, Chosen
  <2>3. n.pc = "preview" /\ n.op = "freeze" /\ n.run = runs + 1 /\ n.gone = {}
    BY DEF Idle
  <2>4. Become(a, n) /\ ~Books(actors[a])
    BY <1>1 DEF FreezeCheck, Free, Books
  <2> HIDE DEF n
  <2>5. Makes(n) /\ ~Inserts(n) /\ ~Books(n) /\ ~Holds(n)
    BY <2>3 DEF Makes, Inserts, Books, Holds
  <2> QED BY <1>1, <2>1, <2>2, <2>3, <2>4, <2>5, NewRun DEF FreezeCheck
<1>2. CASE FreezeMark(a)
  <2> DEFINE m == actors[a]
             t == m.tag[1]
             n == [m EXCEPT !.pc = "flush", !.tag = <<t, NextVersion(t)>>,
                            !.spared = @ \cup CurrentOf(t), !.known = RowsOf(t)]
  <2>0. /\ m \in Acting /\ m.pc = "preview" /\ Become(a, n)
        /\ UNCHANGED <<rows, jobs, images, watched, runs>>
    BY <1>2, ActTyped DEF FreezeMark, Stands
  <2>1. n.pc = "flush" /\ n.op = m.op /\ n.run = m.run /\ n.gone = m.gone
    <3> HIDE DEF m, NextVersion, CurrentOf, RowsOf
    <3> QED BY <2>0 DEF Acting
  <2> HIDE DEF n
  <2>2. ~Books(n) /\ ~Books(m) /\ ~Inserts(n) /\ ~Holds(n)
    BY <2>0, <2>1 DEF Books, Inserts, Holds
  <2> QED BY <2>0, <2>1, <2>2, GoesOn
<1>3. CASE FreezeRefused(a)
  BY <1>3, LeavesOff DEF FreezeRefused, Stands, Books
<1>4. CASE FreezeCommitted(a)
  BY <1>4, FrozenClaims
<1>5. CASE FreezeFails(a)
  <2> DEFINE m == actors[a]
             row == [NoRow EXCEPT !.run = m.run, !.status = "failed"]
  <2>0. /\ m.op = "freeze" /\ Inserts(m) /\ ~Books(m) /\ m.run \in 0 .. MaxRuns
        /\ Done(a) /\ UNCHANGED <<jobs, images, watched, runs>>
    BY <1>5, ActTyped DEF FreezeFails, Stands, Inserts, Books, Acting
  <2>1. row \in Row /\ row.run = m.run /\ row.status = "failed"
    BY <2>0, RowTypes DEF NoRow
  <2>2. rows' = [rows EXCEPT ![m.tag] = row]
    BY <1>5 DEF FreezeFails
  <2> HIDE DEF row
  <2>3. /\ \A b \in Actors \ {a} : Fit(actors[b], rows', jobs, images, runs)
        /\ RowsFit(rows', jobs, images, runs)
        /\ JobsFit(rows', jobs, actors, runs, watched.polled)
    BY <2>0, <2>1, <2>2, RowIsBooked
  <2> QED BY <2>0, <2>3, LastWrite
<1>6. CASE FreezeAnswerLost(a)
  <2>1. faults \in Nat
    BY PartTypes
  <2> QED BY <1>6, <2>1 DEF FreezeAnswerLost, Fault
<1> QED BY <1>1, <1>2, <1>3, <1>4, <1>5, <1>6 DEF Freeze

\* A handler that makes no image begins; the rows it is to delete are of runs that are done.
LEMMA TaskBegins ==
    ASSUME BuildsAssumption, BuildsTyped, Claims, NEW a \in Actors, NEW n, Become(a, n), Free(a),
           UNCHANGED <<rows, jobs, images, watched, runs>>,
           n.op \in {"delete", "clean", "duplicate"}, n.run = 0,
           \A g \in n.gone : \E i \in Tags : rows[i].status \in Final /\ g = rows[i].run
    PROVE  Claims'
<1>0. runs \in Nat /\ ~Books(actors[a])
  BY PartTypes DEF Free, Books
<1>1. ~Makes(n) /\ ~Inserts(n) /\ ~Books(n) /\ ~Holds(n) /\ n.op # "watch" /\ n.op # "build"
  BY DEF Makes, Inserts, Books, Holds
<1>2. RowsFit(rows, jobs, images, runs)
  BY DEF Claims
<1>3. Fit(n, rows, jobs, images, runs)
  BY <1>0, <1>1, <1>2 DEF Fit, RowsFit
<1>4. ASSUME NEW b \in Actors \ {a} PROVE Apart(actors[b], n) /\ Apart(n, actors[b])
  <2>1. actors[b].op = "build" => \A i \in Tags : rows[i].run # actors[b].run
    BY DEF Claims, Fit, Makes
  <2> QED BY <1>1, <2>1 DEF Apart
<1> QED BY <1>0, <1>3, <1>4, MovesOn

\* A template that the agent builds nothing for takes its rows along.
LEMMA TemplateGoes ==
    ASSUME BuildsAssumption, Calm, BuildsTyped, Claims, NEW a \in Actors, NEW t \in Templates,
           DeleteTemplate(a, t)
    PROVE  Claims'
<1>0. /\ rows \in [Tags -> Row] /\ runs \in Nat /\ UNCHANGED <<images, jobs, watched, actors, runs>>
      /\ RowsFit(rows, jobs, images, runs) /\ JobsFit(rows, jobs, actors, runs, watched.polled)
  BY PartTypes DEF DeleteTemplate, Claims
<1>1. rows' = [i \in Tags |-> IF i[1] = t THEN NoRow ELSE rows[i]] /\ rows' \in [Tags -> Row]
  BY <1>0, RowTypes DEF DeleteTemplate
<1>2. ASSUME NEW i \in Tags, i[1] = t, rows[i].run # 0 PROVE jobs[rows[i].run].status \notin Active
  <2> DEFINE r == rows[i].run
  <2>1. r \in Runs
    BY <1>0, <1>2, TagsThere DEF Row
  <2> SUFFICES ASSUME jobs[r].status \in Active PROVE FALSE
    OBVIOUS
  <2>2. CASE jobs[r].tag \in Tags /\ rows[jobs[r].tag].run = r
    <3>1. jobs[r].tag = i
      BY <1>0, <1>2, <2>2 DEF RowsFit
    <3> QED BY <1>2, <2>1, <3>1 DEF DeleteTemplate, Active
  <2>3. CASE \E b \in Actors : Books(actors[b]) /\ actors[b].run = r
    BY <1>2, <2>3 DEF Claims, Fit, Books, Makes
  <2> QED BY <1>0, <2>1, <2>2, <2>3 DEF JobsFit
<1>3. \A i \in Tags : rows'[i] = rows[i] \/ (rows'[i] = NoRow /\ jobs[rows[i].run].status \notin Active)
                      \/ (rows'[i] = NoRow /\ rows[i].run = 0)
  BY <1>1, <1>2
<1>4. /\ \A b \in TypedActs : Fit(b, rows, jobs, images, runs) => Fit(b, rows', jobs, images, runs)
      /\ RowsFit(rows', jobs, images, runs)
      /\ \A A, P : JobsFit(rows, jobs, A, runs, P) => JobsFit(rows', jobs, A, runs, P)
  BY <1>0, <1>1, <1>3, DeletedFits
<1>5. \A b \in Actors : Fit(actors[b], rows', jobs, images, runs)
  BY <1>4, ActTyped DEF Claims
<1>6. JobsFit(rows', jobs, actors, runs, watched.polled)
  BY <1>0, <1>4
<1> QED BY <1>0, <1>4, <1>5, <1>6, NoneMoves

LEMMA AdministerClaims ==
    ASSUME BuildsAssumption, Calm, BuildsTyped, Claims, NEW a \in Actors, Administer(a)
    PROVE  Claims'
<1>0. rows \in [Tags -> Row] /\ watched' = watched
  BY PartTypes DEF Administer, DeleteCheck, CleanCheck, Activate, DuplicateCheck, DuplicateCommit, DeleteTemplate,
                   UpdateTemplate
<1>1. ASSUME NEW i \in Tags, DeleteCheck(a, i) PROVE Claims'
  <2> DEFINE n == [Idle EXCEPT !.pc = "check", !.op = "delete", !.tag = i,
                               !.list = {i[2]}, !.gone = {rows[i].run}]
  <2>1. n.op = "delete" /\ n.run = 0 /\ n.gone = {rows[i].run} /\ rows[i].status \in Final
    BY <1>1 DEF Idle, DeleteCheck, Final
  <2>2. Become(a, n)
    BY <1>1 DEF DeleteCheck
  <2> HIDE DEF n
  <2> QED BY <1>1, <2>1, <2>2, TaskBegins DEF DeleteCheck
<1>2. ASSUME NEW i \in Tags, CleanCheck(a, i) PROVE Claims'
  <2> DEFINE n == [Idle EXCEPT !.pc = "remove", !.op = "clean", !.tag = i, !.list = {i[2]}]
  <2>1. n.op = "clean" /\ n.run = 0 /\ n.gone = {}
    BY DEF Idle
  <2>2. Become(a, n)
    BY <1>2 DEF CleanCheck
  <2> HIDE DEF n
  <2> QED BY <1>2, <2>1, <2>2, TaskBegins DEF CleanCheck
<1>3. ASSUME NEW i \in Tags, Activate(a, i) PROVE Claims'
  <2>1. \A j \in Tags, c \in BOOLEAN :
           /\ [rows[j] EXCEPT !.current = c] \in Row
           /\ [rows[j] EXCEPT !.current = c].run = rows[j].run
           /\ [rows[j] EXCEPT !.current = c].status = rows[j].status
    BY <1>0 DEF Row
  <2>2. rows' = [j \in Tags |-> IF j[1] = i[1] THEN [rows[j] EXCEPT !.current = (j = i)] ELSE rows[j]]
    BY <1>3 DEF Activate
  <2>3. \A j \in Tags : rows'[j] = rows[j] \/ \E c \in BOOLEAN : rows'[j] = [rows[j] EXCEPT !.current = c]
    BY <2>2
  <2>4. \A j \in Tags : rows'[j] \in Row /\ rows'[j].run = rows[j].run /\ rows'[j].status = rows[j].status
    BY <1>0, <2>1, <2>3
  <2>5. rows' \in [Tags -> Row]
    BY <2>2, <2>4
  <2> QED BY <1>0, <1>3, <2>4, <2>5, StatusClaims DEF Activate
<1>4. ASSUME NEW t \in Templates, NEW u \in Templates, DuplicateCheck(a, t, u) PROVE Claims'
  <2> DEFINE n == [Idle EXCEPT !.pc = "copy", !.op = "duplicate", !.tag = templates[t].image]
  <2>1. n.op = "duplicate" /\ n.run = 0 /\ n.gone = {}
    BY DEF Idle
  <2>2. Become(a, n)
    BY <1>4 DEF DuplicateCheck
  <2> HIDE DEF n
  <2> QED BY <1>4, <2>1, <2>2, TaskBegins DEF DuplicateCheck
<1>5. ASSUME NEW u \in Templates, DuplicateCommit(a, u) PROVE Claims'
  BY <1>5, LeavesOff DEF DuplicateCommit, Stands, Books
<1>6. ASSUME NEW u \in Templates, DeleteTemplate(a, u) PROVE Claims'
  BY <1>6, TemplateGoes
<1>7. ASSUME NEW t \in Templates, NEW i \in Tags \cup {Base}, UpdateTemplate(a, t, i) PROVE Claims'
  BY <1>0, <1>7, StatusClaims DEF UpdateTemplate
<1> QED BY <1>1, <1>2, <1>3, <1>4, <1>5, <1>6, <1>7 DEF Administer

LEMMA BuildsStep == ASSUME BuildsAssumption, Calm, BuildsInv, [BuildsNext]_buildVars PROVE BuildsInv'
<1>1. BuildsTyped'
  BY BuildsStepTyped DEF BuildsInv
<1>2. faults \in Nat
  BY PartTypes DEF BuildsInv
<1>3. ASSUME faults' = 0, BuildsNext PROVE Claims'
  <2>1. faults' = faults /\ BuildsTyped /\ Claims /\ ~Faults
    <3>1. CASE UNCHANGED faults
      <4>1. ~Faults
        BY <1>2, <3>1 DEF Faults, Fault, ApiRestart, JobsLost, ForeignCleanup
      <4> QED BY <1>3, <3>1, <4>1 DEF BuildsInv
    <3>2. faults' # faults => Fault
      BY <1>3 DEF BuildsNext, Build, BuildCheck, AgentAccepts, AgentRefuses, BuildBook, BuildAnswerLost,
                  Job, JobRuns, JobEnds, Watch, Polled, Verify, Flush, Remove, PruneRead, RemoveCheck,
                  PruneCommit, RemoveImage, Freeze, FreezeCheck, FreezeMark, FreezeRefused, FreezeCommitted,
                  FreezeFails, FreezeAnswerLost, Administer, DeleteCheck, CleanCheck, Activate,
                  DuplicateCheck, DuplicateCommit, DeleteTemplate, UpdateTemplate,
                  Faults, ApiRestart, JobsLost, ForeignCleanup
    <3> QED BY <1>2, <1>3, <3>1, <3>2 DEF Fault
  <2>2. ASSUME NEW r \in Runs, Job(r) PROVE Claims'
    <3>1. CASE JobRuns(r)
      BY <2>1, <3>1, JobGoesOn DEF JobRuns, Active
    <3>2. CASE JobEnds(r, "ok")
      BY <2>1, <3>2, JobMakesImage
    <3>3. CASE JobEnds(r, "failed")
      BY <2>1, <3>3, JobGoesOn DEF JobEnds, Active
    <3> QED BY <2>2, <3>1, <3>2, <3>3 DEF Job
  <2>3. ASSUME NEW r \in Runs, Watch(r) \/ Verify(r) PROVE Claims'
    BY <2>1, <2>3, WatchClaims, VerifyClaims
  <2>4. ASSUME NEW a \in Actors, Flush(a) \/ Remove(a) PROVE Claims'
    BY <2>1, <2>4, FlushClaims, PruneClaims
  <2>5. ASSUME NEW a \in Actors, Freeze(a) \/ Administer(a) PROVE Claims'
    BY <2>1, <2>5, FreezeClaims, AdministerClaims
  <2>6. CASE Build
    BY <2>1, <2>6, BuildClaims
  <2> QED BY <1>3, <2>1, <2>2, <2>3, <2>4, <2>5, <2>6 DEF BuildsNext
<1>4. ASSUME faults' = 0, UNCHANGED buildVars PROVE Claims'
  BY <1>4 DEF BuildsInv, buildVars, Claims
<1> QED BY <1>1, <1>3, <1>4 DEF BuildsInv

LEMMA InitClaims == ASSUME BuildsAssumption, BuildsInit PROVE BuildsInv
<1>1. BuildsTyped
  BY BuildsInitTyped
<1>2. runs = 0 /\ \A a \in Actors : actors[a] = Idle
  BY DEF BuildsInit
<1>3. /\ \A i \in Tags : rows[i].run = 0 /\ rows[i].status = "none"
      /\ \A r \in Runs : jobs[r].status = "none"
      /\ watched.polled = {}
  BY DEF BuildsInit, NoRow, NoJob
<1>4. \A a \in Actors : Fit(actors[a], rows, jobs, images, runs)
  BY <1>2, IdleFits
<1>5. \A a, b \in Actors : a # b => Apart(actors[a], actors[b])
  BY <1>2, IdleApart
<1>6. RowsFit(rows, jobs, images, runs)
  BY <1>2, <1>3 DEF RowsFit, Final
<1>7. JobsFit(rows, jobs, actors, runs, watched.polled)
  BY <1>3 DEF JobsFit, Active
<1> QED BY <1>1, <1>4, <1>5, <1>6, <1>7 DEF BuildsInv, Claims

\* As long as nothing fails from outside and no template is deleted under a build of its own,
\* the image of a version is the one its own build or freeze has made, however many of them
\* there are (start_build, freeze, _watch, _prune_versions, delete_build).
THEOREM ImagesAreOwn == ASSUME BuildsAssumption, Calm PROVE BuildsSpec => []OwnImage
<1>1. BuildsInit => BuildsInv
  BY InitClaims
<1>2. BuildsInv /\ [BuildsNext]_buildVars => BuildsInv'
  BY BuildsStep
<1>3. BuildsInv => OwnImage
  BY ClaimsOwn DEF BuildsInv, OwnImage
<1> QED BY <1>1, <1>2, <1>3, PTL DEF BuildsSpec

-----------------------------------------------------------------------------
(* Builds: images that templates start from.  With one handler at a time, what *)
(* a handler has read of rows and templates still holds when it acts on it.    *)

ImagesOf(T, t) == {v \in Versions : T[t].image = <<t, v>>}
Prunes(n) == n.op \in {"watch", "freeze"}

\* What an actor is about to remove is no image a template of T starts from, by rows R.
Sparing(n, T, R) ==
    /\ Prunes(n) /\ n.pc \notin {"check", "remove"} => ImagesOf(T, n.tag[1]) \subseteq n.spared
    /\ Prunes(n) /\ n.pc \in {"check", "remove"} => n.list \cap ImagesOf(T, n.tag[1]) = {}
    /\ n.op = "delete" => n.list \subseteq {n.tag[2]} /\ ~(R[n.tag].image /\ T[n.tag[1]].image = n.tag)
    /\ n.op = "clean" => n.list \subseteq {n.tag[2]} /\ (n.pc = "check" => n.list = {})
    /\ n.op = "duplicate" => n.tag \in Tags \cup {Base}
    /\ n.pc \in {"check", "remove"} => Prunes(n) \/ n.op \in {"delete", "clean"}
    /\ n.pc = "remove" => n.list # {} /\ \A t \in Templates :
                             T[t].exists => T[t].image # <<n.tag[1], Max(n.list)>>

Resting(a) == actors[a].pc = "idle"
OneActs == \A a, b \in Actors : ~Resting(a) /\ ~Resting(b) => a = b
AllSpare == \A a \in Actors : ~Resting(a) => Sparing(actors[a], templates, rows)
FromStore == \A t \in Templates : templates[t].image \in Tags \cup {Base}
SparingInv == BuildsTyped /\ OneActs /\ AllSpare /\ FromStore

\* The largest of some versions that are bounded is one of them.
LEMMA LargestIsOne ==
    ASSUME NEW n \in Nat, NEW S, S \subseteq 0 .. n, S # {}
    PROVE  Max(S) \in S /\ \A y \in S : Max(S) >= y
<1> DEFINE R == {s \in Nat \X Nat : s[1] < s[2]}
           D == {n - x : x \in S}
<1>1. IsWellFoundedOn(R, Nat)
  BY NatLessThanWellFounded, Zenon DEF OpToRel
<1>2. D \subseteq Nat /\ D # {}
  <2>1. \A x \in S : n - x \in Nat
    <3>1. \A x \in 0 .. n : n - x \in Nat
      OBVIOUS
    <3> QED BY <3>1
  <2>2. PICK x \in S : TRUE
    OBVIOUS
  <2>3. n - x \in D
    BY <2>2
  <2> QED BY <2>1, <2>3
<1>3. PICK d \in D : \A e \in D : ~ (<<e, d>> \in R)
  <2> HIDE DEF R, D
  <2> QED BY <1>1, <1>2, WFMin
<1>4. PICK x \in S : d = n - x
  BY <1>3
<1>5. ASSUME NEW y \in S PROVE x >= y
  <2>1. x \in Int /\ y \in Int /\ n - y \in D
    OBVIOUS
  <2>2. ~ (<<n - y, n - x>> \in R) /\ n - y \in Nat /\ n - x \in Nat
    BY <1>2, <1>3, <1>4, <2>1
  <2>3. ~ (n - y < n - x)
    BY <2>2
  <2> QED BY <2>1, <2>3
<1>6. \E u \in S : \A y \in S : u >= y
  BY <1>5
<1> QED BY <1>6, Zenon DEF Max

LEMMA LargestAlone == ASSUME NEW v \in Int PROVE Max({v}) = v
<1>1. \E x \in {v} : \A y \in {v} : x >= y
  OBVIOUS
<1> QED BY <1>1 DEF Max

\* An actor starts only when all rest, or it is the only one that does not.
LEMMA Alone ==
    ASSUME SparingInv, NEW a \in Actors, ~Resting(a) \/ (Serial /\ Free(a))
    PROVE  \A b \in Actors \ {a} : Resting(b)
BY DEF SparingInv, OneActs, Free, Resting

\* One actor goes on, the others rest.
LEMMA OneSpares ==
    ASSUME SparingInv, NEW a \in Actors, NEW n, Become(a, n), \A b \in Actors \ {a} : Resting(b),
           n.pc # "idle" => Sparing(n, templates', rows')
    PROVE  (OneActs /\ AllSpare)'
<1>1. actors'[a] = n /\ \A b \in Actors \ {a} : actors'[b].pc = "idle"
  BY PartTypes DEF SparingInv, Become, Resting
<1> QED BY <1>1 DEF OneActs, AllSpare, Resting

LEMMA OneRests ==
    ASSUME SparingInv, NEW a \in Actors, Done(a), \A b \in Actors \ {a} : Resting(b)
    PROVE  (OneActs /\ AllSpare)'
<1>1. Idle.pc = "idle"
  BY DEF Idle
<1> HIDE DEF Idle
<1> QED BY <1>1, OneSpares DEF Done

\* Nobody acts, and none begins to.
LEMMA NoneActs ==
    ASSUME SparingInv, NEW a \in Actors, Serial, Free(a), UNCHANGED actors
    PROVE  (OneActs /\ AllSpare)'
BY DEF Free, OneActs, AllSpare, Resting

\* An actor keeps its version and what it removes, and neither rows nor templates change.
LEMMA GoesOnSparing ==
    ASSUME SparingInv, NEW a \in Actors, NEW pc \in {"call", "book", "commit", "read"}, GoesTo(a, pc),
           ~Resting(a), actors[a].pc \notin {"check", "remove"}, UNCHANGED <<templates, rows>>
    PROVE  (OneActs /\ AllSpare)'
<1> DEFINE m == actors[a]
           n == [m EXCEPT !.pc = pc]
<1>1. m \in Acting
  BY ActTyped DEF SparingInv
<1>2. /\ n.pc = pc /\ n.op = m.op /\ n.tag = m.tag /\ n.spared = m.spared /\ n.list = m.list
  <2> HIDE DEF m
  <2> QED BY <1>1 DEF Acting
<1>3. Sparing(m, templates, rows)
  BY DEF SparingInv, AllSpare
<1> HIDE DEF n
<1>4. Sparing(n, templates, rows)
  <2> HIDE DEF m
  <2>1. m.pc \notin {"check", "remove"} /\ n.pc \notin {"check", "remove"}
    BY <1>2 DEF m
  <2> QED BY <1>2, <1>3, <2>1 DEF Sparing, Prunes
<1>5. Become(a, n)
  BY DEF GoesTo, n
<1> QED BY <1>4, <1>5, Alone, OneSpares

LEMMA FlushSpares ==
    ASSUME SparingInv, NEW a \in Actors, Flush(a) PROVE (OneActs /\ AllSpare /\ FromStore)'
<1>1. ~Resting(a) /\ actors[a].pc = "flush"
  BY DEF Flush, Resting
<1>2. GoesTo(a, "call") \/ GoesTo(a, "commit") \/ Done(a)
  BY DEF Flush
<1>3. UNCHANGED <<templates, rows>>
  BY DEF Flush
<1> QED BY <1>1, <1>2, <1>3, GoesOnSparing, OneRests, Alone DEF SparingInv, FromStore

LEMMA BuildSpares ==
    ASSUME BuildsAssumption, Serial, SparingInv, Build PROVE (OneActs /\ AllSpare /\ FromStore)'
<1>0. Loop \in Actors
  BY TagsThere
<1>1. FromStore'
  BY DEF Build, BuildCheck, AgentAccepts, AgentRefuses, BuildBook, BuildAnswerLost, SparingInv, FromStore
<1>2. ASSUME NEW t \in Templates, BuildCheck(t) PROVE (OneActs /\ AllSpare)'
  <2> DEFINE n == [Idle EXCEPT !.pc = "flush", !.op = "build", !.tag = <<t, NextVersion(t)>>, !.run = runs + 1]
  <2>1. Become(Loop, n) /\ Free(Loop)
    BY <1>2 DEF BuildCheck
  <2>2. n.pc = "flush" /\ n.op = "build"
    BY DEF Idle
  <2> HIDE DEF n
  <2>3. Sparing(n, templates', rows')
    BY <2>2 DEF Sparing, Prunes
  <2> QED BY <1>0, <2>1, <2>3, Alone, OneSpares
<1>3. CASE AgentAccepts
  <2>1. GoesTo(Loop, "book") /\ actors[Loop].pc = "call" /\ UNCHANGED <<templates, rows>>
    BY <1>3 DEF AgentAccepts, Stands
  <2> QED BY <1>0, <1>1, <2>1, GoesOnSparing DEF Resting
<1>4. CASE AgentRefuses \/ BuildBook \/ BuildAnswerLost
  <2>1. Done(Loop) /\ ~Resting(Loop)
    BY <1>4 DEF AgentRefuses, BuildBook, BuildAnswerLost, Stands, Resting
  <2> QED BY <1>0, <1>1, <2>1, OneRests, Alone
<1> QED BY <1>1, <1>2, <1>3, <1>4 DEF Build

LEMMA WatchSpares ==
    ASSUME BuildsAssumption, Serial, SparingInv, NEW r \in Runs, Watch(r) \/ Verify(r)
    PROVE  (OneActs /\ AllSpare /\ FromStore)'
<1>0. Loop \in Actors /\ Free(Loop)
  BY TagsThere DEF Watch, Polled, Verify
<1>1. FromStore'
  BY DEF Watch, Polled, Verify, SparingInv, FromStore
<1>2. CASE UNCHANGED actors
  BY <1>0, <1>1, <1>2, NoneActs
<1>3. CASE ~UNCHANGED actors
  <2> DEFINE i == CHOOSE i \in RowOf(r) : TRUE
             n == [Idle EXCEPT !.pc = "read", !.op = "watch", !.tag = i, !.run = r,
                               !.spared = ImageOf(i[1]), !.known = {i[2]}]
  <2>1. Become(Loop, n) /\ UNCHANGED templates
    BY <1>3 DEF Watch, Polled, Verify
  <2>2. n.pc = "read" /\ n.op = "watch" /\ n.tag = i /\ n.spared = ImageOf(i[1])
    <3> HIDE DEF i
    <3> QED BY DEF Idle
  <2> HIDE DEF n
  <2>3. Sparing(n, templates', rows')
    BY <2>1, <2>2 DEF Sparing, Prunes, ImagesOf, ImageOf
  <2> QED BY <1>0, <1>1, <2>1, <2>3, Alone, OneSpares
<1> QED BY <1>1, <1>2, <1>3

LEMMA FreezeSpares ==
    ASSUME Serial, SparingInv, NEW a \in Actors, Freeze(a) PROVE (OneActs /\ AllSpare /\ FromStore)'
<1> DEFINE m == actors[a]
<1>0. FromStore'
  BY DEF Freeze, FreezeCheck, FreezeMark, FreezeRefused, FreezeCommitted, FreezeFails, FreezeAnswerLost,
         SparingInv, FromStore
<1>1. ASSUME NEW t \in Templates, FreezeCheck(a, t) PROVE (OneActs /\ AllSpare)'
  <2> DEFINE n == [Idle EXCEPT !.pc = "preview", !.op = "freeze", !.tag = <<t, 0>>,
                               !.run = runs + 1, !.spared = ImageOf(t)]
  <2>1. Become(a, n) /\ Free(a) /\ UNCHANGED templates
    BY <1>1 DEF FreezeCheck
  <2>2. n.pc = "preview" /\ n.op = "freeze" /\ n.tag[1] = t /\ n.spared = ImageOf(t)
    BY DEF Idle
  <2> HIDE DEF n
  <2>3. Sparing(n, templates', rows')
    BY <2>1, <2>2 DEF Sparing, Prunes, ImagesOf, ImageOf
  <2> QED BY <1>0, <2>1, <2>3, Alone, OneSpares
<1>2. CASE FreezeMark(a)
  <2> DEFINE t == m.tag[1]
             n == [m EXCEPT !.pc = "flush", !.tag = <<t, NextVersion(t)>>,
                            !.spared = @ \cup CurrentOf(t), !.known = RowsOf(t)]
  <2>1. /\ Become(a, n) /\ UNCHANGED templates
        /\ m.pc = "preview" /\ m.op = "freeze" /\ ~Resting(a)
    BY <1>2 DEF FreezeMark, Stands, Resting
  <2>2. n.pc = "flush" /\ n.op = m.op /\ n.tag[1] = t /\ n.spared = m.spared \cup CurrentOf(t)
    <3>1. m \in Acting
      BY ActTyped DEF SparingInv
    <3> HIDE DEF m
    <3> QED BY <3>1 DEF Acting
  <2>3. ImagesOf(templates, t) \subseteq m.spared
    BY <2>1 DEF SparingInv, AllSpare, Sparing, Prunes
  <2> HIDE DEF n, m
  <2>4. Sparing(n, templates', rows')
    BY <2>1, <2>2, <2>3 DEF Sparing, Prunes
  <2> QED BY <1>0, <2>1, <2>4, Alone, OneSpares
<1>3. CASE FreezeCommitted(a)
  <2>1. GoesTo(a, "read") /\ m.pc = "commit" /\ UNCHANGED <<templates, rows>>
    BY <1>3 DEF FreezeCommitted, Stands
  <2> QED BY <1>0, <2>1, GoesOnSparing DEF Resting
<1>4. CASE FreezeRefused(a) \/ FreezeFails(a) \/ FreezeAnswerLost(a)
  <2>1. Done(a) /\ ~Resting(a)
    BY <1>4 DEF FreezeRefused, FreezeFails, FreezeAnswerLost, Stands, Resting
  <2> QED BY <1>0, <2>1, OneRests, Alone
<1> QED BY <1>0, <1>1, <1>2, <1>3, <1>4 DEF Freeze

\* An actor that goes on looking through what it removes.
LEMMA LooksOn ==
    ASSUME SparingInv, NEW a \in Actors, NEW v, v \in Int,
           actors[a].pc \in {"check", "remove"}, actors[a].op = "clean" => actors[a].list \subseteq {v},
           Become(a, [actors[a] EXCEPT !.pc = "check", !.list = @ \ {v}]), UNCHANGED <<templates, rows>>
    PROVE  (OneActs /\ AllSpare)'
<1> DEFINE m == actors[a]
           n == [m EXCEPT !.pc = "check", !.list = @ \ {v}]
<1>1. m \in Acting
  BY ActTyped DEF SparingInv
<1>2. n.pc = "check" /\ n.op = m.op /\ n.tag = m.tag /\ n.list = m.list \ {v}
  <2> HIDE DEF m
  <2> QED BY <1>1 DEF Acting
<1>3. Sparing(m, templates, rows)
  BY DEF SparingInv, AllSpare, Resting
<1>4. ~Resting(a)
  BY DEF Resting
<1> HIDE DEF n
<1>5. Sparing(n, templates', rows')
  <2> HIDE DEF m
  <2>1. m.pc \in {"check", "remove"} /\ (m.op = "clean" => m.list \subseteq {v})
    BY DEF m
  <2> QED BY <1>2, <1>3, <2>1 DEF Sparing, Prunes
<1>6. Become(a, n)
  BY DEF n
<1> QED BY <1>4, <1>5, <1>6, Alone, OneSpares

LEMMA RemoveSpares ==
    ASSUME BuildsAssumption, NEW Last \in Nat, Versions \subseteq 0 .. Last,
           SparingInv, NEW a \in Actors, Remove(a)
    PROVE  (OneActs /\ AllSpare /\ FromStore)'
<1> DEFINE m == actors[a]
           v == Max(m.list)
<1>0. FromStore'
  BY DEF Remove, PruneRead, RemoveCheck, RemoveImage, PruneCommit, SparingInv, FromStore
<1>a. m \in Acting /\ Chosen(m)
  BY ActTyped DEF SparingInv
<1>b. m.list # {} => v \in m.list /\ v \in Versions /\ v \in Int
  <2>1. m.list \subseteq Versions
    BY <1>a DEF Acting
  <2>2. m.list # {} => v \in m.list
    <3> HIDE DEF m
    <3> QED BY <2>1, LargestIsOne
  <2>3. Versions \subseteq Int
    BY DEF BuildsAssumption
  <2> QED BY <2>1, <2>2, <2>3
<1>c. ~Resting(a) => Sparing(m, templates, rows)
  BY DEF SparingInv, AllSpare
<1>1. CASE PruneRead(a)
  <2> DEFINE t == m.tag[1]
             finished == {w \in RowsOf(t) : rows[<<t, w>>].status \in {"ok", "failed"}} \cup {m.tag[2]}
             old == {w \in finished : Cardinality({x \in finished : x > w}) >= Keep}
             spared == m.spared \cup (CurrentOf(t) \ m.known)
             g == {IF w = m.tag[2] THEN m.run ELSE rows[<<t, w>>].run : w \in old \ spared}
             n == [m EXCEPT !.pc = "check", !.list = old \ spared, !.gone = g]
  <2>1. Become(a, n) /\ m.pc = "read" /\ UNCHANGED <<templates, rows>> /\ ~Resting(a)
    BY <1>1 DEF PruneRead, Resting
  <2>2. n.pc = "check" /\ n.op = m.op /\ n.tag = m.tag /\ n.list = old \ spared
    <3> HIDE DEF m, g, old, spared
    <3> QED BY <1>a DEF Acting
  <2>3. Prunes(m)
    BY <1>a, <2>1 DEF Chosen, Prunes
  <2>4. ImagesOf(templates, m.tag[1]) \subseteq m.spared
    BY <1>c, <2>1, <2>3 DEF Sparing
  <2>5. n.list \cap ImagesOf(templates, m.tag[1]) = {}
    <3> HIDE DEF n, old, m
    <3> QED BY <2>2, <2>4
  <2> HIDE DEF n, m
  <2>6. Sparing(n, templates', rows')
    BY <2>1, <2>2, <2>3, <2>5 DEF Sparing, Prunes
  <2> QED BY <1>0, <2>1, <2>6, Alone, OneSpares
<1>2. CASE RemoveCheck(a)
  <2>1. m.pc = "check" /\ m.list # {} /\ UNCHANGED <<templates, rows>> /\ ~Resting(a)
    BY <1>2 DEF RemoveCheck, Resting
  <2>2. Sparing(m, templates, rows) /\ m.tag \in Tags
    BY <1>a, <1>c, <2>1 DEF Chosen
  <2>3. CASE HasImage(a, v) /\ ~Elsewhere(<<m.tag[1], v>>)
    <3> DEFINE n == [m EXCEPT !.pc = "remove"]
    <3>1. Become(a, n)
      BY <1>2, <2>3 DEF RemoveCheck, GoesTo
    <3>2. n.pc = "remove" /\ n.op = m.op /\ n.tag = m.tag /\ n.list = m.list
      <4> HIDE DEF m
      <4> QED BY <1>a DEF Acting
    <3>3. \A u \in Templates \ {m.tag[1]} : templates[u].exists => templates[u].image # <<m.tag[1], v>>
      BY <2>3 DEF Elsewhere
    <3>4. templates[m.tag[1]].image # <<m.tag[1], v>>
      <4>1. CASE Prunes(m)
        <5>1. m.list \cap ImagesOf(templates, m.tag[1]) = {}
          BY <2>1, <2>2, <4>1 DEF Sparing
        <5> HIDE DEF v, m
        <5> QED BY <1>b, <2>1, <5>1 DEF ImagesOf
      <4>2. CASE m.op = "delete"
        <5>1. m.list \subseteq {m.tag[2]} /\ ~(rows[m.tag].image /\ templates[m.tag[1]].image = m.tag)
          BY <2>2, <4>2 DEF Sparing
        <5>2. v = m.tag[2] /\ m.tag = <<m.tag[1], v>>
          <6> HIDE DEF v, m
          <6> QED BY <1>b, <2>1, <2>2, <5>1, TagParts
        <5>3. rows[<<m.tag[1], v>>].image
          BY <2>3, <4>2 DEF HasImage
        <5> HIDE DEF v, m
        <5> QED BY <5>1, <5>2, <5>3
      <4>3. m.op # "clean"
        BY <2>1, <2>2 DEF Sparing
      <4> QED BY <2>1, <2>2, <4>1, <4>2, <4>3 DEF Sparing
    <3>5. \A t \in Templates : templates[t].exists => templates[t].image # <<m.tag[1], v>>
      BY <3>3, <3>4
    <3> HIDE DEF n
    <3>6. Sparing(n, templates', rows')
      <4>1. n.list # {} /\ Max(n.list) = v
        BY <2>1, <3>2
      <4> HIDE DEF v, m
      <4>2. Prunes(n) <=> Prunes(m)
        BY <3>2 DEF Prunes
      <4> QED BY <2>1, <2>2, <3>2, <3>5, <4>1, <4>2 DEF Sparing
    <3> QED BY <1>0, <2>1, <3>1, <3>6, Alone, OneSpares
  <2>4. CASE ~(HasImage(a, v) /\ ~Elsewhere(<<m.tag[1], v>>))
    <3>1. Become(a, [m EXCEPT !.list = @ \ {v}])
      BY <1>2, <2>4 DEF RemoveCheck
    <3>2. [m EXCEPT !.list = @ \ {v}] = [m EXCEPT !.pc = "check", !.list = @ \ {v}]
      <4> HIDE DEF m, v
      <4> QED BY <1>a, <2>1 DEF Acting
    <3>3. m.op # "clean"
      BY <2>1, <2>2 DEF Sparing
    <3> QED BY <1>0, <1>b, <2>1, <3>1, <3>2, <3>3, LooksOn
  <2> QED BY <2>3, <2>4
<1>3. ASSUME NEW refused \in BOOLEAN, RemoveImage(a, refused) PROVE (OneActs /\ AllSpare)'
  <2>1. /\ m.pc = "remove" /\ UNCHANGED <<templates, rows>> /\ ~Resting(a)
        /\ Become(a, [m EXCEPT !.pc = "check", !.list = @ \ {v}])
    BY <1>3 DEF RemoveImage, Resting
  <2>2. m.list # {} /\ (m.op = "clean" => m.list \subseteq {m.tag[2]})
    BY <1>c, <2>1 DEF Sparing
  <2>3. m.op = "clean" => m.list \subseteq {v}
    <3> HIDE DEF m, v
    <3> QED BY <1>b, <2>2
  <2> QED BY <1>b, <2>1, <2>2, <2>3, LooksOn
<1>4. CASE PruneCommit(a)
  <2>1. Done(a) /\ ~Resting(a)
    BY <1>4 DEF PruneCommit, Resting
  <2> QED BY <1>0, <2>1, OneRests, Alone
<1> QED BY <1>0, <1>1, <1>2, <1>3, <1>4 DEF Remove

LEMMA AdministerSpares ==
    ASSUME BuildsAssumption, Serial, SparingInv, NEW a \in Actors, Administer(a)
    PROVE  (OneActs /\ AllSpare /\ FromStore)'
<1> DEFINE m == actors[a]
<1>0. /\ templates \in [Templates -> [exists : BOOLEAN, image : AnyTags]]
      /\ \A t \in Templates : templates[t].image \in Tags \cup {Base}
  BY PartTypes DEF SparingInv, FromStore
<1>1. ASSUME NEW i \in Tags, DeleteCheck(a, i) PROVE (OneActs /\ AllSpare /\ FromStore)'
  <2> DEFINE n == [Idle EXCEPT !.pc = "check", !.op = "delete", !.tag = i,
                               !.list = {i[2]}, !.gone = {rows[i].run}]
  <2>1. /\ Become(a, n) /\ Free(a) /\ UNCHANGED <<rows, templates>>
        /\ ~(rows[i].image /\ templates[i[1]].image = i)
    BY <1>1 DEF DeleteCheck
  <2>2. n.pc = "check" /\ n.op = "delete" /\ n.tag = i /\ n.list = {i[2]}
    BY DEF Idle
  <2> HIDE DEF n
  <2>3. Sparing(n, templates', rows')
    BY <2>1, <2>2 DEF Sparing, Prunes
  <2> QED BY <1>0, <2>1, <2>3, Alone, OneSpares DEF FromStore
<1>2. ASSUME NEW i \in Tags, CleanCheck(a, i) PROVE (OneActs /\ AllSpare /\ FromStore)'
  <2> DEFINE n == [Idle EXCEPT !.pc = "remove", !.op = "clean", !.tag = i, !.list = {i[2]}]
  <2>1. /\ Become(a, n) /\ Free(a) /\ UNCHANGED <<rows, templates>>
        /\ \A t \in Templates : templates[t].exists => templates[t].image # i
    BY <1>2 DEF CleanCheck
  <2>2. n.pc = "remove" /\ n.op = "clean" /\ n.tag = i /\ n.list = {i[2]}
    BY DEF Idle
  <2>3. n.list # {} /\ <<i[1], Max(n.list)>> = i
    BY <2>2, TagParts, LargestAlone DEF BuildsAssumption
  <2> HIDE DEF n
  <2>4. Sparing(n, templates', rows')
    BY <2>1, <2>2, <2>3 DEF Sparing, Prunes
  <2> QED BY <1>0, <2>1, <2>4, Alone, OneSpares DEF FromStore
<1>3. ASSUME NEW i \in Tags, Activate(a, i) PROVE (OneActs /\ AllSpare /\ FromStore)'
  <2>1. UNCHANGED actors /\ Free(a) /\ templates' = [templates EXCEPT ![i[1]].image = i]
    BY <1>3 DEF Activate
  <2>2. FromStore'
    BY <1>0, <2>1 DEF FromStore
  <2> QED BY <2>1, <2>2, NoneActs
<1>4. ASSUME NEW t \in Templates, NEW u \in Templates, DuplicateCheck(a, t, u)
      PROVE  (OneActs /\ AllSpare /\ FromStore)'
  <2> DEFINE n == [Idle EXCEPT !.pc = "copy", !.op = "duplicate", !.tag = templates[t].image]
  <2>1. Become(a, n) /\ Free(a) /\ UNCHANGED templates
    BY <1>4 DEF DuplicateCheck
  <2>2. n.pc = "copy" /\ n.op = "duplicate" /\ n.tag = templates[t].image
    BY DEF Idle
  <2> HIDE DEF n
  <2>3. Sparing(n, templates', rows')
    BY <1>0, <2>2 DEF Sparing, Prunes
  <2> QED BY <1>0, <2>1, <2>3, Alone, OneSpares DEF FromStore
<1>5. ASSUME NEW u \in Templates, DuplicateCommit(a, u) PROVE (OneActs /\ AllSpare /\ FromStore)'
  <2>1. Done(a) /\ m.op = "duplicate" /\ ~Resting(a)
    BY <1>5 DEF DuplicateCommit, Stands, Resting
  <2>2. m.tag \in Tags \cup {Base}
    BY <2>1 DEF SparingInv, AllSpare, Sparing
  <2>3. FromStore'
    BY <1>0, <1>5, <2>2 DEF DuplicateCommit, FromStore
  <2> QED BY <2>1, <2>3, OneRests, Alone
<1>6. ASSUME NEW u \in Templates, DeleteTemplate(a, u) PROVE (OneActs /\ AllSpare /\ FromStore)'
  <2>1. UNCHANGED actors /\ Free(a) /\ templates' = [templates EXCEPT ![u] = [exists |-> FALSE, image |-> Base]]
    BY <1>6 DEF DeleteTemplate
  <2>2. FromStore'
    BY <1>0, <2>1 DEF FromStore
  <2> QED BY <2>1, <2>2, NoneActs
<1>7. ASSUME NEW t \in Templates, NEW i \in Tags \cup {Base}, UpdateTemplate(a, t, i)
      PROVE  (OneActs /\ AllSpare /\ FromStore)'
  <2>1. UNCHANGED actors /\ Free(a) /\ templates' = [templates EXCEPT ![t].image = i]
    BY <1>7 DEF UpdateTemplate
  <2>2. FromStore'
    BY <1>0, <2>1 DEF FromStore
  <2> QED BY <2>1, <2>2, NoneActs
<1> QED BY <1>1, <1>2, <1>3, <1>4, <1>5, <1>6, <1>7 DEF Administer

LEMMA SparingStep ==
    ASSUME BuildsAssumption, NEW Last \in Nat, Versions \subseteq 0 .. Last, Serial,
           SparingInv, [BuildsNext]_buildVars
    PROVE  SparingInv'
<1>0. BuildsTyped'
  BY BuildsStepTyped DEF SparingInv
<1>1. CASE UNCHANGED <<actors, rows, templates>>
  BY <1>0, <1>1 DEF SparingInv, OneActs, AllSpare, FromStore, Resting
<1>2. ASSUME NEW r \in Runs, Job(r) PROVE SparingInv'
  BY <1>1, <1>2 DEF Job, JobRuns, JobEnds
<1>3. CASE Faults
  <2>1. CASE ApiRestart
    <3>1. UNCHANGED templates /\ \A a \in Actors : actors'[a].pc = "idle"
      BY <2>1 DEF ApiRestart, Idle
    <3> QED BY <1>0, <3>1 DEF SparingInv, OneActs, AllSpare, FromStore, Resting
  <2>2. CASE JobsLost \/ \E i \in Tags : ForeignCleanup(i)
    BY <1>1, <2>2 DEF JobsLost, ForeignCleanup
  <2> QED BY <1>3, <2>1, <2>2 DEF Faults
<1>4. CASE UNCHANGED buildVars
  BY <1>1, <1>4 DEF buildVars
<1> QED BY <1>0, <1>2, <1>3, <1>4, BuildSpares, WatchSpares, FlushSpares, RemoveSpares, FreezeSpares,
           AdministerSpares DEF BuildsNext, SparingInv

\* Only the removal of an image, and faults, take an image away.
LEMMA ImagesStay ==
    ASSUME BuildsAssumption, BuildsTyped, BuildsNext, faults' = faults, NEW i \in Tags,
           images[i] # 0, \A a \in Actors : ~RemoveImage(a, FALSE)
    PROVE  images'[i] # 0
<1>0. images \in [Tags -> 0 .. MaxRuns] /\ faults \in 0 .. MaxFaults
  BY PartTypes
<1>1. ~Fault
  BY <1>0 DEF Fault
<1>2. CASE UNCHANGED images
  BY <1>2
<1>3. ASSUME NEW j, NEW r \in Runs, images' = [images EXCEPT ![j] = r] PROVE images'[i] # 0
  BY <1>0, <1>3, TagsThere
<1>4. ASSUME NEW r \in Runs, Job(r) PROVE images'[i] # 0
  BY <1>2, <1>3, <1>4 DEF Job, JobRuns, JobEnds
<1>5. ASSUME NEW a \in Actors, Freeze(a) PROVE images'[i] # 0
  <2>1. CASE FreezeCommitted(a)
    <3>1. actors[a].run \in Runs /\ images' = [images EXCEPT ![actors[a].tag] = actors[a].run]
      BY <2>1, ActTyped DEF FreezeCommitted, Stands, Chosen
    <3> QED BY <1>3, <3>1
  <2>2. CASE ~FreezeCommitted(a)
    BY <1>1, <1>2, <1>5, <2>2 DEF Freeze, FreezeCheck, FreezeMark, FreezeRefused, FreezeFails, FreezeAnswerLost
  <2> QED BY <2>1, <2>2
<1>6. ASSUME NEW a \in Actors, Remove(a) PROVE images'[i] # 0
  <2>1. RemoveImage(a, TRUE) => UNCHANGED images
    BY DEF RemoveImage
  <2> QED BY <1>2, <1>6, <2>1 DEF Remove, PruneRead, RemoveCheck, PruneCommit
<1>7. ASSUME NEW a \in Actors, Flush(a) \/ Administer(a) PROVE images'[i] # 0
  BY <1>2, <1>7 DEF Flush, Administer, DeleteCheck, CleanCheck, Activate, DuplicateCheck, DuplicateCommit,
     DeleteTemplate, UpdateTemplate
<1>8. ASSUME NEW r \in Runs, Watch(r) \/ Verify(r) PROVE images'[i] # 0
  BY <1>2, <1>8 DEF Watch, Polled, Verify
<1>9. CASE Build
  BY <1>2, <1>9 DEF Build, BuildCheck, AgentAccepts, AgentRefuses, BuildBook, BuildAnswerLost
<1>10. ~Faults
  BY <1>1 DEF Faults, ApiRestart, JobsLost, ForeignCleanup
<1> QED BY <1>4, <1>5, <1>6, <1>7, <1>8, <1>9, <1>10 DEF BuildsNext

LEMMA SparingKeeps ==
    ASSUME BuildsAssumption, SparingInv, [BuildsNext]_buildVars PROVE SparesImagesInUse
<1> SUFFICES ASSUME NEW t \in Templates, templates[t].exists, templates[t].image # Base,
                    images[templates[t].image] # 0, faults' = faults
             PROVE  images'[templates[t].image] # 0
  BY DEF SparesImagesInUse
<1>1. BuildsTyped /\ templates[t].image \in Tags
  BY DEF SparingInv, FromStore
<1>2. ASSUME NEW a \in Actors, RemoveImage(a, FALSE) PROVE images'[templates[t].image] # 0
  <2> DEFINE j == <<actors[a].tag[1], Max(actors[a].list)>>
  <2>1. images' = [images EXCEPT ![j] = 0] /\ actors[a].pc = "remove"
    BY <1>2 DEF RemoveImage
  <2>2. templates[t].image # j
    BY <2>1 DEF SparingInv, AllSpare, Sparing, Resting
  <2> HIDE DEF j
  <2>3. images'[templates[t].image] = images[templates[t].image]
    BY <1>1, <2>1, <2>2, PartTypes
  <2> QED BY <2>3
<1>3. CASE UNCHANGED buildVars
  BY <1>3 DEF buildVars
<1> QED BY <1>1, <1>2, <1>3, ImagesStay

\* With one handler at a time no step of the API or the agent takes away an image a template
\* starts its sessions from, with any number of templates, copies of them, versions and faults
\* (start_build, freeze, _prune_versions, _anderswo_genutzt, delete_build).
THEOREM ImagesInUseStay ==
    ASSUME BuildsAssumption, NEW Last \in Nat, Versions \subseteq 0 .. Last, Serial
    PROVE  BuildsSpec => [][SparesImagesInUse]_buildVars
<1>1. BuildsInit => SparingInv
  <2> SUFFICES ASSUME BuildsInit PROVE SparingInv
    OBVIOUS
  <2>1. BuildsTyped
    BY BuildsInitTyped
  <2>2. /\ \A a \in Actors : Resting(a)
        /\ FromStore
    BY DEF BuildsInit, Idle, Resting, FromStore
  <2> QED BY <2>1, <2>2 DEF SparingInv, OneActs, AllSpare
<1>2. SparingInv /\ [BuildsNext]_buildVars => SparingInv'
  BY SparingStep
<1>3. SparingInv /\ [BuildsNext]_buildVars => SparesImagesInUse
  BY SparingKeeps
<1> QED BY <1>1, <1>2, <1>3, PTL DEF BuildsSpec

-----------------------------------------------------------------------------
(* IDE-AI and opencode: what each thread knows, and what it leaves behind.      *)

Told == Settings \cup {0}
Versioned == Releases \cup {0}
Helpers == [pc : {"idle", "wait", "clear", "look", "fetch", "lock", "dpkg", "again"},
            told : Told, soll : Versioned]
Help(pc, what, soll) == [pc |-> pc, told |-> what, soll |-> soll]
Here(t) == place.pc = "up" \/ (t = Ide /\ place.pc = "code") \* the start has told it
Installing == {"look", "fetch", "lock", "dpkg"}
Repairing == helpers[Repair].pc \in {"clear", "look", "fetch", "lock", "dpkg", "again"}
Rewriting == helpers[Repair].pc \in {"look", "fetch", "lock", "dpkg", "again"}

\* A thread was told what the latest start has told, and the repair works alone on IDE-AI.
HelpersKnow ==
    /\ \A t \in Tools : /\ helpers[t].pc \notin {"wait", "clear"}
                        /\ helpers[t].pc # "idle" => /\ helpers[t].told = last[t].told
                                                     /\ helpers[t].soll = last[t].soll
    /\ helpers[Ide].pc # "idle" => ~Repairing
    /\ \A w \in Workers : helpers[w].pc = "again" /\ mistakes = 0 =>
          installed[ToolOf(w)] >= helpers[w].soll

\* When halts wait for the threads, none works while a container starts ...
NoneLeftOver ==
    HaltsWait => /\ place.pc \in {"down", "ide"} => \A w \in Workers : helpers[w].pc = "idle"
                 /\ place.pc = "code" => \A w \in {Code, Repair} : helpers[w].pc = "idle"
\* ... and when nothing changes, a thread that is left over knows what the next start tells.
NothingNew ==
    MaxChanges = 0 =>
        /\ place.pc \in {"ide", "code"} => place.told = told /\ place.soll = newest
        /\ \A w \in Workers : helpers[w].pc # "idle" =>
              helpers[w].told = told[ToolOf(w)] /\ helpers[w].soll = newest[ToolOf(w)]

\* What the container holds, and who will bring what is missing.
Provided ==
    /\ \A t \in Tools : config[t] \in {last[t].told, 0, Own}
    /\ mistakes = 0 => \A t \in Tools : Here(t) =>
          /\ config[t] \in {last[t].told, Own} \/ (t = Ide /\ Rewriting)
          /\ last[t].told = 0 \/ installed[t] >= last[t].soll
             \/ helpers[t].pc \in Installing \/ (t = Ide /\ Repairing)
    /\ mistakes = 0 /\ Here(Ide) =>
          \/ linked = (last[Ide].told # 0 /\ installed[Ide] # 0)
          \/ Rewriting \/ helpers[Ide].pc = "again"


LEMMA ThreeHelpers ==
    ASSUME AiToolsAssumption
    PROVE  /\ Ide # Code /\ Ide # Repair /\ Code # Repair
           /\ Tools = {Ide, Code} /\ Workers = {Ide, Code, Repair}
           /\ ToolOf(Ide) = Ide /\ ToolOf(Code) = Code /\ ToolOf(Repair) = Ide
BY DEF AiToolsAssumption, Tools, Workers, ToolOf

LEMMA HelpOf ==
    ASSUME NEW pc \in {"idle", "wait", "clear", "look", "fetch", "lock", "dpkg", "again"},
           NEW what \in Told, NEW soll \in Versioned
    PROVE  /\ Help(pc, what, soll) \in Helpers
           /\ Help(pc, what, soll).pc = pc /\ Help(pc, what, soll).told = what
           /\ Help(pc, what, soll).soll = soll
BY DEF Help, Helpers

LEMMA NoHelpIsIdle == NoHelp = Help("idle", 0, 0)
BY DEF NoHelp, Help

\* One helper is now h, the others are as they were.
Moved(w, h) ==
    /\ h \in Helpers /\ helpers' \in [Workers -> Helpers] /\ helpers'[w] = h
    /\ \A v \in Workers \ {w} : helpers'[v] = helpers[v]

LEMMA HelperMoved ==
    ASSUME helpers \in [Workers -> Helpers], NEW w \in Workers, NEW h \in Helpers, Helps(w, h)
    PROVE  Moved(w, h)
BY DEF Helps, Moved

LEMMA HelperGoes ==
    ASSUME helpers \in [Workers -> Helpers], NEW w \in Workers,
           NEW pc \in {"idle", "wait", "clear", "look", "fetch", "lock", "dpkg", "again"},
           HelpGoes(w, pc)
    PROVE  Moved(w, Help(pc, helpers[w].told, helpers[w].soll))
<1>1. helpers[w] \in Helpers /\ helpers[w].told \in Told /\ helpers[w].soll \in Versioned
  BY DEF Helpers
<1>2. [helpers[w] EXCEPT !.pc = pc] = Help(pc, helpers[w].told, helpers[w].soll)
  BY <1>1 DEF Helpers, Help
<1> QED BY <1>1, <1>2, HelpOf, HelperMoved DEF HelpGoes

LEMMA HelperEnds ==
    ASSUME helpers \in [Workers -> Helpers], NEW w \in Workers, Helps(w, NoHelp)
    PROVE  Moved(w, Help("idle", 0, 0))
<1>1. 0 \in Told /\ 0 \in Versioned
  BY DEF Told, Versioned
<1> QED BY <1>1, HelpOf, NoHelpIsIdle, HelperMoved

\* The types, named.
ToolTypes ==
    /\ told \in [Tools -> Told] /\ newest \in [Tools -> Versioned]
    /\ installed \in [Tools -> Versioned] /\ config \in [Tools -> Told \cup {Own}]
    /\ last \in [Tools -> [told : Told, soll : Versioned]]
    /\ linked \in BOOLEAN /\ apt \in BOOLEAN
    /\ place \in [pc : {"down", "ide", "code", "up"}, told : [Tools -> Told],
                  soll : [Tools -> Versioned]]
    /\ helpers \in [Workers -> Helpers] /\ lock \in Workers \cup {"free"}
    /\ changes \in 0 .. MaxChanges /\ mistakes \in 0 .. MaxMistakes

LEMMA ToolTypesAlike == ToolTypeOK <=> ToolTypes
<1>1. [Tools -> Settings \cup {0, Own}] = [Tools -> Told \cup {Own}]
  <2>1. Settings \cup {0, Own} = Told \cup {Own}
    BY DEF Told
  <2> QED BY <2>1
<1>2. (config \in [Tools -> Settings \cup {0, Own}]) <=> (config \in [Tools -> Told \cup {Own}])
  BY <1>1
<1> DEFINE T == Told
           V == Versioned
           H == Helpers
<1>3. T = Settings \cup {0} /\ V = Releases \cup {0}
  BY DEF Told, Versioned
<1>4. H = [pc : {"idle", "wait", "clear", "look", "fetch", "lock", "dpkg", "again"},
           told : T, soll : V]
  BY DEF Helpers
<1> HIDE DEF T, V, H
<1> QED BY <1>2, <1>3, <1>4 DEF ToolTypeOK, ToolTypes, T, V, H

-----------------------------------------------------------------------------
\* A change counts, and so does a mistake.
LEMMA ChangeCounts ==
    ASSUME AiToolsAssumption, changes \in 0 .. MaxChanges, Change
    PROVE  changes' \in 0 .. MaxChanges /\ MaxChanges # 0
BY DEF Change, AiToolsAssumption

LEMMA MistakeCounts ==
    ASSUME AiToolsAssumption, mistakes \in 0 .. MaxMistakes, Mistake
    PROVE  mistakes' \in 0 .. MaxMistakes /\ mistakes' # 0
BY DEF Mistake, AiToolsAssumption

LEMMA MoveKeepsTypes ==
    ASSUME ToolTypes, NEW w \in Workers, NEW h, Moved(w, h)
    PROVE  helpers' \in [Workers -> Helpers]
BY DEF Moved

LEMMA ConfiguredTypes ==
    ASSUME ToolTypes, NEW t \in Tools, NEW what \in Told, Configured(t, what)
    PROVE  /\ config' \in [Tools -> Told \cup {Own}] /\ linked' \in BOOLEAN
           /\ config'[t] = (IF config[t] = Own THEN Own ELSE what)
           /\ \A s \in Tools \ {t} : config'[s] = config[s]
           /\ t = Ide => linked' = (what # 0 /\ installed[Ide] # 0)
           /\ t # Ide => linked' = linked
<1>1. linked' \in BOOLEAN
  BY DEF ToolTypes, Configured
<1> QED BY <1>1 DEF ToolTypes, Configured

LEMMA HelperFields ==
    ASSUME ToolTypes, NEW w \in Workers
    PROVE  /\ helpers[w].pc \in {"idle", "wait", "clear", "look", "fetch", "lock", "dpkg", "again"}
           /\ helpers[w].told \in Told /\ helpers[w].soll \in Versioned
BY DEF ToolTypes, Helpers

LEMMA RecordOfLast ==
    ASSUME NEW what \in Told, NEW soll \in Versioned, NEW t \in Tools,
           last \in [Tools -> [told : Told, soll : Versioned]],
           last' = [last EXCEPT ![t] = [told |-> what, soll |-> soll]]
    PROVE  /\ last' \in [Tools -> [told : Told, soll : Versioned]]
           /\ last'[t].told = what /\ last'[t].soll = soll
           /\ \A s \in Tools \ {t} : last'[s] = last[s]
<1> PICK r : r = [told |-> what, soll |-> soll]
  OBVIOUS
<1>1. r \in [told : Told, soll : Versioned] /\ r.told = what /\ r.soll = soll
  OBVIOUS
<1> QED BY <1>1

-----------------------------------------------------------------------------
\* The invariant but for the types, and what every step of the proof starts from.
ToolOrder == HelpersKnow /\ NoneLeftOver /\ NothingNew /\ Provided
ToolsHeld == AiToolsAssumption /\ (HaltsWait \/ MaxChanges = 0) /\ ToolTypes /\ ToolOrder

\* A setting, a delivery, the user's line or the user's apt: none when nothing changes.
LEMMA ChangesKeep ==
    ASSUME ToolsHeld, NEW t \in Tools, NEW what \in Told, NEW r \in Versioned,
           Save(t, what) \/ Deliver(t, r) \/ TakeOver \/ UseApt
    PROVE  ToolTypes' /\ ToolOrder'
<1>1. CASE Save(t, what)
  <2>1. MaxChanges # 0 /\ ToolTypes'
    BY <1>1, ChangeCounts DEF Save, ToolsHeld, ToolTypes
  <2> QED BY <1>1, <2>1 DEF Save, ToolsHeld, ToolOrder, HelpersKnow, NoneLeftOver, NothingNew, Provided,
             Here, Repairing, Rewriting
<1>2. CASE Deliver(t, r)
  <2>1. MaxChanges # 0 /\ ToolTypes'
    BY <1>2, ChangeCounts DEF Deliver, ToolsHeld, ToolTypes
  <2> QED BY <1>2, <2>1 DEF Deliver, ToolsHeld, ToolOrder, HelpersKnow, NoneLeftOver, NothingNew,
             Provided, Here, Repairing, Rewriting
<1>3. CASE TakeOver
  <2>1. MaxChanges # 0 /\ ToolTypes'
    BY <1>3, ChangeCounts DEF TakeOver, ToolsHeld, ToolTypes
  <2>2. config' \in [Tools -> Told \cup {Own}] /\ \A s \in Tools : config'[s] \in {config[s], Own}
    BY <1>3 DEF TakeOver, ToolsHeld, ToolTypes
  <2> QED BY <1>3, <2>1, <2>2 DEF TakeOver, ToolsHeld, ToolOrder, HelpersKnow, NoneLeftOver, NothingNew,
             Provided, Here, Repairing, Rewriting
<1>4. CASE UseApt
  <2>1. ToolTypes'
    <3>1. changes' \in 0 .. MaxChanges
      BY <1>4, ChangeCounts DEF UseApt, ToolsHeld, ToolTypes
    <3> QED BY <1>4, <3>1 DEF UseApt, ToolsHeld, ToolTypes
  <2> QED BY <1>4, <2>1 DEF UseApt, ToolsHeld, ToolOrder, HelpersKnow, NoneLeftOver, NothingNew,
             Provided, Here, Repairing, Rewriting
<1> QED BY <1>1, <1>2, <1>3, <1>4

LEMMA PlaceMoves ==
    ASSUME ToolTypes, NEW pc \in {"down", "ide", "code", "up"}, place' = [place EXCEPT !.pc = pc]
    PROVE  /\ place'.pc = pc /\ place'.told = place.told /\ place'.soll = place.soll
           /\ place' \in [pc : {"down", "ide", "code", "up"}, told : [Tools -> Told],
                          soll : [Tools -> Versioned]]
BY DEF ToolTypes

LEMMA ResumeKeeps ==
    ASSUME ToolsHeld, Resume
    PROVE  ToolTypes' /\ ToolOrder'
<1>1. ToolTypes /\ place.pc = "down"
  BY DEF ToolsHeld, Resume
<1>2. /\ place'.pc = "ide" /\ place'.told = told /\ place'.soll = newest
      /\ place' \in [pc : {"down", "ide", "code", "up"}, told : [Tools -> Told],
                     soll : [Tools -> Versioned]]
  <2> PICK p : p = [pc |-> "ide", told |-> told, soll |-> newest]
    OBVIOUS
  <2>1. /\ p.pc = "ide" /\ p.told = told /\ p.soll = newest
        /\ p \in [pc : {"down", "ide", "code", "up"}, told : [Tools -> Told],
                  soll : [Tools -> Versioned]]
    BY <1>1 DEF ToolTypes
  <2>2. place' = p
    BY DEF Resume
  <2> QED BY <2>1, <2>2
<1>3. ToolTypes'
  BY <1>1, <1>2 DEF Resume, ToolTypes
<1> QED BY <1>1, <1>2, <1>3 DEF Resume, ToolsHeld, ToolOrder, HelpersKnow, NoneLeftOver, NothingNew,
           Provided, Here, Repairing, Rewriting

LEMMA HaltKeeps ==
    ASSUME ToolsHeld, Halt
    PROVE  ToolTypes' /\ ToolOrder'
<1>1. ToolTypes /\ place.pc = "up"
  BY DEF ToolsHeld, Halt
<1>2. /\ place'.pc = "down" /\ place'.told = place.told /\ place'.soll = place.soll
      /\ place' \in [pc : {"down", "ide", "code", "up"}, told : [Tools -> Told],
                     soll : [Tools -> Versioned]]
  BY <1>1, PlaceMoves DEF Halt
<1>3. ToolTypes'
  BY <1>1, <1>2 DEF Halt, ToolTypes
<1> QED BY <1>1, <1>2, <1>3 DEF Halt, ToolsHeld, ToolOrder, HelpersKnow, NoneLeftOver, NothingNew,
           Provided, Here, Repairing, Rewriting

\* What a start finds and leaves: it tells tool t, and begins its thread when none works on it.
LEMMA EquipFacts ==
    ASSUME ToolTypes, NEW t \in Tools, NEW pc, NEW next \in {"code", "up"}, Equip(t, pc, next)
    PROVE  /\ ToolTypes' /\ place.pc = pc /\ place'.pc = next
           /\ place'.told = place.told /\ place'.soll = place.soll
           /\ last'[t].told = place.told[t] /\ last'[t].soll = place.soll[t]
           /\ \A s \in Tools \ {t} : last'[s] = last[s]
           /\ config'[t] = (IF config[t] = Own THEN Own ELSE place.told[t])
           /\ \A s \in Tools \ {t} : config'[s] = config[s]
           /\ t = Ide => linked' = (place.told[t] # 0 /\ installed[Ide] # 0)
           /\ t # Ide => linked' = linked
           /\ (place.told[t] = 0 \/ AtWork(t)) => helpers' = helpers
           /\ ~(place.told[t] = 0 \/ AtWork(t)) =>
                  Moved(t, Help("look", place.told[t], place.soll[t]))
<1>1. place.told[t] \in Told /\ place.soll[t] \in Versioned
  BY DEF ToolTypes
<1>2. /\ place'.pc = next /\ place'.told = place.told /\ place'.soll = place.soll
      /\ place' \in [pc : {"down", "ide", "code", "up"}, told : [Tools -> Told],
                     soll : [Tools -> Versioned]]
  BY <1>1, PlaceMoves DEF Equip
<1>3. /\ last' \in [Tools -> [told : Told, soll : Versioned]]
      /\ last'[t].told = place.told[t] /\ last'[t].soll = place.soll[t]
      /\ \A s \in Tools \ {t} : last'[s] = last[s]
  BY <1>1, RecordOfLast DEF Equip, ToolTypes
<1>4. /\ config' \in [Tools -> Told \cup {Own}] /\ linked' \in BOOLEAN
      /\ config'[t] = (IF config[t] = Own THEN Own ELSE place.told[t])
      /\ \A s \in Tools \ {t} : config'[s] = config[s]
      /\ t = Ide => linked' = (place.told[t] # 0 /\ installed[Ide] # 0)
      /\ t # Ide => linked' = linked
  BY <1>1, ConfiguredTypes DEF Equip
<1>5. ASSUME ~(place.told[t] = 0 \/ AtWork(t))
      PROVE  Moved(t, Help("look", place.told[t], place.soll[t]))
  <2>1. t \in Workers /\ helpers \in [Workers -> Helpers]
    BY <1>1 DEF Workers, ToolTypes
  <2>2. Helps(t, Help("look", place.told[t], place.soll[t]))
    BY <1>5 DEF Equip, Help
  <2> QED BY <1>1, <2>1, <2>2, HelpOf, HelperMoved
<1>6. (place.told[t] = 0 \/ AtWork(t)) => helpers' = helpers
  BY DEF Equip
<1>7. helpers' \in [Workers -> Helpers]
  BY <1>1, <1>5, <1>6 DEF Moved, ToolTypes
<1>8. ToolTypes'
  BY <1>1, <1>2, <1>3, <1>4, <1>7 DEF ToolTypes, Equip
<1> QED BY <1>2, <1>3, <1>4, <1>5, <1>6, <1>8 DEF Equip

LEMMA EquipIdeKeeps ==
    ASSUME ToolsHeld, Equip(Ide, "ide", "code")
    PROVE  ToolTypes' /\ ToolOrder'
<1>1. /\ ToolTypes /\ ToolOrder /\ Ide \in Tools /\ Ide # Code /\ Ide # Repair /\ Code # Repair
      /\ Tools = {Ide, Code} /\ Workers = {Ide, Code, Repair}
      /\ ToolOf(Ide) = Ide /\ ToolOf(Code) = Code /\ ToolOf(Repair) = Ide
  BY ThreeHelpers DEF ToolsHeld
<1>2. /\ ToolTypes' /\ place.pc = "ide" /\ place'.pc = "code"
      /\ place'.told = place.told /\ place'.soll = place.soll
      /\ last'[Ide].told = place.told[Ide] /\ last'[Ide].soll = place.soll[Ide]
      /\ last'[Code] = last[Code] /\ config'[Code] = config[Code]
      /\ config'[Ide] = (IF config[Ide] = Own THEN Own ELSE place.told[Ide])
      /\ linked' = (place.told[Ide] # 0 /\ installed[Ide] # 0)
      /\ (place.told[Ide] = 0 \/ AtWork(Ide)) => helpers' = helpers
      /\ ~(place.told[Ide] = 0 \/ AtWork(Ide)) =>
             Moved(Ide, Help("look", place.told[Ide], place.soll[Ide]))
  BY <1>1, EquipFacts
<1>3. UNCHANGED <<told, newest, installed, lock, apt, changes, mistakes>>
  BY DEF Equip
<1>4. AtWork(Ide) <=> helpers[Ide].pc \notin {"idle", "wait"} \/ helpers[Repair].pc \notin {"idle", "wait"}
  BY <1>1 DEF AtWork
<1>5. /\ place.told[Ide] \in Told /\ place.soll[Ide] \in Versioned
      /\ \A w \in Workers : helpers[w].pc \in {"idle", "wait", "clear", "look", "fetch", "lock", "dpkg", "again"}
  BY <1>1, HelperFields DEF ToolTypes
<1>6. CASE ~(place.told[Ide] = 0 \/ AtWork(Ide))
  <2>1. /\ helpers'[Ide].pc = "look" /\ helpers'[Ide].told = place.told[Ide]
        /\ helpers'[Ide].soll = place.soll[Ide]
        /\ helpers'[Code] = helpers[Code] /\ helpers'[Repair] = helpers[Repair]
    BY <1>1, <1>2, <1>5, <1>6, HelpOf DEF Moved
  <2>2. HelpersKnow'
    BY <1>1, <1>2, <1>3, <1>4, <1>6, <2>1 DEF ToolOrder, HelpersKnow, Repairing
  <2>3. NoneLeftOver'
    BY <1>1, <1>2, <1>3, <1>4, <1>6, <2>1 DEF ToolOrder, NoneLeftOver
  <2>4. NothingNew'
    BY <1>1, <1>2, <1>3, <1>4, <1>6, <2>1 DEF ToolOrder, NothingNew
  <2>5. Provided'
    BY <1>1, <1>2, <1>3, <1>4, <1>5, <1>6, <2>1
       DEF ToolOrder, Provided, Here, Rewriting, Repairing, Installing
  <2> QED BY <1>2, <2>2, <2>3, <2>4, <2>5 DEF ToolOrder
<1>7. CASE place.told[Ide] = 0 \/ AtWork(Ide)
  <2>1. helpers' = helpers
    BY <1>2, <1>7
  <2>2. helpers[Ide].pc # "idle" => helpers[Ide].told = place.told[Ide] /\ helpers[Ide].soll = place.soll[Ide]
    BY <1>1, <1>2 DEF ToolsHeld, ToolOrder, NoneLeftOver, NothingNew
  <2>3. HelpersKnow'
    BY <1>1, <1>2, <1>3, <2>1, <2>2 DEF ToolOrder, HelpersKnow, Repairing
  <2>4. NoneLeftOver'
    BY <1>1, <1>2, <1>3, <2>1 DEF ToolOrder, NoneLeftOver
  <2>5. NothingNew'
    BY <1>1, <1>2, <1>3, <2>1 DEF ToolOrder, NothingNew
  <2>6. mistakes = 0 /\ helpers[Ide].pc = "again" => installed[Ide] >= place.soll[Ide]
    BY <1>1, <2>2 DEF ToolOrder, HelpersKnow
  <2>7. Provided'
    BY <1>1, <1>2, <1>3, <1>4, <1>5, <1>7, <2>1, <2>2, <2>6
       DEF ToolOrder, Provided, Here, Rewriting, Repairing, Installing, HelpersKnow
  <2> QED BY <1>2, <2>3, <2>4, <2>5, <2>7 DEF ToolOrder
<1> QED BY <1>6, <1>7

LEMMA EquipCodeKeeps ==
    ASSUME ToolsHeld, Equip(Code, "code", "up")
    PROVE  ToolTypes' /\ ToolOrder'
<1>1. /\ ToolTypes /\ ToolOrder /\ Code \in Tools /\ Ide # Code /\ Ide # Repair /\ Code # Repair
      /\ Tools = {Ide, Code} /\ Workers = {Ide, Code, Repair}
      /\ ToolOf(Ide) = Ide /\ ToolOf(Code) = Code /\ ToolOf(Repair) = Ide
  BY ThreeHelpers DEF ToolsHeld
<1>2. /\ ToolTypes' /\ place.pc = "code" /\ place'.pc = "up"
      /\ place'.told = place.told /\ place'.soll = place.soll
      /\ last'[Code].told = place.told[Code] /\ last'[Code].soll = place.soll[Code]
      /\ last'[Ide] = last[Ide] /\ config'[Ide] = config[Ide]
      /\ config'[Code] = (IF config[Code] = Own THEN Own ELSE place.told[Code])
      /\ linked' = linked
      /\ (place.told[Code] = 0 \/ AtWork(Code)) => helpers' = helpers
      /\ ~(place.told[Code] = 0 \/ AtWork(Code)) =>
             Moved(Code, Help("look", place.told[Code], place.soll[Code]))
  BY <1>1, EquipFacts
<1>3. UNCHANGED <<told, newest, installed, lock, apt, changes, mistakes>>
  BY DEF Equip
<1>4. AtWork(Code) <=> helpers[Code].pc \notin {"idle", "wait"}
  BY <1>1 DEF AtWork
<1>5. /\ place.told[Code] \in Told /\ place.soll[Code] \in Versioned
      /\ \A w \in Workers : helpers[w].pc \in {"idle", "wait", "clear", "look", "fetch", "lock", "dpkg", "again"}
  BY <1>1, HelperFields DEF ToolTypes
<1>6. CASE ~(place.told[Code] = 0 \/ AtWork(Code))
  <2>1. /\ helpers'[Code].pc = "look" /\ helpers'[Code].told = place.told[Code]
        /\ helpers'[Code].soll = place.soll[Code]
        /\ helpers'[Ide] = helpers[Ide] /\ helpers'[Repair] = helpers[Repair]
    BY <1>1, <1>2, <1>5, <1>6, HelpOf DEF Moved
  <2>2. HelpersKnow'
    BY <1>1, <1>2, <1>3, <1>4, <1>6, <2>1 DEF ToolOrder, HelpersKnow, Repairing
  <2>3. NoneLeftOver'
    BY <1>1, <1>2, <1>3, <1>4, <1>6, <2>1 DEF ToolOrder, NoneLeftOver
  <2>4. NothingNew'
    BY <1>1, <1>2, <1>3, <1>4, <1>6, <2>1 DEF ToolOrder, NothingNew
  <2>5. Provided'
    BY <1>1, <1>2, <1>3, <1>4, <1>5, <1>6, <2>1
       DEF ToolOrder, Provided, Here, Rewriting, Repairing, Installing
  <2> QED BY <1>2, <2>2, <2>3, <2>4, <2>5 DEF ToolOrder
<1>7. CASE place.told[Code] = 0 \/ AtWork(Code)
  <2>1. helpers' = helpers
    BY <1>2, <1>7
  <2>2. helpers[Code].pc # "idle" => helpers[Code].told = place.told[Code] /\ helpers[Code].soll = place.soll[Code]
    BY <1>1, <1>2 DEF ToolsHeld, ToolOrder, NoneLeftOver, NothingNew
  <2>3. HelpersKnow'
    BY <1>1, <1>2, <1>3, <2>1, <2>2 DEF ToolOrder, HelpersKnow, Repairing
  <2>4. NoneLeftOver'
    BY <1>1, <1>2, <1>3, <2>1 DEF ToolOrder, NoneLeftOver
  <2>5. NothingNew'
    BY <1>1, <1>2, <1>3, <2>1 DEF ToolOrder, NothingNew
  <2>6. mistakes = 0 /\ helpers[Code].pc = "again" => installed[Code] >= place.soll[Code]
    BY <1>1, <2>2 DEF ToolOrder, HelpersKnow
  <2>7. Provided'
    BY <1>1, <1>2, <1>3, <1>4, <1>5, <1>7, <2>1, <2>2, <2>6
       DEF ToolOrder, Provided, Here, Rewriting, Repairing, Installing, HelpersKnow
  <2> QED BY <1>2, <2>3, <2>4, <2>5, <2>7 DEF ToolOrder
<1> QED BY <1>6, <1>7

-----------------------------------------------------------------------------
\* What a helper's step starts from.
LEMMA HelpersHeld ==
    ASSUME ToolsHeld
    PROVE  /\ ToolTypes /\ ToolOrder /\ Ide # Code /\ Ide # Repair /\ Code # Repair
           /\ Tools = {Ide, Code} /\ Workers = {Ide, Code, Repair}
           /\ ToolOf(Ide) = Ide /\ ToolOf(Code) = Code /\ ToolOf(Repair) = Ide
           /\ \A t \in Tools : /\ installed[t] \in Nat /\ last[t].soll \in Nat
                               /\ installed[t] \in Versioned /\ last[t].soll \in Versioned
                               /\ last[t].told \in Told
           /\ \A w \in Workers : /\ helpers[w].pc \in {"idle", "wait", "clear", "look", "fetch",
                                                      "lock", "dpkg", "again"}
                                 /\ helpers[w].told \in Told /\ helpers[w].soll \in Versioned
                                 /\ helpers[w].soll \in Nat
<1>1. /\ ToolTypes /\ ToolOrder /\ Ide # Code /\ Ide # Repair /\ Code # Repair
      /\ Tools = {Ide, Code} /\ Workers = {Ide, Code, Repair}
      /\ ToolOf(Ide) = Ide /\ ToolOf(Code) = Code /\ ToolOf(Repair) = Ide
  BY ThreeHelpers DEF ToolsHeld
<1>2. Versioned \subseteq Nat
  BY DEF ToolsHeld, AiToolsAssumption, Versioned
<1>3. \A t \in Tools : /\ installed[t] \in Versioned /\ last[t].soll \in Versioned
                       /\ last[t].told \in Told
  BY <1>1 DEF ToolTypes
<1>4. \A w \in Workers : /\ helpers[w].pc \in {"idle", "wait", "clear", "look", "fetch",
                                              "lock", "dpkg", "again"}
                         /\ helpers[w].told \in Told /\ helpers[w].soll \in Versioned
  BY <1>1, HelperFields
<1> QED BY <1>1, <1>2, <1>3, <1>4

\* A helper goes on in the same right order when it leaves nothing undone.
LEMMA StepKeeps ==
    ASSUME ToolsHeld, NEW w \in Workers, NEW pc, NEW what, NEW soll,
           helpers[w].pc \notin {"idle", "wait", "again"},
           pc \in {"idle", "look", "fetch", "lock", "dpkg", "again"},
           pc # "idle" => what = helpers[w].told /\ soll = helpers[w].soll,
           w # Repair => helpers[w].pc # "clear",
           pc \in {"look", "fetch", "lock", "dpkg"} => helpers[w].pc \in {"clear", "look", "fetch", "lock"},
           Moved(w, Help(pc, what, soll)),
           Help(pc, what, soll).pc = pc, Help(pc, what, soll).told = what,
           Help(pc, what, soll).soll = soll,
           mistakes' = 0 => mistakes = 0,
           mistakes' = 0 /\ pc \in {"idle", "again"} =>
               installed[ToolOf(w)] >= helpers[w].soll,
           mistakes' = 0 /\ w = Repair => pc # "idle",
           UNCHANGED <<told, newest, installed, place, last>>,
           ToolTypes',
           \/ config' = config /\ linked' = linked /\ helpers[w].pc # "clear"
           \/ /\ w = Repair /\ helpers[w].pc = "clear" /\ pc = "look"
              /\ \A t \in Tools : config'[t] \in {config[t], 0}
              /\ config'[Code] = config[Code]
    PROVE  ToolTypes' /\ ToolOrder'
<1>1. /\ helpers'[w].pc = pc /\ helpers'[w].told = what /\ helpers'[w].soll = soll
      /\ \A v \in Workers \ {w} : helpers'[v] = helpers[v]
  BY DEF Moved
<1>2. HelpersKnow'
  BY <1>1, HelpersHeld DEF ToolOrder, HelpersKnow, Repairing
<1>3. NoneLeftOver'
  BY <1>1, HelpersHeld DEF ToolOrder, NoneLeftOver
<1>4. NothingNew'
  BY <1>1, HelpersHeld DEF ToolOrder, NothingNew
<1>5. Provided'
  <2>1. \A t \in Tools : config'[t] \in {last'[t].told, 0, Own}
    BY HelpersHeld DEF ToolOrder, Provided
  <2>2. w # Repair /\ helpers[w].pc # "idle" => w \in Tools /\ ToolOf(w) = w /\ helpers[w].soll = last[w].soll
    BY HelpersHeld DEF ToolOrder, HelpersKnow
  <2>3. ASSUME mistakes' = 0, NEW t \in Tools, Here(t)'
        PROVE  /\ config'[t] \in {last'[t].told, Own} \/ (t = Ide /\ Rewriting')
               /\ last'[t].told = 0 \/ installed'[t] >= last'[t].soll
                  \/ helpers'[t].pc \in Installing \/ (t = Ide /\ Repairing')
    BY <1>1, <2>2, <2>3, HelpersHeld DEF ToolOrder, Provided, Here, Rewriting, Repairing, Installing
  <2>4. ASSUME mistakes' = 0, Here(Ide)'
        PROVE  \/ linked' = (last'[Ide].told # 0 /\ installed'[Ide] # 0)
               \/ Rewriting' \/ helpers'[Ide].pc = "again"
    BY <1>1, <2>4, HelpersHeld DEF ToolOrder, Provided, Here, Rewriting, Repairing
  <2> QED BY <2>1, <2>3, <2>4 DEF Provided
<1> QED BY <1>2, <1>3, <1>4, <1>5 DEF ToolOrder

LEMMA HelpersTyped ==
    ASSUME ToolsHeld, NEW w \in Workers, NEW pc \in {"idle", "look", "fetch", "lock", "dpkg", "again"},
           NEW what \in Told, NEW soll \in Versioned, Moved(w, Help(pc, what, soll)),
           lock' \in Workers \cup {"free"}, mistakes' \in 0 .. MaxMistakes,
           UNCHANGED <<told, newest, config, installed, linked, place, apt, last, changes>>
    PROVE  /\ ToolTypes' /\ Help(pc, what, soll).pc = pc /\ Help(pc, what, soll).told = what
           /\ Help(pc, what, soll).soll = soll
BY HelpOf DEF ToolsHeld, ToolTypes, Moved

LEMMA FailureKeeps ==
    ASSUME ToolsHeld, NEW w \in Workers, helpers[w].pc \in {"fetch", "dpkg"}, Leaves(w), Mistake,
           lock' \in Workers \cup {"free"},
           UNCHANGED <<told, newest, config, installed, linked, place, apt, last, changes>>
    PROVE  ToolTypes' /\ ToolOrder'
<1>1. mistakes' \in 0 .. MaxMistakes /\ mistakes' # 0
  BY MistakeCounts DEF ToolsHeld, ToolTypes
<1>2. 0 \in Told /\ 0 \in Versioned /\ helpers[w].told \in Told /\ helpers[w].soll \in Versioned
  BY HelpersHeld DEF Told, Versioned
<1>3. helpers \in [Workers -> Helpers]
  BY DEF ToolsHeld, ToolTypes
<1>4. CASE w = Repair
  <2>1. Moved(w, Help("again", helpers[w].told, helpers[w].soll))
    BY <1>3, <1>4, HelperGoes DEF Leaves
  <2> QED BY <1>1, <1>2, <2>1, HelpersTyped, StepKeeps
<1>5. CASE w # Repair
  <2>1. Moved(w, Help("idle", 0, 0))
    BY <1>3, <1>5, HelperEnds DEF Leaves
  <2> QED BY <1>1, <1>2, <1>5, <2>1, HelpersTyped, StepKeeps
<1> QED BY <1>4, <1>5

LEMMA ThreadKeeps ==
    ASSUME ToolsHeld, NEW w \in Workers,
           Look(w) \/ Fetch(w) \/ FetchFails(w) \/ Enter(w) \/ InstallFails(w)
    PROVE  ToolTypes' /\ ToolOrder'
<1>1. /\ 0 \in Told /\ 0 \in Versioned /\ helpers[w].told \in Told /\ helpers[w].soll \in Versioned
      /\ helpers \in [Workers -> Helpers] /\ lock \in Workers \cup {"free"}
      /\ mistakes \in 0 .. MaxMistakes
  BY HelpersHeld DEF Told, Versioned, ToolsHeld, ToolTypes
<1>2. CASE Look(w)
  <2>1. CASE Due(w)
    <3>1. Moved(w, Help("fetch", helpers[w].told, helpers[w].soll))
      BY <1>1, <1>2, <2>1, HelperGoes DEF Look
    <3> QED BY <1>1, <1>2, <3>1, HelpersTyped, StepKeeps DEF Look
  <2>2. CASE ~Due(w)
    <3>1. helpers[w].soll = 0 \/ (w # Repair /\ installed[ToolOf(w)] >= helpers[w].soll)
      BY <2>2, HelpersHeld DEF Due
    <3>2. installed[ToolOf(w)] >= helpers[w].soll
      BY <3>1, HelpersHeld
    <3>3. CASE w = Repair
      <4>1. Moved(w, Help("again", helpers[w].told, helpers[w].soll))
        BY <1>1, <1>2, <2>2, <3>3, HelperGoes DEF Look
      <4> QED BY <1>1, <1>2, <3>2, <4>1, HelpersTyped, StepKeeps DEF Look
    <3>4. CASE w # Repair
      <4>1. Moved(w, Help("idle", 0, 0))
        BY <1>1, <1>2, <2>2, <3>4, HelperEnds DEF Look
      <4> QED BY <1>1, <1>2, <3>2, <3>4, <4>1, HelpersTyped, StepKeeps DEF Look
    <3> QED BY <3>3, <3>4
  <2> QED BY <2>1, <2>2
<1>3. CASE Fetch(w)
  <2>1. Moved(w, Help("lock", helpers[w].told, helpers[w].soll))
    BY <1>1, <1>3, HelperGoes DEF Fetch
  <2> QED BY <1>1, <1>3, <2>1, HelpersTyped, StepKeeps DEF Fetch
<1>4. CASE Enter(w)
  <2>1. Moved(w, Help("dpkg", helpers[w].told, helpers[w].soll))
    BY <1>1, <1>4, HelperGoes DEF Enter
  <2> QED BY <1>1, <1>4, <2>1, HelpersTyped, StepKeeps DEF Enter
<1>5. CASE FetchFails(w)
  BY <1>1, <1>5, FailureKeeps DEF FetchFails
<1>6. CASE InstallFails(w)
  BY <1>1, <1>6, FailureKeeps DEF InstallFails
<1> QED BY <1>2, <1>3, <1>4, <1>5, <1>6

LEMMA InstallKeeps ==
    ASSUME ToolsHeld, NEW w \in Workers, Install(w)
    PROVE  ToolTypes' /\ ToolOrder'
<1> DEFINE what == helpers[w].told
           soll == helpers[w].soll
           h == Help("again", what, soll)
<1>1. /\ helpers[w].pc = "dpkg" /\ what \in Told /\ soll \in Versioned /\ soll \in Nat
      /\ ToolTypes /\ ToolOf(w) \in Tools /\ ToolOrder
  BY HelpersHeld DEF Install
<1>2. Moved(w, h)
  BY <1>1, HelperGoes DEF Install, ToolTypes
<1>3. h.pc = "again" /\ h.told = what /\ h.soll = soll
  BY <1>1, HelpOf
<1>4. /\ installed' \in [Tools -> Versioned] /\ installed'[ToolOf(w)] = soll
      /\ \A t \in Tools \ {ToolOf(w)} : installed'[t] = installed[t]
  BY <1>1 DEF Install, ToolTypes
<1>5. ToolTypes'
  BY <1>1, <1>2, <1>4 DEF Install, ToolTypes, Moved
<1>6. UNCHANGED <<told, newest, config, linked, place, apt, last, changes, mistakes>>
  BY DEF Install
<1> HIDE DEF what, soll, h
<1>7. /\ helpers'[w].pc = "again" /\ helpers'[w].told = what /\ helpers'[w].soll = soll
      /\ \A v \in Workers \ {w} : helpers'[v] = helpers[v]
  BY <1>2, <1>3 DEF Moved
<1>8. what = helpers[w].told /\ soll = helpers[w].soll
  BY DEF what, soll
<1>9. w = Ide => ~Repairing
  BY <1>1 DEF ToolOrder, HelpersKnow
<1>10. w = Repair => helpers[Ide].pc = "idle"
  BY <1>1 DEF ToolOrder, HelpersKnow, Repairing
<1>11. HelpersKnow'
  <2>1. \A v \in Workers : helpers'[v].pc = "again" /\ mistakes' = 0 =>
            installed'[ToolOf(v)] >= helpers'[v].soll
    BY <1>1, <1>4, <1>6, <1>7, <1>8, <1>9, <1>10, HelpersHeld
       DEF ToolOrder, HelpersKnow, Repairing
  <2> QED BY <1>1, <1>6, <1>7, <1>8, <1>9, <2>1, HelpersHeld DEF ToolOrder, HelpersKnow, Repairing
<1>12. NoneLeftOver'
  BY <1>1, <1>6, <1>7, HelpersHeld DEF ToolOrder, NoneLeftOver
<1>13. NothingNew'
  BY <1>1, <1>6, <1>7, <1>8, HelpersHeld DEF ToolOrder, NothingNew
<1>14. Provided'
  <2>1. w # Repair => w \in Tools /\ ToolOf(w) = w /\ soll = last[w].soll
    BY <1>1, <1>8, HelpersHeld DEF ToolOrder, HelpersKnow
  <2>2. ASSUME mistakes' = 0, NEW t \in Tools, Here(t)'
        PROVE  /\ config'[t] \in {last'[t].told, Own} \/ (t = Ide /\ Rewriting')
               /\ last'[t].told = 0 \/ installed'[t] >= last'[t].soll
                  \/ helpers'[t].pc \in Installing \/ (t = Ide /\ Repairing')
    BY <1>1, <1>4, <1>6, <1>7, <2>1, <2>2, HelpersHeld
       DEF ToolOrder, Provided, Here, Rewriting, Repairing, Installing
  <2>3. ASSUME mistakes' = 0, Here(Ide)'
        PROVE  \/ linked' = (last'[Ide].told # 0 /\ installed'[Ide] # 0)
               \/ Rewriting' \/ helpers'[Ide].pc = "again"
    BY <1>1, <1>4, <1>6, <1>7, <2>3, HelpersHeld DEF ToolOrder, Provided, Here, Rewriting, Repairing
  <2> QED BY <1>1, <1>6, <2>2, <2>3 DEF ToolOrder, Provided
<1> QED BY <1>5, <1>11, <1>12, <1>13, <1>14 DEF ToolOrder

LEMMA AgainFacts ==
    ASSUME AiToolsAssumption, ToolTypes, NEW w \in Workers, Again(w)
    PROVE  /\ ToolTypes' /\ helpers[w].pc = "again" /\ helpers'[w].pc = "idle"
           /\ \A v \in Workers \ {w} : helpers'[v] = helpers[v]
           /\ w = Code => UNCHANGED <<config, linked>>
           /\ w # Code => /\ config'[Ide] = (IF config[Ide] = Own THEN Own ELSE helpers[w].told)
                          /\ config'[Code] = config[Code]
                          /\ linked' = (helpers[w].told # 0 /\ installed[Ide] # 0)
           /\ w # Repair => last' = last
           /\ w = Repair => /\ last'[Ide].told = helpers[w].told
                            /\ last'[Ide].soll = helpers[w].soll /\ last'[Code] = last[Code]
           /\ UNCHANGED <<told, newest, installed, place, lock, apt, changes, mistakes>>
<1>1. /\ ToolTypes /\ helpers[w].pc = "again" /\ helpers[w].told \in Told
      /\ helpers[w].soll \in Versioned /\ Ide \in Tools /\ Ide # Code /\ Tools = {Ide, Code}
      /\ 0 \in Told /\ 0 \in Versioned
  BY ThreeHelpers, HelperFields DEF Again, Told, Versioned
<1>2. Moved(w, Help("idle", 0, 0))
  BY <1>1, HelperEnds DEF Again, ToolTypes
<1>3. helpers'[w].pc = "idle"
  BY <1>1, <1>2, HelpOf DEF Moved
<1>4. /\ last' \in [Tools -> [told : Told, soll : Versioned]]
      /\ w # Repair => last' = last
      /\ w = Repair => /\ last'[Ide].told = helpers[w].told
                       /\ last'[Ide].soll = helpers[w].soll /\ last'[Code] = last[Code]
  <2>1. CASE w = Repair
    <3>1. last' = [last EXCEPT ![Ide] = [told |-> helpers[w].told, soll |-> helpers[w].soll]]
      BY <2>1 DEF Again, Says
    <3> QED BY <1>1, <2>1, <3>1, RecordOfLast DEF ToolTypes
  <2>2. CASE w # Repair
    BY <1>1, <2>2 DEF Again, Says, ToolTypes
  <2> QED BY <2>1, <2>2
<1>5. /\ config' \in [Tools -> Told \cup {Own}] /\ linked' \in BOOLEAN
      /\ w # Code => /\ config'[Ide] = (IF config[Ide] = Own THEN Own ELSE helpers[w].told)
                     /\ config'[Code] = config[Code]
                     /\ linked' = (helpers[w].told # 0 /\ installed[Ide] # 0)
      /\ w = Code => UNCHANGED <<config, linked>>
  <2>1. CASE w = Code
    BY <1>1, <2>1 DEF Again, ToolTypes
  <2>2. CASE w # Code
    <3>1. Configured(Ide, helpers[w].told)
      BY <2>2 DEF Again
    <3> QED BY <1>1, <2>2, <3>1, ConfiguredTypes
  <2> QED BY <2>1, <2>2
<1>6. ToolTypes'
  BY <1>1, <1>2, <1>4, <1>5 DEF ToolTypes, Again, Moved
<1> QED BY <1>1, <1>2, <1>3, <1>4, <1>5, <1>6 DEF Again, Moved

LEMMA AgainKeeps ==
    ASSUME ToolsHeld, NEW w \in Workers, Again(w)
    PROVE  ToolTypes' /\ ToolOrder'
<1>1. /\ ToolTypes' /\ helpers[w].pc = "again" /\ helpers'[w].pc = "idle"
      /\ \A v \in Workers \ {w} : helpers'[v] = helpers[v]
      /\ w = Code => UNCHANGED <<config, linked>>
      /\ w # Code => /\ config'[Ide] = (IF config[Ide] = Own THEN Own ELSE helpers[w].told)
                     /\ config'[Code] = config[Code]
                     /\ linked' = (helpers[w].told # 0 /\ installed[Ide] # 0)
      /\ w # Repair => last' = last
      /\ w = Repair => /\ last'[Ide].told = helpers[w].told
                       /\ last'[Ide].soll = helpers[w].soll /\ last'[Code] = last[Code]
      /\ UNCHANGED <<told, newest, installed, place, lock, apt, changes, mistakes>>
  BY AgainFacts DEF ToolsHeld
<1>2. w = Repair => helpers[Ide].pc = "idle"
  BY <1>1, HelpersHeld DEF ToolOrder, HelpersKnow, Repairing
<1>3. w \in Tools => helpers[w].told = last[w].told
  BY <1>1, HelpersHeld DEF ToolOrder, HelpersKnow
<1>4. mistakes = 0 => installed[ToolOf(w)] >= helpers[w].soll
  BY <1>1, HelpersHeld DEF ToolOrder, HelpersKnow
<1>5. HelpersKnow'
  BY <1>1, <1>2, HelpersHeld DEF ToolOrder, HelpersKnow, Repairing
<1>6. NoneLeftOver'
  BY <1>1, HelpersHeld DEF ToolOrder, NoneLeftOver
<1>7. NothingNew'
  BY <1>1, HelpersHeld DEF ToolOrder, NothingNew
<1>8. Provided'
  <2>1. \A t \in Tools : config'[t] \in {last'[t].told, 0, Own}
    BY <1>1, <1>3, HelpersHeld DEF ToolOrder, Provided
  <2>2. ASSUME mistakes' = 0, NEW t \in Tools, Here(t)'
        PROVE  /\ config'[t] \in {last'[t].told, Own} \/ (t = Ide /\ Rewriting')
               /\ last'[t].told = 0 \/ installed'[t] >= last'[t].soll
                  \/ helpers'[t].pc \in Installing \/ (t = Ide /\ Repairing')
    BY <1>1, <1>2, <1>3, <1>4, <2>2, HelpersHeld
       DEF ToolOrder, Provided, Here, Rewriting, Repairing, Installing
  <2>3. ASSUME mistakes' = 0, Here(Ide)'
        PROVE  \/ linked' = (last'[Ide].told # 0 /\ installed'[Ide] # 0)
               \/ Rewriting' \/ helpers'[Ide].pc = "again"
    BY <1>1, <1>2, <1>3, <2>3, HelpersHeld DEF ToolOrder, Provided, Here, Rewriting, Repairing
  <2> QED BY <2>1, <2>2, <2>3 DEF Provided
<1> QED BY <1>1, <1>5, <1>6, <1>7, <1>8 DEF ToolOrder

LEMMA EndsKeeps ==
    ASSUME ToolsHeld, NEW w \in Workers, Ends(w)
    PROVE  ToolTypes' /\ ToolOrder'
<1>1. place.pc = "down" /\ ToolTypes /\ ToolOrder
  BY HelpersHeld DEF Ends, Up
<1>2. Moved(w, Help("idle", 0, 0))
  BY <1>1, HelperEnds DEF Ends, ToolTypes
<1>3. 0 \in Told /\ 0 \in Versioned
  BY DEF Told, Versioned
<1>4. ToolTypes' /\ helpers'[w].pc = "idle" /\ \A v \in Workers \ {w} : helpers'[v] = helpers[v]
  <2>1. lock' \in Workers \cup {"free"}
    BY <1>1 DEF Ends, ToolTypes
  <2> QED BY <1>1, <1>2, <1>3, <2>1, HelpOf DEF Ends, ToolTypes, Moved
<1>5. UNCHANGED <<told, newest, config, installed, linked, place, apt, last, changes, mistakes>>
  BY DEF Ends
<1>6. HelpersKnow' /\ NoneLeftOver' /\ NothingNew'
  BY <1>1, <1>4, <1>5, HelpersHeld DEF ToolOrder, HelpersKnow, NoneLeftOver, NothingNew, Repairing
<1>7. Provided'
  BY <1>1, <1>5, HelpersHeld DEF ToolOrder, Provided, Here
<1> QED BY <1>4, <1>6, <1>7 DEF ToolOrder

LEMMA AskKeeps ==
    ASSUME ToolsHeld, Ask
    PROVE  ToolTypes' /\ ToolOrder'
<1>1. /\ place.pc = "up" /\ helpers[Repair].pc = "idle" /\ Repair \in Workers /\ Ide \in Tools
      /\ ToolTypes /\ ToolOrder
  BY HelpersHeld DEF Ask
<1>2. told[Ide] \in Told /\ newest[Ide] \in Versioned
  BY <1>1 DEF ToolTypes
<1>3. Moved(Repair, Help("wait", told[Ide], newest[Ide]))
  <2>1. Helps(Repair, Help("wait", told[Ide], newest[Ide]))
    BY DEF Ask, Help
  <2> QED BY <1>1, <1>2, <2>1, HelpOf, HelperMoved DEF ToolTypes
<1>4. /\ helpers'[Repair].pc = "wait" /\ helpers'[Repair].told = told[Ide]
      /\ helpers'[Repair].soll = newest[Ide]
      /\ \A v \in Workers \ {Repair} : helpers'[v] = helpers[v]
  BY <1>2, <1>3, HelpOf DEF Moved
<1>5. UNCHANGED <<told, newest, config, installed, linked, place, lock, apt, last, changes, mistakes>>
  BY DEF Ask
<1>6. ToolTypes'
  BY <1>1, <1>3, <1>5 DEF ToolTypes, Moved
<1>7. HelpersKnow' /\ NoneLeftOver'
  BY <1>1, <1>4, <1>5, HelpersHeld DEF ToolOrder, HelpersKnow, NoneLeftOver, Repairing
<1>8. NothingNew'
  BY <1>1, <1>4, <1>5, HelpersHeld DEF ToolOrder, NothingNew
<1>9. Provided'
  <2>1. Repairing' = Repairing /\ Rewriting' = Rewriting
    BY <1>1, <1>4 DEF Repairing, Rewriting
  <2>2. \A t \in Tools : helpers'[t] = helpers[t]
    BY <1>4, HelpersHeld
  <2> QED BY <1>1, <1>5, <2>1, <2>2 DEF ToolOrder, Provided, Here
<1> QED BY <1>6, <1>7, <1>8, <1>9 DEF ToolOrder

LEMMA BeginKeeps ==
    ASSUME ToolsHeld, Begin
    PROVE  ToolTypes' /\ ToolOrder'
<1>1. helpers[Repair].pc = "wait" /\ Repair \in Workers /\ Ide \in Tools /\ ToolTypes /\ ToolOrder
  BY HelpersHeld DEF Begin
<1>2. /\ helpers[Repair].told \in Told /\ helpers[Repair].soll \in Versioned
      /\ 0 \in Told /\ 0 \in Versioned
  BY <1>1, HelperFields DEF Told, Versioned
<1>3. UNCHANGED <<told, newest, config, installed, linked, place, lock, apt, last, changes, mistakes>>
  BY DEF Begin
<1>4. /\ \A v \in Workers \ {Repair} : helpers'[v] = helpers[v]
      /\ \/ helpers'[Repair].pc = "idle"
         \/ /\ helpers'[Repair].pc = "clear" /\ ~AtWork(Ide)
            /\ helpers'[Repair].told = helpers[Repair].told
            /\ helpers'[Repair].soll = helpers[Repair].soll
      /\ ToolTypes'
  <2>1. CASE AtWork(Ide)
    <3>1. Moved(Repair, Help("idle", 0, 0))
      BY <1>1, <2>1, HelperEnds DEF Begin, ToolTypes
    <3>2. Help("idle", 0, 0).pc = "idle"
      BY <1>2, HelpOf
    <3>3. ToolTypes'
      BY <1>1, <1>3, <3>1 DEF Moved, ToolTypes
    <3> QED BY <3>1, <3>2, <3>3 DEF Moved
  <2>2. CASE ~AtWork(Ide)
    <3> DEFINE h == Help("clear", helpers[Repair].told, helpers[Repair].soll)
    <3>1. Moved(Repair, h)
      BY <1>1, <2>2, HelperGoes DEF Begin, ToolTypes
    <3>2. h.pc = "clear" /\ h.told = helpers[Repair].told /\ h.soll = helpers[Repair].soll
      BY <1>2, HelpOf
    <3> HIDE DEF h
    <3>3. ToolTypes'
      BY <1>1, <1>3, <3>1 DEF Moved, ToolTypes
    <3> QED BY <2>2, <3>1, <3>2, <3>3 DEF Moved
  <2> QED BY <2>1, <2>2
<1>5. ~AtWork(Ide) => helpers[Ide].pc = "idle"
  BY <1>1, HelpersHeld DEF AtWork, ToolOrder, HelpersKnow
<1>6. HelpersKnow'
  BY <1>1, <1>3, <1>4, <1>5, HelpersHeld DEF ToolOrder, HelpersKnow, Repairing
<1>7. NoneLeftOver'
  BY <1>1, <1>3, <1>4, HelpersHeld DEF ToolOrder, NoneLeftOver
<1>8. NothingNew'
  BY <1>1, <1>3, <1>4, HelpersHeld DEF ToolOrder, NothingNew
<1>9. Provided'
  BY <1>1, <1>3, <1>4, <1>5, HelpersHeld
     DEF ToolOrder, Provided, Here, Repairing, Rewriting, Installing
<1> QED BY <1>4, <1>6, <1>7, <1>8, <1>9 DEF ToolOrder

LEMMA ClearKeeps ==
    ASSUME ToolsHeld, Clear
    PROVE  ToolTypes' /\ ToolOrder'
<1>1. helpers[Repair].pc = "clear" /\ Repair \in Workers /\ ToolTypes /\ Tools = {Ide, Code}
  BY HelpersHeld DEF Clear
<1>2. helpers[Repair].told \in Told /\ helpers[Repair].soll \in Versioned /\ 0 \in Told
  BY <1>1, HelperFields DEF Told
<1> DEFINE h == Help("look", helpers[Repair].told, helpers[Repair].soll)
<1>3. Moved(Repair, h)
  BY <1>1, HelperGoes DEF Clear, ToolTypes
<1>4. h.pc = "look" /\ h.told = helpers[Repair].told /\ h.soll = helpers[Repair].soll
  BY <1>2, HelpOf
<1>5. /\ config' \in [Tools -> Told \cup {Own}] /\ config'[Code] = config[Code]
      /\ \A t \in Tools : config'[t] \in {config[t], 0}
  BY <1>1, <1>2, HelpersHeld DEF Clear, ToolTypes
<1>6. ToolTypes'
  BY <1>1, <1>3, <1>5 DEF Clear, ToolTypes, Moved
<1> QED BY <1>1, <1>3, <1>4, <1>5, <1>6, StepKeeps DEF Clear

LEMMA RestartKeeps ==
    ASSUME ToolsHeld, Restart
    PROVE  ToolTypes' /\ ToolOrder'
<1>1. ToolTypes /\ ToolOrder /\ 0 \in Told /\ 0 \in Versioned
  BY DEF ToolsHeld, Told, Versioned
<1>2. mistakes' \in 0 .. MaxMistakes /\ mistakes' # 0
  BY <1>1, MistakeCounts DEF ToolsHeld, ToolTypes, Restart
<1>3. NoHelp \in Helpers /\ NoHelp.pc = "idle"
  BY <1>1, HelpOf, NoHelpIsIdle
<1>4. helpers' \in [Workers -> Helpers] /\ \A w \in Workers : helpers'[w].pc = "idle"
  BY <1>3 DEF Restart
<1>5. ToolTypes'
  BY <1>1, <1>2, <1>4 DEF Restart, ToolTypes
<1>6. HelpersKnow' /\ NoneLeftOver' /\ NothingNew'
  BY <1>1, <1>4, HelpersHeld DEF Restart, ToolOrder, HelpersKnow, NoneLeftOver, NothingNew
<1>7. Provided'
  BY <1>1, <1>2 DEF Restart, ToolOrder, Provided
<1> QED BY <1>5, <1>6, <1>7 DEF ToolOrder

-----------------------------------------------------------------------------
LEMMA ToolsBegin ==
    ASSUME AiToolsAssumption, ToolInit
    PROVE  ToolTypes /\ ToolOrder
<1>1. 0 \in Told /\ 0 \in Versioned /\ NoHelp \in Helpers /\ NoHelp.pc = "idle"
  <2>1. 0 \in Told /\ 0 \in Versioned
    BY DEF Told, Versioned
  <2> QED BY <2>1, HelpOf, NoHelpIsIdle
<1>2. Nothing \in [Tools -> Told] /\ Nothing \in [Tools -> Versioned]
  BY <1>1 DEF Nothing
<1>3. \A t \in Tools : config[t] \in {0, Own} /\ config \in [Tools -> Told \cup {Own}]
  BY <1>1 DEF ToolInit, Nothing
<1>4. \A w \in Workers : helpers[w].pc = "idle" /\ helpers \in [Workers -> Helpers]
  BY <1>1 DEF ToolInit
<1>5. place.pc = "down" /\ place \in [pc : {"down", "ide", "code", "up"}, told : [Tools -> Told],
                                      soll : [Tools -> Versioned]]
  BY <1>2 DEF ToolInit
<1>6. last \in [Tools -> [told : Told, soll : Versioned]]
  BY <1>1 DEF ToolInit
<1>7. told \in [Tools -> Told] /\ newest \in [Tools -> Versioned]
  BY DEF ToolInit, Told, Versioned
<1>8. \A w \in Workers : Ide \in Tools /\ Tools \subseteq Workers /\ Repair \in Workers
  BY DEF Tools, Workers
<1>9. ToolTypes
  <2>1. changes \in 0 .. MaxChanges /\ mistakes \in 0 .. MaxMistakes
    BY DEF ToolInit, AiToolsAssumption
  <2>2. helpers \in [Workers -> Helpers] /\ config \in [Tools -> Told \cup {Own}]
    BY <1>3, <1>4, <1>8 DEF Tools, Workers
  <2> QED BY <1>2, <1>5, <1>6, <1>7, <2>1, <2>2 DEF ToolTypes, ToolInit
<1>10. HelpersKnow /\ NoneLeftOver /\ NothingNew
  BY <1>4, <1>5, <1>8 DEF HelpersKnow, NoneLeftOver, NothingNew, Repairing, Tools, Workers
<1>11. Provided
  BY <1>3, <1>5 DEF Provided, Here
<1> QED BY <1>9, <1>10, <1>11 DEF ToolOrder

\* The types alone hold whatever the constants allow.
LEMMA ToolTypesKept ==
    ASSUME AiToolsAssumption, ToolTypes, [ToolNext]_toolVars
    PROVE  ToolTypes'
<1>1. /\ 0 \in Told /\ 0 \in Versioned /\ Settings \subseteq Told /\ Own \in Told \cup {Own}
      /\ NoHelp \in Helpers
  <2>1. 0 \in Told /\ 0 \in Versioned /\ Settings \subseteq Told
    BY DEF Told, Versioned
  <2> QED BY <2>1, HelpOf, NoHelpIsIdle
<1>2. ASSUME NEW t \in Tools, NEW what \in Settings \cup {0}, Save(t, what) PROVE ToolTypes'
  BY <1>2, ChangeCounts DEF Save, ToolTypes, Told
<1>3. ASSUME NEW t \in Tools, NEW r \in Releases \cup {0}, Deliver(t, r) PROVE ToolTypes'
  BY <1>3, ChangeCounts DEF Deliver, ToolTypes, Versioned
<1>4. CASE TakeOver
  BY <1>4, ChangeCounts DEF TakeOver, ToolTypes
<1>5. CASE UseApt
  <2>1. changes' \in 0 .. MaxChanges
    BY <1>5, ChangeCounts DEF UseApt, ToolTypes
  <2> QED BY <1>5, <2>1 DEF UseApt, ToolTypes
<1>6. CASE Resume
  BY <1>6 DEF Resume, ToolTypes
<1>7. ASSUME NEW t \in Tools, NEW pc, NEW next \in {"code", "up"}, Equip(t, pc, next)
      PROVE  ToolTypes'
  BY <1>7, EquipFacts
<1>8. CASE Halt
  BY <1>8, PlaceMoves DEF Halt, ToolTypes
<1>9. ASSUME NEW w \in Workers, NEW pc \in {"fetch", "lock", "dpkg", "again", "clear", "look"},
             Helps(w, NoHelp) \/ HelpGoes(w, pc)
      PROVE  helpers' \in [Workers -> Helpers]
  <2>1. helpers \in [Workers -> Helpers]
    BY DEF ToolTypes
  <2>2. CASE Helps(w, NoHelp)
    BY <1>1, <2>1, <2>2, HelperEnds DEF Moved
  <2>3. CASE HelpGoes(w, pc)
    BY <2>1, <2>3, HelperGoes DEF Moved
  <2> QED BY <1>9, <2>2, <2>3
<1>10. ASSUME NEW w \in Workers, Leaves(w) PROVE helpers' \in [Workers -> Helpers]
  BY <1>9, <1>10 DEF Leaves
<1>11. ASSUME NEW w \in Workers, Look(w) \/ Fetch(w) \/ Enter(w) \/ Ends(w) PROVE ToolTypes'
  <2>1. helpers' \in [Workers -> Helpers]
    BY <1>9, <1>11 DEF Look, Fetch, Enter, Ends
  <2>2. lock' \in Workers \cup {"free"}
    BY <1>11 DEF Look, Fetch, Enter, Ends, ToolTypes
  <2> QED BY <1>11, <2>1, <2>2 DEF Look, Fetch, Enter, Ends, ToolTypes
<1>12. ASSUME NEW w \in Workers, FetchFails(w) \/ InstallFails(w) PROVE ToolTypes'
  <2>1. helpers' \in [Workers -> Helpers] /\ mistakes' \in 0 .. MaxMistakes
    BY <1>10, <1>12, MistakeCounts DEF FetchFails, InstallFails, ToolTypes
  <2> QED BY <1>12, <2>1 DEF FetchFails, InstallFails, ToolTypes
<1>13. ASSUME NEW w \in Workers, Install(w) PROVE ToolTypes'
  <2>1. helpers' \in [Workers -> Helpers] /\ helpers[w].soll \in Versioned
    BY <1>9, <1>13, HelperFields DEF Install
  <2> QED BY <1>13, <2>1 DEF Install, ToolTypes
<1>14. ASSUME NEW w \in Workers, Again(w) PROVE ToolTypes'
  BY <1>14, AgainFacts
<1>15. CASE Ask
  <2>1. told[Ide] \in Told /\ newest[Ide] \in Versioned /\ Repair \in Workers
    BY DEF ToolTypes, Tools, Workers
  <2>2. Helps(Repair, Help("wait", told[Ide], newest[Ide]))
    BY <1>15 DEF Ask, Help
  <2>3. helpers' \in [Workers -> Helpers]
    BY <2>1, <2>2, HelpOf, HelperMoved DEF ToolTypes, Moved
  <2> QED BY <1>15, <2>3 DEF Ask, ToolTypes
<1>16. CASE Begin
  <2>1. helpers' \in [Workers -> Helpers]
    BY <1>9, <1>16 DEF Begin, Workers
  <2> QED BY <1>16, <2>1 DEF Begin, ToolTypes
<1>17. CASE Clear
  <2>1. helpers' \in [Workers -> Helpers]
    BY <1>9, <1>17 DEF Clear, Workers
  <2> QED BY <1>1, <1>17, <2>1 DEF Clear, ToolTypes
<1>18. CASE Restart
  BY <1>1, <1>18, MistakeCounts DEF Restart, ToolTypes
<1>19. CASE UNCHANGED toolVars
  BY <1>19 DEF toolVars, ToolTypes
<1>20. Ide \in Tools /\ Code \in Tools
  BY DEF Tools
<1> QED BY <1>2, <1>3, <1>4, <1>5, <1>6, <1>7, <1>8, <1>11, <1>12, <1>13, <1>14, <1>15, <1>16,
           <1>17, <1>18, <1>19, <1>20 DEF ToolNext

LEMMA ToolStepKeeps ==
    ASSUME ToolsHeld, [ToolNext]_toolVars
    PROVE  ToolsHeld'
<1>1. ToolTypes' /\ ToolOrder'
  <2>1. ASSUME NEW t \in Tools, NEW what \in Settings \cup {0}, Save(t, what)
        PROVE  ToolTypes' /\ ToolOrder'
    <3>1. what \in Told /\ 0 \in Versioned
      BY DEF Told, Versioned
    <3> QED BY <2>1, <3>1, ChangesKeep
  <2>2. ASSUME NEW t \in Tools, NEW r \in Releases \cup {0}, Deliver(t, r)
        PROVE  ToolTypes' /\ ToolOrder'
    <3>1. r \in Versioned /\ 0 \in Told
      BY DEF Told, Versioned
    <3> QED BY <2>2, <3>1, ChangesKeep
  <2>3. CASE TakeOver \/ UseApt
    <3>1. 0 \in Versioned /\ 0 \in Told /\ Ide \in Tools
      BY DEF Told, Versioned, Tools
    <3> QED BY <2>3, <3>1, ChangesKeep
  <2>4. CASE Resume
    BY <2>4, ResumeKeeps
  <2>5. CASE Equip(Ide, "ide", "code")
    BY <2>5, EquipIdeKeeps
  <2>6. CASE Equip(Code, "code", "up")
    BY <2>6, EquipCodeKeeps
  <2>7. CASE Halt
    BY <2>7, HaltKeeps
  <2>8. ASSUME NEW w \in Workers,
               Look(w) \/ Fetch(w) \/ FetchFails(w) \/ Enter(w) \/ InstallFails(w)
        PROVE  ToolTypes' /\ ToolOrder'
    BY <2>8, ThreadKeeps
  <2>9. ASSUME NEW w \in Workers, Install(w)
        PROVE  ToolTypes' /\ ToolOrder'
    BY <2>9, InstallKeeps
  <2>10. ASSUME NEW w \in Workers, Again(w)
         PROVE  ToolTypes' /\ ToolOrder'
    BY <2>10, AgainKeeps
  <2>11. ASSUME NEW w \in Workers, Ends(w)
         PROVE  ToolTypes' /\ ToolOrder'
    BY <2>11, EndsKeeps
  <2>12. CASE Ask
    BY <2>12, AskKeeps
  <2>13. CASE Begin
    BY <2>13, BeginKeeps
  <2>14. CASE Clear
    BY <2>14, ClearKeeps
  <2>15. CASE Restart
    BY <2>15, RestartKeeps
  <2>16. CASE UNCHANGED toolVars
    BY <2>16 DEF toolVars, ToolsHeld, ToolTypes, ToolOrder, HelpersKnow, NoneLeftOver, NothingNew,
                 Provided, Here, Repairing, Rewriting
  <2> QED BY <2>1, <2>2, <2>3, <2>4, <2>5, <2>6, <2>7, <2>8, <2>9, <2>10, <2>11, <2>12, <2>13,
             <2>14, <2>15, <2>16 DEF ToolNext
<1> QED BY <1>1 DEF ToolsHeld

LEMMA ToolOrderSettles ==
    ASSUME ToolsHeld
    PROVE  Settled
<1>1. SUFFICES ASSUME Quiet PROVE Settled
  BY DEF Settled
<1>2. /\ place.pc = "up" /\ Ide \in Tools /\ \A t \in Tools : helpers[t].pc = "idle"
      /\ helpers[Repair].pc = "idle"
  BY <1>1, HelpersHeld DEF Quiet
<1>3. \A t \in Tools : Here(t)
  BY <1>2 DEF Here
<1>4. ~Rewriting /\ ~Repairing
  BY <1>2 DEF Rewriting, Repairing
<1> QED BY <1>2, <1>3, <1>4, HelpersHeld DEF Settled, ToolOrder, Provided, Installing

\* Types of IDE-AI and opencode: every step of a start, of a thread, of the repair and of the
\* user's apt keeps the settings, versions and threads where im_container and ki.py hold them.
THEOREM ToolTypesHold ==
    ASSUME AiToolsAssumption
    PROVE  ToolSpec => []ToolTypeOK
<1>1. ToolInit => ToolTypes
  BY ToolsBegin
<1>2. ToolTypes /\ [ToolNext]_toolVars => ToolTypes'
  BY ToolTypesKept
<1>3. ToolTypes => ToolTypeOK
  BY ToolTypesAlike
<1> QED BY <1>1, <1>2, <1>3, PTL DEF ToolSpec

\* When nothing works in the container any more it holds what its latest start or repair told it
\* (or what is the user's), and both tools have come and are linked unless something has failed:
\* for any settings, versions and number of failures, as long as the container is halted only
\* when no thread works in it, or nobody changes anything meanwhile.
THEOREM ToolsSettle ==
    ASSUME AiToolsAssumption, HaltsWait \/ MaxChanges = 0
    PROVE  ToolSpec => []Settled
<1>1. ToolInit => ToolsHeld
  BY ToolsBegin DEF ToolsHeld
<1>2. ToolsHeld /\ [ToolNext]_toolVars => ToolsHeld'
  BY ToolStepKeeps
<1>3. ToolsHeld => Settled
  BY ToolOrderSettles
<1> QED BY <1>1, <1>2, <1>3, PTL DEF ToolSpec

-----------------------------------------------------------------------------
(* The package repository: types, and its inductive invariant.                *)

\* PackTypeOK, and the job as the record it is.
Taken == Snapshots \cup {None}
Tasks == [kind : Kinds \cup {"none"}, of : Names \cup Debs \cup {""}, at : 0 .. OwnPart + 1,
          step : {"", "make", "publish", "book", "sweep"}, parts : SUBSET Parts,
          aktuell : [Spiegel -> Taken]]
PackTypes == PackTypeOK /\ job \in Tasks

\* How far a job may have come.
TaskOrder ==
    /\ job.kind # "none" => job.at >= 1
    /\ job.kind = "sync" =>
         /\ job.step # "" /\ syncs >= 1
         /\ job.at <= OwnPart /\ (job.step # "make" => job.at <= Mirrors)
    /\ job.kind = "hold" =>
         /\ job.step \in {"make", "publish"} /\ (job.step = "publish" => job.at <= OwnPart)
         /\ job.of \in Names \ HeldNames
    /\ job.kind = "drop" => job.of \in HeldNames
    /\ job.kind = "back" =>
         /\ job.step \in {"make", "sweep"} /\ job.at <= OwnPart /\ job.of \in HeldNames
         /\ job.step = "sweep" => job.at <= Mirrors
    /\ job.kind \in {"add", "remove"} => job.step \in {"make", "publish"} /\ job.of \in Debs

\* What the notes are behind by is what the job under way is about to write.
NotesFollow ==
    /\ job.kind = "back" => job.aktuell = delivers
    /\ Doing("sync", "book") => delivers = [aktuell EXCEPT ![job.at] = AutoOf(job.at, syncs)]
    /\ job.kind # "back" /\ ~Doing("sync", "book") => aktuell = delivers
    /\ ~(job.kind \in {"add", "remove"} /\ job.step = "publish") => repo = served

\* What is delivered is there, and is of the mirror it is delivered for.
DeliveredIsThere ==
    /\ \A i \in Spiegel : delivers[i] # None => delivers[i] \in snapshots /\ delivers[i][2] = i
    /\ Doing("sync", "publish") => AutoOf(job.at, syncs) \in snapshots

\* The parts of a held state are there, and of no other state, but for the one that a job
\* makes or takes apart.
Reaches(i) == i < job.at \/ (job.step = "publish" /\ i = job.at)
PartsAreThere ==
    /\ \A a \in Names, i \in Parts : Fest(i, a) \in snapshots =>
         a \in HeldNames \/ (job.kind = "hold" /\ job.of = a /\ Reaches(i))
    /\ \A h \in held : ~(job.kind = "drop" /\ job.of = h[1]) =>
         <<h[1], OwnPart>> \in shown /\ \A i \in h[2] : Fest(i, h[1]) \in snapshots
    /\ \A m \in merged : m[2][1] \notin Names
    /\ job.kind = "hold" =>
         /\ \A i \in job.parts : Fest(i, job.of) \in snapshots
         /\ job.step = "publish" => Fest(job.at, job.of) \in snapshots
         /\ job.at > OwnPart => <<job.of, OwnPart>> \in shown
         /\ \A i \in Spiegel : aktuell[i][1] \notin Names
    /\ job.kind = "drop" =>
         /\ \A i \in Parts : i < job.at => Fest(i, job.of) \notin snapshots
         /\ \A i \in Spiegel : delivers[i] # Fest(i, job.of)

\* What the API remembers, or is about to, serves whom it is for.
Known == cache \cup asking
AnswersServe ==
    /\ \A q \in Known : \A a \in q.states :
         <<a, OwnPart>> \in shown \/ (job.kind = "drop" /\ job.of = a)
    /\ job.kind = "drop" => job.of # target
    /\ target \in HeldNames => \A q \in Known : target \in q.states
    /\ \A b \in builds : b[2] => ~(job.kind = "drop" /\ job.of = b[1])
    /\ mode = "nur" =>
         /\ \E i \in Spiegel : delivers[i] # None
         /\ spiegel => \A q \in Known : q.mirrors # {}

\* The part of BuildsFromHeld that is not of what is known.
BuildsKept == \A b \in builds : b[2] => <<b[1], OwnPart>> \in shown

PackOrder == /\ TaskOrder /\ NotesFollow /\ DeliveredIsThere /\ PartsAreThere /\ AnswersServe
             /\ BuildsKept /\ SourcesRemain
PackInv == PackTypes /\ PackOrder

LEMMA MirrorsAreParts ==
    ASSUME PackagesAssumption
    PROVE  /\ Spiegel \subseteq Parts /\ Spiegel \subseteq Nat /\ Parts \subseteq Nat
           /\ OwnPart \in Parts /\ OwnPart \notin Spiegel /\ OwnPart \in Nat /\ Mirrors \in Nat
           /\ 1 \in Parts /\ 1 <= OwnPart /\ ~(1 > OwnPart) /\ \A i \in Parts : ~(i < 1)
           /\ \A i \in Int : i >= 1 /\ i <= Mirrors => i \in Spiegel
           /\ \A i \in Int : i >= 1 /\ i <= OwnPart => i \in Parts
           /\ \A i \in Spiegel : 1 <= i /\ i <= Mirrors
           /\ \A i \in Parts : 1 <= i /\ i <= OwnPart /\ (i # OwnPart => i \in Spiegel)
           /\ 0 \in 0 .. OwnPart + 1 /\ 1 \in 0 .. OwnPart + 1
           /\ \A i \in 0 .. OwnPart + 1 : i \in Int /\ (i <= OwnPart => i + 1 \in 0 .. OwnPart + 1)
<1>1. Mirrors \in Nat
  BY DEF PackagesAssumption
<1>2. OwnPart = Mirrors + 1 /\ Spiegel = 1 .. Mirrors /\ Parts = 1 .. OwnPart
  BY DEF Spiegel, Parts, OwnPart
<1> QED BY <1>1, <1>2

\* Snapshots of mirrors, of held states and none at all are never the same.
LEMMA AutoIs ==
    ASSUME NEW i, NEW n
    PROVE  AutoOf(i, n)[1] = "auto" /\ AutoOf(i, n)[2] = i /\ AutoOf(i, n) # None
<1>1. AutoOf(i, n)[1] = "auto" /\ AutoOf(i, n)[2] = i
  BY DEF AutoOf
<1>2. None[1] = "none"
  BY DEF None
<1> QED BY <1>1, <1>2

LEMMA FestIs ==
    ASSUME NEW i, NEW a
    PROVE  Fest(i, a)[1] = a /\ Fest(i, a)[2] = i
BY DEF Fest

LEMMA SnapshotsApart ==
    ASSUME PackagesAssumption, NEW i, NEW a \in Names, NEW k, NEW n
    PROVE  Fest(i, a) # AutoOf(k, n) /\ Fest(i, a) # None
<1>1. "auto" \notin Names /\ "none" \notin Names
  BY DEF PackagesAssumption
<1>2. None[1] = "none"
  BY DEF None
<1> QED BY <1>1, <1>2, AutoIs, FestIs

LEMMA FestApart ==
    ASSUME NEW i, NEW a, NEW k, NEW b, Fest(i, a) = Fest(k, b)
    PROVE  i = k /\ a = b
BY FestIs

LEMMA SnapshotOf ==
    /\ \A i \in Spiegel, n \in 1 .. MaxSyncs : AutoOf(i, n) \in Snapshots
    /\ \A i \in Parts, a \in Names : Fest(i, a) \in Snapshots
    /\ Snapshots \subseteq Taken /\ None \in Taken
<1>1. ASSUME NEW i \in Spiegel, NEW n \in 1 .. MaxSyncs PROVE AutoOf(i, n) \in Snapshots
  BY DEF Snapshots
<1>2. ASSUME NEW i \in Parts, NEW a \in Names PROVE Fest(i, a) \in Snapshots
  BY DEF Snapshots
<1>3. Snapshots \subseteq Taken /\ None \in Taken
  BY DEF Taken
<1> QED BY <1>1, <1>2, <1>3

LEMMA TaskOf ==
    ASSUME PackTypes
    PROVE  /\ job \in Tasks /\ job.kind \in Kinds \cup {"none"} /\ job.of \in Names \cup Debs \cup {""}
           /\ job.at \in 0 .. OwnPart + 1 /\ job.parts \in SUBSET Parts
           /\ job.step \in {"", "make", "publish", "book", "sweep"}
           /\ job.aktuell \in [Spiegel -> Taken] /\ aktuell \in [Spiegel -> Taken]
           /\ delivers \in [Spiegel -> Taken]
           /\ spiegel \in BOOLEAN /\ snapshots \subseteq Snapshots
           /\ merged \subseteq Snapshots \X Snapshots /\ shown \subseteq Names \X Parts
           /\ repo \subseteq Debs /\ served \subseteq Debs /\ held \subseteq Names \X SUBSET Parts
           /\ syncs \in 0 .. MaxSyncs /\ breaks \in 0 .. MaxBreaks
<1>1. job \in Tasks /\ PackTypeOK
  BY DEF PackTypes
<1>2. /\ job.kind \in Kinds \cup {"none"} /\ job.of \in Names \cup Debs \cup {""}
      /\ job.at \in 0 .. OwnPart + 1 /\ job.parts \in SUBSET Parts
      /\ job.step \in {"", "make", "publish", "book", "sweep"}
      /\ job.aktuell \in [Spiegel -> Taken]
  BY <1>1 DEF Tasks
<1> QED BY <1>1, <1>2 DEF PackTypeOK, Taken

LEMMA NoTaskIs ==
    ASSUME PackagesAssumption, PackTypes
    PROVE  NoTask \in Tasks /\ NoTask.kind = "none" /\ NoTask.aktuell = aktuell
<1>1. 0 \in 0 .. OwnPart + 1
  BY MirrorsAreParts
<1>2. aktuell \in [Spiegel -> Taken]
  BY TaskOf
<1> QED BY <1>1, <1>2 DEF NoTask, Tasks

LEMMA JobTaken ==
    ASSUME PackagesAssumption, PackTypes, NEW kind \in Kinds, NEW a \in Names \cup Debs \cup {""},
           Takes(kind, a)
    PROVE  /\ job.kind = "none" /\ job' \in Tasks /\ job'.kind = kind /\ job'.of = a /\ job'.at = 1
           /\ job'.step = "make" /\ job'.parts = {} /\ job'.aktuell = aktuell
<1>1. kind \in Kinds \cup {"none"} /\ 1 \in 0 .. OwnPart + 1 /\ {} \in SUBSET Parts
  BY MirrorsAreParts
<1>2. aktuell \in [Spiegel -> Taken]
  BY TaskOf
<1>3. job' = [kind |-> kind, of |-> a, at |-> 1, step |-> "make", parts |-> {}, aktuell |-> aktuell]
  BY DEF Takes, NoTask
<1>4. job.kind = "none"
  BY DEF Takes, Unlocked
<1> QED BY <1>1, <1>2, <1>3, <1>4 DEF Tasks

LEMMA TaskSteps ==
    ASSUME PackTypes, NEW step \in {"make", "publish", "book", "sweep"}, Steps(step)
    PROVE  /\ job' \in Tasks /\ job'.kind = job.kind /\ job'.of = job.of /\ job'.at = job.at
           /\ job'.step = step /\ job'.parts = job.parts /\ job'.aktuell = job.aktuell
<1>1. job \in Tasks
  BY TaskOf
<1> QED BY <1>1 DEF Steps, Tasks

LEMMA TaskGoesOn ==
    ASSUME PackagesAssumption, PackTypes, NextPart, job.at <= OwnPart
    PROVE  /\ job' \in Tasks /\ job'.kind = job.kind /\ job'.of = job.of /\ job'.at = job.at + 1
           /\ job'.step = "make" /\ job'.parts = job.parts /\ job'.aktuell = job.aktuell
<1>1. job \in Tasks /\ job.at + 1 \in 0 .. OwnPart + 1
  BY TaskOf, MirrorsAreParts
<1> PICK at : at = job.at + 1
  OBVIOUS
<1>2. job' = [job EXCEPT !.at = at, !.step = "make"]
  BY DEF NextPart
<1> QED BY <1>1, <1>2 DEF Tasks

LEMMA TaskEnds ==
    ASSUME PackagesAssumption, PackTypes, aktuell' \in [Spiegel -> Taken], Finishes
    PROVE  job' \in Tasks /\ job'.kind = "none"
<1>1. NoTask \in Tasks /\ NoTask.kind = "none"
  BY NoTaskIs
<1> QED BY <1>1 DEF Finishes, Tasks

-----------------------------------------------------------------------------
PackHeld == PackagesAssumption /\ Careful /\ Failing \subseteq {"sync"} /\ PackTypes /\ PackOrder

LEMMA TypesStay ==
    ASSUME PackTypes, job' \in Tasks, snapshots' \subseteq Snapshots,
           merged' \subseteq Snapshots \X Snapshots, delivers' \in [Spiegel -> Taken],
           shown' \subseteq Names \X Parts, repo' \subseteq Debs, served' \subseteq Debs,
           aktuell' \in [Spiegel -> Taken], held' \subseteq Names \X SUBSET Parts,
           syncs' \in 0 .. MaxSyncs, breaks' \in 0 .. MaxBreaks, cache' = cache \/ cache' = {},
           UNCHANGED <<spiegel, mode, target, asking, builds, desks>>
    PROVE  PackTypes'
<1>1. /\ job'.kind \in Kinds \cup {"none"} /\ job'.at \in 0 .. OwnPart + 1
      /\ job'.parts \subseteq Parts /\ job'.step \in {"", "make", "publish", "book", "sweep"}
  BY DEF Tasks
<1>2. cache' \in Maybe(Published)
  BY DEF PackTypes, PackTypeOK, Maybe
<1> QED BY <1>1, <1>2 DEF PackTypes, PackTypeOK, Taken

\* What a job does that drops no state is nothing to those the API serves.
LEMMA ServedStay ==
    ASSUME PackOrder, UNCHANGED <<spiegel, mode, target, asking, builds, desks>>,
           cache' = cache \/ cache' = {}, HeldNames' = HeldNames \/ Known' = {},
           shown \subseteq shown', job.kind # "drop", job'.kind # "drop",
           \A i \in Spiegel : delivers[i] # None => delivers'[i] # None
    PROVE  AnswersServe' /\ BuildsKept' /\ SourcesRemain'
<1>1. Known' \subseteq Known
  BY DEF Known
<1>2. AnswersServe'
  BY <1>1 DEF PackOrder, AnswersServe
<1> QED BY <1>2 DEF PackOrder, BuildsKept, SourcesRemain

LEMMA TaskAtFirst ==
    ASSUME PackagesAssumption, HeldNames' = HeldNames, job'.at = 1, job'.step = "make",
           job'.kind = "sync" => syncs' >= 1, job'.kind = "hold" => job'.of \in Names \ HeldNames,
           job'.kind \in {"drop", "back"} => job'.of \in HeldNames,
           job'.kind \in {"add", "remove"} => job'.of \in Debs
    PROVE  TaskOrder'
<1>1. 1 <= OwnPart /\ 1 >= 1
  BY MirrorsAreParts
<1> QED BY <1>1 DEF TaskOrder

LEMMA BeginsKeeps ==
    ASSUME PackHeld, NEW kind \in Kinds, NEW a \in Names \cup Debs \cup {""}, Takes(kind, a),
           UNCHANGED <<spiegel, aptlyVars, metaVars, mode, target, asking, builds, desks, breaks>>,
           cache' = cache \/ cache' = {}, syncs' \in 0 .. MaxSyncs,
           kind = "sync" => syncs' >= 1,
           kind = "hold" => a \in Names \ HeldNames /\ \A i \in Spiegel : aktuell[i][1] \notin Names,
           kind = "drop" => /\ a \in HeldNames /\ target # a /\ \A b \in builds : b[2] => b[1] # a
                            /\ \A i \in Spiegel : delivers[i] # Fest(i, a),
           kind = "back" => a \in HeldNames,
           kind \in {"add", "remove"} => a \in Debs
    PROVE  PackTypes' /\ PackOrder'
<1>1. /\ PackagesAssumption /\ PackTypes /\ PackOrder
      /\ job.kind = "none" /\ job' \in Tasks /\ job'.kind = kind /\ job'.of = a /\ job'.at = 1
      /\ job'.step = "make" /\ job'.parts = {} /\ job'.aktuell = aktuell
  BY JobTaken DEF PackHeld
<1>2. /\ UNCHANGED <<snapshots, merged, delivers, shown, repo, served, aktuell, held>>
      /\ HeldNames' = HeldNames
  BY DEF aptlyVars, metaVars, HeldNames
<1>3. PackTypes'
  BY <1>1, <1>2, TaskOf, TypesStay
<1>4. ~(1 > OwnPart) /\ \A i \in Parts : ~(i < 1)
  BY <1>1, MirrorsAreParts
<1>5. TaskOrder'
  BY <1>1, <1>2, TaskAtFirst
<1>6. NotesFollow'
  <2>1. aktuell = delivers /\ repo = served
    BY <1>1 DEF PackOrder, NotesFollow, Doing
  <2> QED BY <1>1, <1>2, <2>1 DEF NotesFollow, Doing
<1>7. DeliveredIsThere'
  BY <1>1, <1>2 DEF PackOrder, DeliveredIsThere, Doing
<1>8. PartsAreThere'
  <2>1. /\ \A b \in Names, i \in Parts : Fest(i, b) \in snapshots => b \in HeldNames
        /\ \A h \in held : <<h[1], OwnPart>> \in shown /\ \A i \in h[2] : Fest(i, h[1]) \in snapshots
        /\ \A m \in merged : m[2][1] \notin Names
    BY <1>1 DEF PackOrder, PartsAreThere
  <2> QED BY <1>1, <1>2, <1>4, <2>1 DEF PartsAreThere
<1>9. Known' \subseteq Known
  BY DEF Known
<1>10. AnswersServe'
  <2>1. /\ target \in HeldNames => \A q \in Known : target \in q.states
        /\ \A q \in Known : \A b \in q.states : <<b, OwnPart>> \in shown
    BY <1>1 DEF PackOrder, AnswersServe
  <2>2. mode = "nur" => /\ \E i \in Spiegel : delivers[i] # None
                        /\ spiegel => \A q \in Known : q.mirrors # {}
    BY <1>1 DEF PackOrder, AnswersServe
  <2> QED BY <1>1, <1>2, <1>9, <2>1, <2>2 DEF AnswersServe
<1>11. BuildsKept' /\ SourcesRemain'
  BY <1>1, <1>2 DEF PackOrder, BuildsKept, SourcesRemain
<1> QED BY <1>3, <1>5, <1>6, <1>7, <1>8, <1>10, <1>11 DEF PackOrder

LEMMA JobsBegin ==
    ASSUME PackHeld, Sync \/ (\E a \in Names : Hold(a) \/ Drop(a) \/ Back(a))
                          \/ (\E d \in Debs : Upload(d) \/ Delete(d))
    PROVE  PackTypes' /\ PackOrder'
<1>1. /\ syncs \in 0 .. MaxSyncs /\ {"sync", "hold", "drop", "back", "add", "remove"} \subseteq Kinds
      /\ PackagesAssumption /\ PackOrder /\ MaxSyncs \in Nat
  BY TaskOf DEF PackHeld, Kinds, PackagesAssumption
<1>2. CASE Sync
  <2>1. /\ Takes("sync", "") /\ syncs' = syncs + 1 /\ syncs < MaxSyncs /\ cache' = {}
        /\ UNCHANGED <<spiegel, aptlyVars, metaVars, mode, target, asking, builds, desks, breaks>>
    BY <1>2 DEF Sync, Forgets
  <2>2. syncs' \in 0 .. MaxSyncs /\ syncs' >= 1
    <3>1. syncs \in 0 .. MaxSyncs /\ MaxSyncs \in Nat
      BY <1>1
    <3>2. syncs' = syncs + 1 /\ syncs < MaxSyncs
      BY <2>1
    <3> QED BY <3>1, <3>2
  <2> QED BY <1>1, <2>1, <2>2, BeginsKeeps
<1>3. ASSUME NEW a \in Names, Hold(a) PROVE PackTypes' /\ PackOrder'
  <2>1. /\ Takes("hold", a) /\ a \notin HeldNames /\ ~TurnedBack
        /\ UNCHANGED <<spiegel, aptlyVars, metaVars, syncs, mode, target, cache, asking, builds, desks, breaks>>
    BY <1>3 DEF Hold, apiVars, PackHeld
  <2>2. aktuell = delivers
    BY <1>1, <2>1 DEF PackOrder, NotesFollow, Takes, Unlocked, Doing
  <2>3. \A i \in Spiegel : aktuell[i][1] \notin Names
    BY <2>1, <2>2 DEF TurnedBack
  <2> QED BY <1>1, <2>1, <2>3, BeginsKeeps
<1>4. ASSUME NEW a \in Names, Drop(a) PROVE PackTypes' /\ PackOrder'
  <2>1. /\ Takes("drop", a) /\ a \in HeldNames /\ ~InUse(a) /\ \A b \in builds : b[2] => b[1] # a
        /\ UNCHANGED <<spiegel, aptlyVars, metaVars, syncs, mode, target, cache, asking, builds, desks, breaks>>
    BY <1>4 DEF Drop, apiVars, PackHeld
  <2>2. aktuell = delivers
    BY <1>1, <2>1 DEF PackOrder, NotesFollow, Takes, Unlocked, Doing
  <2>3. /\ target # a /\ \A b \in builds : b[2] => b[1] # a
        /\ \A i \in Spiegel : delivers[i] # Fest(i, a)
    BY <2>1, <2>2 DEF InUse
  <2> QED BY <1>1, <2>1, <2>3, BeginsKeeps
<1>5. ASSUME NEW a \in Names, Back(a) PROVE PackTypes' /\ PackOrder'
  <2>1. /\ Takes("back", a) /\ a \in HeldNames
        /\ UNCHANGED <<spiegel, aptlyVars, metaVars, syncs, mode, target, cache, asking, builds, desks, breaks>>
    BY <1>5 DEF Back, apiVars
  <2> QED BY <1>1, <2>1, BeginsKeeps
<1>6. ASSUME NEW d \in Debs, Upload(d) \/ Delete(d) PROVE PackTypes' /\ PackOrder'
  <2>1. /\ Takes("add", d) \/ Takes("remove", d)
        /\ UNCHANGED <<spiegel, aptlyVars, metaVars, syncs, mode, target, cache, asking, builds, desks, breaks>>
    BY <1>6 DEF Upload, Delete, apiVars
  <2> QED BY <1>1, <2>1, BeginsKeeps
<1> QED BY <1>2, <1>3, <1>4, <1>5, <1>6

-----------------------------------------------------------------------------
LEMMA FirstOn ==
    ASSUME NEW m \in Nat, NEW n \in 0 .. m, n >= 1
    PROVE  n \in 1 .. m
OBVIOUS

\* Where a job is.
LEMMA PlaceOf ==
    ASSUME PackagesAssumption, PackTypes, TaskOrder, job.kind # "none"
    PROVE  /\ job.at <= Mirrors => job.at \in Spiegel /\ job.at <= OwnPart /\ job.at + 1 <= OwnPart
           /\ job.at <= OwnPart => job.at \in Parts /\ job.at + 1 >= 1
           /\ job.at >= 1 /\ (job.kind = "sync" => syncs \in 1 .. MaxSyncs)
           /\ job.at <= Mirrors \/ job.at > Mirrors
           /\ job.at <= OwnPart \/ job.at > OwnPart
           /\ \A i \in Parts : job.at > OwnPart => i < job.at
<1>1. /\ job.at \in 0 .. OwnPart + 1 /\ job.at >= 1 /\ OwnPart = Mirrors + 1 /\ Mirrors \in Nat
      /\ Spiegel = 1 .. Mirrors /\ Parts = 1 .. OwnPart
  BY TaskOf DEF TaskOrder, OwnPart, Spiegel, Parts, PackagesAssumption
<1>2. job.kind = "sync" => syncs \in 1 .. MaxSyncs
  <2>1. syncs \in 0 .. MaxSyncs /\ MaxSyncs \in Nat
    BY TaskOf DEF PackagesAssumption
  <2>2. job.kind = "sync" => syncs >= 1
    BY DEF TaskOrder
  <2> QED BY <2>1, <2>2, FirstOn
<1> QED BY <1>1, <1>2

LEMMA PartsStay ==
    ASSUME PackTypes, PackOrder, job.kind \notin {"hold", "drop"}, job'.kind \notin {"hold", "drop"},
           UNCHANGED <<held, shown, merged>>,
           \A i \in Parts, a \in Names : Fest(i, a) \in snapshots' <=> Fest(i, a) \in snapshots
    PROVE  PartsAreThere'
<1>1. \A h \in held : h[1] \in Names /\ h[2] \subseteq Parts
  BY TaskOf
<1>2. HeldNames' = HeldNames
  BY DEF HeldNames
<1> QED BY <1>1, <1>2 DEF PackOrder, PartsAreThere

LEMMA Sweeps ==
    ASSUME PackagesAssumption, PackOrder, NEW k \in Spiegel, snapshots' = snapshots \ Swept(k)
    PROVE  /\ \A i \in Parts, a \in Names : Fest(i, a) \in snapshots' <=> Fest(i, a) \in snapshots
           /\ \A i \in Spiegel : delivers[i] # None => delivers[i] \in snapshots'
<1>1. ASSUME NEW i \in Parts, NEW a \in Names PROVE Fest(i, a) \notin Swept(k)
  <2>1. a # "auto" /\ Fest(i, a)[1] = a
    BY FestIs DEF PackagesAssumption
  <2> QED BY <2>1 DEF Swept
<1>2. ASSUME NEW i \in Spiegel, delivers[i] # None PROVE delivers[i] \in snapshots \ Swept(k)
  <2>1. delivers[i] \in snapshots /\ delivers[i][2] = i
    BY <1>2 DEF PackOrder, DeliveredIsThere
  <2> QED BY <2>1 DEF Swept
<1> QED BY <1>1, <1>2

\* A job that ends with everything as it is, and the notes as what is delivered.
LEMMA JobEndKeeps ==
    ASSUME PackagesAssumption, PackTypes, PackOrder, job.kind \notin {"hold", "drop"},
           job' \in Tasks, job'.kind = "none", aktuell' = delivers, repo' = served',
           repo' \subseteq Debs, served' \subseteq Debs, breaks' \in 0 .. MaxBreaks, cache' = cache \/ cache' = {},
           UNCHANGED <<spiegel, snapshots, merged, delivers, shown, held, syncs, mode, target,
                       asking, builds, desks>>
    PROVE  PackTypes' /\ PackOrder'
<1>1. HeldNames' = HeldNames
  BY DEF HeldNames
<1>2. PackTypes'
  BY TaskOf, TypesStay
<1>3. TaskOrder'
  BY DEF TaskOrder
<1>4. NotesFollow'
  BY DEF NotesFollow, Doing
<1>5. DeliveredIsThere'
  BY DEF PackOrder, DeliveredIsThere, Doing
<1>6. PartsAreThere'
  BY PartsStay
<1>7. AnswersServe' /\ BuildsKept' /\ SourcesRemain'
  BY <1>1, ServedStay
<1> QED BY <1>2, <1>3, <1>4, <1>5, <1>6, <1>7 DEF PackOrder

LEMMA SyncKeeps ==
    ASSUME PackHeld, SyncMirror
    PROVE  PackTypes' /\ PackOrder'
<1>1. /\ PackagesAssumption /\ PackTypes /\ PackOrder /\ TaskOrder /\ job.kind = "sync"
      /\ UNCHANGED <<spiegel, merged, shown, repo, served, held, syncs, mode, target, cache, asking,
                     builds, desks, breaks>>
      /\ HeldNames' = HeldNames
  BY DEF PackHeld, PackOrder, SyncMirror, apiVars, HeldNames
<1>2. /\ job.at <= Mirrors => job.at \in Spiegel /\ job.at <= OwnPart /\ job.at + 1 <= OwnPart
      /\ job.at >= 1 /\ syncs \in 1 .. MaxSyncs /\ syncs >= 1 /\ job.at + 1 >= 1
      /\ job.step # "make" => job.at <= Mirrors
      /\ job.at <= OwnPart
  <2>1. job.at <= OwnPart /\ syncs >= 1 /\ (job.step # "make" => job.at <= Mirrors)
    BY <1>1 DEF TaskOrder
  <2> QED BY <1>1, <2>1, PlaceOf
<1>3. /\ repo = served
      /\ job.step # "book" => aktuell = delivers
      /\ job.step = "book" => delivers = [aktuell EXCEPT ![job.at] = AutoOf(job.at, syncs)]
  BY <1>1 DEF PackOrder, NotesFollow, Doing
<1>4. CASE /\ Doing("sync", "make") /\ job.at <= Mirrors
           /\ snapshots' = snapshots \cup {AutoOf(job.at, syncs)} /\ Steps("publish")
           /\ UNCHANGED <<delivers, aktuell>>
  <2>1. /\ job' \in Tasks /\ job'.kind = "sync" /\ job'.at = job.at /\ job'.step = "publish"
    BY <1>1, <1>4, TaskSteps
  <2>2. AutoOf(job.at, syncs) \in Snapshots
    BY <1>2, <1>4, SnapshotOf
  <2>3. PackTypes'
    BY <1>1, <1>4, <2>1, <2>2, TaskOf, TypesStay
  <2>4. TaskOrder'
    BY <1>1, <1>2, <1>4, <2>1 DEF TaskOrder
  <2>5. NotesFollow'
    BY <1>1, <1>3, <1>4, <2>1 DEF NotesFollow, Doing
  <2>6. DeliveredIsThere'
    BY <1>1, <1>4, <2>1 DEF PackOrder, DeliveredIsThere, Doing
  <2>7. PartsAreThere'
    <3>1. \A i \in Parts, a \in Names : Fest(i, a) # AutoOf(job.at, syncs)
      BY <1>1, SnapshotsApart
    <3> QED BY <1>1, <1>4, <2>1, <3>1, PartsStay
  <2>8. AnswersServe' /\ BuildsKept' /\ SourcesRemain'
    BY <1>1, <1>4, <2>1, ServedStay
  <2> QED BY <2>3, <2>4, <2>5, <2>6, <2>7, <2>8 DEF PackOrder
<1>5. CASE /\ Doing("sync", "publish")
           /\ delivers' = [delivers EXCEPT ![job.at] = AutoOf(job.at, syncs)] /\ Steps("book")
           /\ UNCHANGED <<snapshots, aktuell>>
  <2>1. /\ job' \in Tasks /\ job'.kind = "sync" /\ job'.at = job.at /\ job'.step = "book"
    BY <1>1, <1>5, TaskSteps
  <2>2. job.step = "publish" /\ job.at \in Spiegel /\ job.at <= Mirrors
    BY <1>2, <1>5 DEF Doing
  <2>3. delivers' \in [Spiegel -> Taken] /\ AutoOf(job.at, syncs) \in snapshots
    <3>1. AutoOf(job.at, syncs) \in Taken
      BY <1>2, <2>2, SnapshotOf
    <3>2. AutoOf(job.at, syncs) \in snapshots
      BY <1>1, <1>5 DEF PackOrder, DeliveredIsThere
    <3> QED BY <1>1, <1>5, <3>1, <3>2, TaskOf
  <2>4. PackTypes'
    BY <1>1, <1>5, <2>1, <2>3, TaskOf, TypesStay
  <2>5. TaskOrder'
    BY <1>1, <1>2, <2>1, <2>2 DEF TaskOrder
  <2>6. NotesFollow'
    BY <1>1, <1>3, <1>5, <2>1, <2>2 DEF NotesFollow, Doing
  <2>7. \A i \in Spiegel : delivers'[i] = IF i = job.at THEN AutoOf(job.at, syncs) ELSE delivers[i]
    BY <1>1, <1>5, TaskOf
  <2>8. DeliveredIsThere'
    <3>1. ASSUME NEW i \in Spiegel, delivers'[i] # None PROVE delivers'[i] \in snapshots /\ delivers'[i][2] = i
      <4>1. CASE i = job.at
        BY <2>3, <2>7, <4>1, AutoIs
      <4>2. CASE i # job.at
        BY <1>1, <2>7, <3>1, <4>2 DEF PackOrder, DeliveredIsThere
      <4> QED BY <4>1, <4>2
    <3> QED BY <1>5, <2>1, <3>1 DEF DeliveredIsThere, Doing
  <2>9. PartsAreThere'
    BY <1>1, <1>5, <2>1, PartsStay
  <2>10. AnswersServe' /\ BuildsKept' /\ SourcesRemain'
    <3>1. \A i \in Spiegel : delivers[i] # None => delivers'[i] # None
      BY <2>7, AutoIs
    <3> QED BY <1>1, <1>5, <2>1, <3>1, ServedStay
  <2> QED BY <2>4, <2>5, <2>6, <2>8, <2>9, <2>10 DEF PackOrder
<1>6. CASE /\ Doing("sync", "book")
           /\ aktuell' = [aktuell EXCEPT ![job.at] = AutoOf(job.at, syncs)] /\ Steps("sweep")
           /\ UNCHANGED <<snapshots, delivers>>
  <2>1. /\ job' \in Tasks /\ job'.kind = "sync" /\ job'.at = job.at /\ job'.step = "sweep"
    BY <1>1, <1>6, TaskSteps
  <2>2. job.step = "book" /\ job.at <= Mirrors /\ aktuell' = delivers
    BY <1>2, <1>3, <1>6 DEF Doing
  <2>3. PackTypes'
    BY <1>1, <1>6, <2>1, <2>2, TaskOf, TypesStay
  <2>4. TaskOrder'
    BY <1>1, <1>2, <2>1, <2>2 DEF TaskOrder
  <2>5. NotesFollow'
    BY <1>1, <1>3, <1>6, <2>1, <2>2 DEF NotesFollow, Doing
  <2>6. DeliveredIsThere'
    BY <1>1, <1>6, <2>1 DEF PackOrder, DeliveredIsThere, Doing
  <2>7. PartsAreThere'
    BY <1>1, <1>6, <2>1, PartsStay
  <2>8. AnswersServe' /\ BuildsKept' /\ SourcesRemain'
    BY <1>1, <1>6, <2>1, ServedStay
  <2> QED BY <2>3, <2>4, <2>5, <2>6, <2>7, <2>8 DEF PackOrder
<1>7. CASE /\ Doing("sync", "sweep") /\ snapshots' = snapshots \ Swept(job.at) /\ NextPart
           /\ UNCHANGED <<delivers, aktuell>>
  <2>1. job.step = "sweep" /\ job.at \in Spiegel /\ job.at <= OwnPart /\ job.at + 1 <= OwnPart
    BY <1>2, <1>7 DEF Doing
  <2>2. /\ job' \in Tasks /\ job'.kind = "sync" /\ job'.at = job.at + 1 /\ job'.step = "make"
    BY <1>1, <1>7, <2>1, TaskGoesOn
  <2>3. PackTypes'
    BY <1>1, <1>7, <2>2, TaskOf, TypesStay
  <2>4. TaskOrder'
    BY <1>1, <1>2, <2>1, <2>2 DEF TaskOrder
  <2>5. NotesFollow'
    BY <1>1, <1>3, <1>7, <2>1, <2>2 DEF NotesFollow, Doing
  <2>6. DeliveredIsThere'
    BY <1>1, <1>7, <2>1, <2>2, Sweeps DEF PackOrder, DeliveredIsThere, Doing
  <2>7. PartsAreThere'
    BY <1>1, <1>7, <2>1, <2>2, Sweeps, PartsStay
  <2>8. AnswersServe' /\ BuildsKept' /\ SourcesRemain'
    BY <1>1, <1>7, <2>2, ServedStay
  <2> QED BY <2>3, <2>4, <2>5, <2>6, <2>7, <2>8 DEF PackOrder
<1>8. CASE /\ Doing("sync", "make") /\ job.at > Mirrors /\ UNCHANGED <<snapshots, delivers, aktuell>>
           /\ Finishes
  <2>1. job.step = "make"
    BY <1>8 DEF Doing
  <2>2. job' \in Tasks /\ job'.kind = "none"
    BY <1>1, <1>8, TaskOf, TaskEnds
  <2>3. aktuell' = delivers /\ repo' = served' /\ repo' \subseteq Debs /\ served' \subseteq Debs
    BY <1>1, <1>3, <1>8, <2>1, TaskOf
  <2>4. breaks' \in 0 .. MaxBreaks /\ cache' = cache /\ job.kind \notin {"hold", "drop"}
    BY <1>1, TaskOf
  <2> QED BY <1>1, <1>8, <2>2, <2>3, <2>4, JobEndKeeps
<1> QED BY <1>4, <1>5, <1>6, <1>7, <1>8 DEF SyncMirror

-----------------------------------------------------------------------------
\* A state that is being held goes on being held.
LEMMA HoldsOn ==
    ASSUME PackHeld, job.kind = "hold", job' \in Tasks, job'.kind = "hold", job'.of = job.of,
           job'.step \in {"make", "publish"}, job'.at >= 1,
           job'.step = "publish" => job'.at <= OwnPart,
           \A i \in Parts : Reaches(i) => Reaches(i)',
           snapshots \subseteq snapshots', snapshots' \subseteq Snapshots,
           \A i \in Parts, a \in Names : Fest(i, a) \in snapshots' =>
               Fest(i, a) \in snapshots \/ (a = job.of /\ Reaches(i)'),
           merged' \subseteq Snapshots \X Snapshots,
           \A m \in merged' : m \in merged \/ m[2][1] \notin Names,
           shown \subseteq shown', shown' \subseteq Names \X Parts,
           \A i \in job'.parts : Fest(i, job.of) \in snapshots',
           job'.step = "publish" => Fest(job'.at, job.of) \in snapshots',
           job'.at > OwnPart => <<job.of, OwnPart>> \in shown',
           UNCHANGED <<spiegel, delivers, repo, served, aktuell, held, syncs, mode, target, cache,
                       asking, builds, desks, breaks>>
    PROVE  PackTypes' /\ PackOrder'
<1>1. PackTypes /\ PackOrder /\ job.of \in Names \ HeldNames /\ HeldNames' = HeldNames
  BY DEF PackHeld, PackOrder, TaskOrder, HeldNames
<1>2. PackTypes'
  BY <1>1, TaskOf, TypesStay
<1>3. TaskOrder'
  BY <1>1 DEF TaskOrder
<1>4. NotesFollow'
  BY <1>1 DEF PackOrder, NotesFollow, Doing
<1>5. DeliveredIsThere'
  BY <1>1 DEF PackOrder, DeliveredIsThere, Doing
<1>6. PartsAreThere'
  <2>1. ASSUME NEW a \in Names, NEW i \in Parts, Fest(i, a) \in snapshots'
        PROVE  a \in HeldNames \/ (a = job.of /\ Reaches(i)')
    <3>1. CASE Fest(i, a) \in snapshots
      BY <1>1, <3>1 DEF PackOrder, PartsAreThere
    <3> QED BY <2>1, <3>1
  <2>2. ASSUME NEW h \in held
        PROVE  <<h[1], OwnPart>> \in shown' /\ \A i \in h[2] : Fest(i, h[1]) \in snapshots'
    BY <1>1 DEF PackOrder, PartsAreThere
  <2>3. \A m \in merged' : m[2][1] \notin Names
    BY <1>1 DEF PackOrder, PartsAreThere
  <2>4. \A i \in Spiegel : aktuell[i][1] \notin Names
    BY <1>1 DEF PackOrder, PartsAreThere
  <2> QED BY <1>1, <2>1, <2>2, <2>3, <2>4 DEF PartsAreThere
<1>7. AnswersServe' /\ BuildsKept' /\ SourcesRemain'
  BY <1>1, ServedStay
<1> QED BY <1>2, <1>3, <1>4, <1>5, <1>6, <1>7 DEF PackOrder

\* How far a job reaches, in steps.
LEMMA ReachSteps ==
    ASSUME PackagesAssumption, PackTypes, job' \in Tasks, job.at <= OwnPart, job.at >= 1
    PROVE  /\ job.at + 1 >= 1 /\ (job.at # OwnPart => job.at \in Spiegel /\ ~(job.at + 1 > OwnPart))
           /\ (job.step = "make" => ~Reaches(job.at))
           /\ job.at \in Parts
           /\ job'.at = job.at + 1 \/ (job'.at = job.at /\ job'.step = "publish") =>
                  \A i \in Parts : i = job.at \/ Reaches(i) => Reaches(i)'
<1>1. /\ OwnPart = Mirrors + 1 /\ Mirrors \in Nat /\ Spiegel = 1 .. Mirrors
      /\ Parts = 1 .. OwnPart
  BY DEF OwnPart, Spiegel, Parts, PackagesAssumption
<1>2. job.at \in 0 .. OwnPart + 1
  BY TaskOf
<1>3. job'.at \in 0 .. OwnPart + 1
  BY DEF Tasks
<1> QED BY <1>1, <1>2, <1>3 DEF Reaches

LEMMA HoldKeeps ==
    ASSUME PackHeld, HoldPart
    PROVE  PackTypes' /\ PackOrder'
<1>1. /\ PackagesAssumption /\ PackTypes /\ PackOrder /\ job.kind = "hold"
      /\ UNCHANGED <<spiegel, delivers, repo, served, aktuell, syncs, mode, target, asking, builds,
                     desks, breaks>>
  BY DEF PackHeld, HoldPart
<1>2. /\ job.of \in Names \ HeldNames /\ job.at >= 1 /\ aktuell = delivers /\ repo = served
      /\ job.step \in {"make", "publish"} /\ (job.step = "publish" => job.at <= OwnPart)
  BY <1>1 DEF PackOrder, TaskOrder, NotesFollow, Doing
<1>3. /\ \A i \in job.parts : Fest(i, job.of) \in snapshots
      /\ job.step = "publish" => Fest(job.at, job.of) \in snapshots
      /\ job.at > OwnPart => <<job.of, OwnPart>> \in shown
      /\ \A i \in Spiegel : aktuell[i][1] \notin Names
  BY <1>1 DEF PackOrder, PartsAreThere
<1>4. /\ snapshots \subseteq Snapshots /\ merged \subseteq Snapshots \X Snapshots
      /\ shown \subseteq Names \X Parts
  BY <1>1, TaskOf
<1>5. CASE /\ Doing("hold", "make") /\ job.at <= OwnPart /\ Skipped /\ NextPart
           /\ UNCHANGED <<snapshots, merged, shown, held, cache>>
  <2>1. /\ job' \in Tasks /\ job'.kind = "hold" /\ job'.of = job.of /\ job'.at = job.at + 1
        /\ job'.step = "make" /\ job'.parts = job.parts
    BY <1>1, <1>5, TaskGoesOn
  <2>2. /\ job'.at >= 1 /\ ~(job'.at > OwnPart) /\ \A i \in Parts : Reaches(i) => Reaches(i)'
    BY <1>1, <1>2, <1>5, <2>1, ReachSteps DEF Skipped
  <2> QED BY <1>1, <1>2, <1>3, <1>4, <1>5, <2>1, <2>2, HoldsOn
<1>6. CASE /\ Doing("hold", "make") /\ job.at <= OwnPart /\ ~Skipped /\ CanMake
           /\ snapshots' = snapshots \cup {Fest(job.at, job.of)}
           /\ merged' = IF job.at = OwnPart THEN merged
                        ELSE merged \cup {<<Fest(job.at, job.of), aktuell[job.at]>>}
           /\ Steps("publish") /\ UNCHANGED <<shown, held, cache>>
  <2>1. /\ job' \in Tasks /\ job'.kind = "hold" /\ job'.of = job.of /\ job'.at = job.at
        /\ job'.step = "publish" /\ job'.parts = job.parts
    BY <1>1, <1>6, TaskSteps
  <2>2. /\ job.at \in Parts /\ (job.at # OwnPart => job.at \in Spiegel /\ ~(job.at + 1 > OwnPart))
        /\ \A i \in Parts : i = job.at \/ Reaches(i) => Reaches(i)'
    BY <1>1, <1>2, <1>6, <2>1, ReachSteps
  <2>3. Fest(job.at, job.of) \in Snapshots
    BY <1>2, <2>2, SnapshotOf
  <2>4. /\ merged' \subseteq Snapshots \X Snapshots
        /\ \A m \in merged' : m \in merged \/ m[2][1] \notin Names
    <3>1. CASE job.at = OwnPart
      BY <1>4, <1>6, <3>1
    <3>2. CASE job.at # OwnPart
      <4>1. aktuell[job.at] \in Snapshots /\ aktuell[job.at][1] \notin Names
        BY <1>3, <1>4, <1>6, <2>2, <3>2 DEF CanMake
      <4>2. PICK m : m = <<Fest(job.at, job.of), aktuell[job.at]>>
        OBVIOUS
      <4>3. m \in Snapshots \X Snapshots /\ m[2] = aktuell[job.at]
        BY <2>3, <4>1, <4>2
      <4>4. merged' = merged \cup {m}
        BY <1>6, <3>2, <4>2
      <4> QED BY <1>4, <4>1, <4>3, <4>4
    <3> QED BY <3>1, <3>2
  <2>5. \A i \in Parts, a \in Names : Fest(i, a) \in snapshots' =>
            Fest(i, a) \in snapshots \/ (a = job.of /\ Reaches(i)')
    <3>1. ASSUME NEW i \in Parts, NEW a \in Names, Fest(i, a) = Fest(job.at, job.of)
          PROVE  a = job.of /\ Reaches(i)'
      <4>1. i = job.at /\ a = job.of
        BY <3>1, FestApart
      <4> QED BY <2>2, <4>1
    <3> QED BY <1>6, <3>1
  <2>6. /\ ~(job'.at > OwnPart) /\ job'.at <= OwnPart /\ job'.at >= 1
    BY <1>2, <1>6, <2>1, <2>2, MirrorsAreParts, <1>1
  <2>7. /\ snapshots \subseteq snapshots' /\ snapshots' \subseteq Snapshots
        /\ Fest(job'.at, job.of) \in snapshots' /\ \A i \in job'.parts : Fest(i, job.of) \in snapshots'
    BY <1>3, <1>4, <1>6, <2>1, <2>3
  <2> QED BY <1>1, <1>4, <1>6, <2>1, <2>2, <2>4, <2>5, <2>6, <2>7, HoldsOn
<1>7. CASE /\ Doing("hold", "make") /\ job.at <= OwnPart /\ ~Skipped /\ ~CanMake
           /\ job' = NoTask /\ UNCHANGED <<snapshots, merged, shown, held, cache>>
  <2>1. job.at \in Parts /\ ~Reaches(job.at) /\ (job.at # OwnPart => job.at \in Spiegel)
    <3>1. job.at >= 1 /\ job.at <= OwnPart /\ job.at \in 0 .. OwnPart + 1 /\ job.step = "make"
      BY <1>1, <1>2, <1>7, TaskOf DEF Doing
    <3>2. OwnPart = Mirrors + 1 /\ Mirrors \in Nat /\ Spiegel = 1 .. Mirrors /\ Parts = 1 .. OwnPart
      BY <1>1 DEF PackagesAssumption, OwnPart, Spiegel, Parts
    <3> QED BY <3>1, <3>2 DEF Reaches
  <2>2. Fest(job.at, job.of) \notin snapshots
    BY <1>1, <1>2, <2>1 DEF PackOrder, PartsAreThere
  <2>3. job.at # OwnPart => aktuell[job.at] \in snapshots
    BY <1>1, <1>2, <1>7, <2>1 DEF PackOrder, DeliveredIsThere, Skipped
  <2> QED BY <1>7, <2>2, <2>3 DEF CanMake
<1>8. CASE /\ Doing("hold", "publish") /\ shown' = shown \cup {<<job.of, job.at>>}
           /\ job' = [job EXCEPT !.at = @ + 1, !.step = "make", !.parts = @ \cup {job.at}]
           /\ UNCHANGED <<snapshots, merged, held, cache>>
  <2>1. job.step = "publish" /\ job.at <= OwnPart /\ job.at \in Parts /\ job.at + 1 \in 0 .. OwnPart + 1
    <3>1. job.step = "publish" /\ job.at >= 1 /\ job.at <= OwnPart /\ job.at \in 0 .. OwnPart + 1
      BY <1>1, <1>2, <1>8, TaskOf DEF Doing
    <3>2. Parts = 1 .. OwnPart /\ OwnPart \in Nat
      BY <1>1, MirrorsAreParts DEF Parts
    <3> QED BY <3>1, <3>2
  <2>2. /\ job' \in Tasks /\ job'.kind = "hold" /\ job'.of = job.of /\ job'.at = job.at + 1
        /\ job'.step = "make" /\ job'.parts = job.parts \cup {job.at}
    <3>1. job \in Tasks /\ job.parts \cup {job.at} \in SUBSET Parts
      BY <1>1, <2>1, TaskOf
    <3>2. PICK at, parts : at = job.at + 1 /\ parts = job.parts \cup {job.at}
      OBVIOUS
    <3>3. job' = [job EXCEPT !.at = at, !.step = "make", !.parts = parts]
      BY <1>8, <3>2
    <3> QED BY <1>1, <2>1, <3>1, <3>2, <3>3 DEF Tasks
  <2>3. job'.at >= 1 /\ \A i \in Parts : Reaches(i) => Reaches(i)'
    BY <1>1, <1>2, <2>1, <2>2, ReachSteps
  <2>4. job'.at > OwnPart => <<job.of, OwnPart>> \in shown'
    <3>1. job.at # OwnPart => ~(job.at + 1 > OwnPart)
      BY <1>1, <1>2, <2>1, <2>2, ReachSteps
    <3> QED BY <1>8, <2>2, <3>1
  <2>5. shown' \subseteq Names \X Parts /\ shown \subseteq shown'
    BY <1>2, <1>4, <1>8, <2>1
  <2>6. \A i \in job'.parts : Fest(i, job.of) \in snapshots'
    BY <1>3, <1>8, <2>1, <2>2
  <2> QED BY <1>1, <1>4, <1>8, <2>2, <2>3, <2>4, <2>5, <2>6, HoldsOn
<1>9. CASE /\ Doing("hold", "make") /\ job.at > OwnPart /\ held' = held \cup {<<job.of, job.parts>>}
           /\ job' = NoTask /\ NothingAsked /\ Forgets
           /\ UNCHANGED <<snapshots, merged, shown>>
  <2>1. job' \in Tasks /\ job'.kind = "none" /\ cache' = {} /\ Known' = {}
    BY <1>1, <1>9, NoTaskIs DEF Forgets, NothingAsked, PackHeld, Known
  <2>2. PICK h : h = <<job.of, job.parts>>
    OBVIOUS
  <2>3. /\ held' = held \cup {h} /\ h[1] = job.of /\ h[2] = job.parts
        /\ h \in Names \X SUBSET Parts
    BY <1>1, <1>2, <1>9, <2>2, TaskOf
  <2>4. held' \subseteq Names \X SUBSET Parts
    BY <1>1, <2>3, TaskOf
  <2>5. PackTypes'
    BY <1>1, <1>9, <2>1, <2>4, TaskOf, TypesStay
  <2>6. HeldNames \subseteq HeldNames' /\ job.of \in HeldNames'
    BY <2>3 DEF HeldNames
  <2>7. TaskOrder'
    BY <2>1 DEF TaskOrder
  <2>8. NotesFollow'
    BY <1>1, <1>2, <2>1 DEF NotesFollow, Doing
  <2>9. DeliveredIsThere'
    BY <1>1, <1>9, <2>1 DEF PackOrder, DeliveredIsThere, Doing
  <2>10. PartsAreThere'
    <3>1. \A a \in Names, i \in Parts : Fest(i, a) \in snapshots => a \in HeldNames \/ a = job.of
      BY <1>1 DEF PackOrder, PartsAreThere
    <3>2. \A g \in held : <<g[1], OwnPart>> \in shown /\ \A i \in g[2] : Fest(i, g[1]) \in snapshots
      BY <1>1 DEF PackOrder, PartsAreThere
    <3>3. <<h[1], OwnPart>> \in shown /\ \A i \in h[2] : Fest(i, h[1]) \in snapshots
      BY <1>3, <1>9, <2>3
    <3>4. \A m \in merged : m[2][1] \notin Names
      BY <1>1 DEF PackOrder, PartsAreThere
    <3> QED BY <1>9, <2>1, <2>3, <2>6, <3>1, <3>2, <3>3, <3>4 DEF PartsAreThere
  <2>11. AnswersServe' /\ BuildsKept' /\ SourcesRemain'
    BY <1>1, <1>9, <2>1, <2>6, ServedStay
  <2> QED BY <2>5, <2>7, <2>8, <2>9, <2>10, <2>11 DEF PackOrder
<1> QED BY <1>5, <1>6, <1>7, <1>8, <1>9 DEF HoldPart

-----------------------------------------------------------------------------
LEMMA DropKeeps ==
    ASSUME PackHeld, DropPart
    PROVE  PackTypes' /\ PackOrder'
<1>1. /\ PackagesAssumption /\ PackTypes /\ PackOrder /\ job.kind = "drop"
      /\ UNCHANGED <<spiegel, delivers, repo, served, aktuell, syncs, mode, target, asking, builds,
                     desks, breaks>>
  BY DEF PackHeld, DropPart
<1>2. /\ job.of \in HeldNames /\ aktuell = delivers /\ repo = served
      /\ job.at >= 1 /\ target # job.of /\ \A b \in builds : b[2] => b[1] # job.of
  <2>1. job.of \in HeldNames /\ job.at >= 1
    BY <1>1 DEF PackOrder, TaskOrder
  <2>2. aktuell = delivers /\ repo = served
    BY <1>1 DEF PackOrder, NotesFollow, Doing
  <2>3. target # job.of /\ \A b \in builds : b[2] => b[1] # job.of
    BY <1>1 DEF PackOrder, AnswersServe
  <2> QED BY <2>1, <2>2, <2>3
<1>3. /\ \A a \in Names, i \in Parts : Fest(i, a) \in snapshots => a \in HeldNames
      /\ \A h \in held : h[1] # job.of =>
           <<h[1], OwnPart>> \in shown /\ \A i \in h[2] : Fest(i, h[1]) \in snapshots
      /\ \A m \in merged : m[2][1] \notin Names
      /\ \A i \in Parts : i < job.at => Fest(i, job.of) \notin snapshots
      /\ \A i \in Spiegel : delivers[i] # Fest(i, job.of)
  BY <1>1 DEF PackOrder, PartsAreThere
<1>4. job.of \in Names /\ HeldNames \subseteq Names
  BY <1>1, <1>2, TaskOf DEF HeldNames
<1>5. \A i \in Spiegel : delivers[i] # None => delivers[i] \in snapshots /\ delivers[i][2] = i
  BY <1>1 DEF PackOrder, DeliveredIsThere
<1>6. CASE /\ job.at <= OwnPart /\ shown' = shown \ {<<job.of, job.at>>}
           /\ LET s == Fest(job.at, job.of)
                  gone == IF Refused(s) THEN {} ELSE {s}
              IN /\ snapshots' = snapshots \ gone
                 /\ merged' = {m \in merged : m[1] \notin gone}
           /\ NextPart /\ UNCHANGED <<held, cache>>
  <2>1. /\ job' \in Tasks /\ job'.kind = "drop" /\ job'.of = job.of /\ job'.at = job.at + 1
    BY <1>1, <1>6, TaskGoesOn
  <2>2. /\ job'.at >= 1 /\ job.at \in Parts
        /\ \A i \in Parts : i < job.at + 1 => i < job.at \/ i = job.at
    <3>1. job.at >= 1 /\ job.at <= OwnPart /\ job.at \in 0 .. OwnPart + 1
      BY <1>1, <1>2, <1>6, TaskOf
    <3>2. Parts = 1 .. OwnPart /\ OwnPart \in Nat
      BY <1>1, MirrorsAreParts DEF Parts
    <3> QED BY <2>1, <3>1, <3>2
  <2>3. \A i \in Spiegel : delivers[i] # Fest(job.at, job.of)
    <3>1. ASSUME NEW i \in Spiegel, delivers[i] = Fest(job.at, job.of) PROVE FALSE
      <4>1. delivers[i] # None
        BY <1>1, <1>4, <3>1, SnapshotsApart
      <4>2. i = job.at
        BY <1>5, <3>1, <4>1, FestIs
      <4> QED BY <1>3, <3>1, <4>2
    <3> QED BY <3>1
  <2>4. ~Refused(Fest(job.at, job.of))
    <3>1. ASSUME NEW m \in merged, m[2] = Fest(job.at, job.of) PROVE FALSE
      BY <1>3, <1>4, <3>1, FestIs
    <3> QED BY <2>3, <3>1 DEF Refused
  <2>5. /\ snapshots' = snapshots \ {Fest(job.at, job.of)}
        /\ merged' \subseteq merged /\ shown' \subseteq shown
    BY <1>6, <2>4
  <2>6. \A i \in Parts, a \in Names : a # job.of => Fest(i, a) # Fest(job.at, job.of)
    BY FestApart
  <2>7. \A a \in Names : a # job.of => (<<a, OwnPart>> \in shown => <<a, OwnPart>> \in shown')
    BY <1>6
  <2>8. PackTypes'
    BY <1>1, <1>6, <2>1, <2>5, TaskOf, TypesStay
  <2>9. HeldNames' = HeldNames
    BY <1>6 DEF HeldNames
  <2>10. TaskOrder'
    BY <1>1, <1>2, <2>1, <2>2, <2>9 DEF TaskOrder
  <2>11. NotesFollow'
    BY <1>1, <1>2, <2>1 DEF NotesFollow, Doing
  <2>12. DeliveredIsThere'
    BY <1>1, <1>5, <2>1, <2>3, <2>5 DEF DeliveredIsThere, Doing
  <2>13. PartsAreThere'
    <3>1. \A h \in held : h[1] \in Names /\ h[2] \subseteq Parts
      BY <1>1, TaskOf
    <3>2. \A h \in held : h[1] # job.of =>
             <<h[1], OwnPart>> \in shown' /\ \A i \in h[2] : Fest(i, h[1]) \in snapshots'
      BY <1>3, <2>5, <2>6, <2>7, <3>1
    <3>3. \A i \in Parts : i < job'.at => Fest(i, job.of) \notin snapshots'
      BY <1>3, <2>1, <2>2, <2>5
    <3>4. \A a \in Names, i \in Parts : Fest(i, a) \in snapshots' => a \in HeldNames
      BY <1>3, <2>5
    <3>5. \A m \in merged' : m[2][1] \notin Names
      BY <1>3, <2>5
    <3> QED BY <1>1, <1>3, <1>6, <2>1, <2>9, <3>2, <3>3, <3>4, <3>5 DEF PartsAreThere
  <2>14. AnswersServe' /\ SourcesRemain'
    BY <1>1, <1>2, <1>6, <2>1, <2>7, <2>9 DEF PackOrder, AnswersServe, SourcesRemain, Known
  <2>15. BuildsKept'
    <3>1. \A b \in builds : b[1] \in Names
      BY <1>1 DEF PackTypes, PackTypeOK
    <3> QED BY <1>1, <1>2, <2>7, <3>1 DEF PackOrder, BuildsKept
  <2> QED BY <2>8, <2>10, <2>11, <2>12, <2>13, <2>14, <2>15 DEF PackOrder
<1>7. CASE /\ job.at > OwnPart /\ held' = {h \in held : h[1] # job.of} /\ job' = NoTask
           /\ NothingAsked /\ Forgets /\ UNCHANGED <<snapshots, merged, shown>>
  <2>1. job' \in Tasks /\ job'.kind = "none" /\ cache' = {} /\ Known' = {}
    BY <1>1, <1>7, NoTaskIs DEF Forgets, NothingAsked, PackHeld, Known
  <2>2. HeldNames' = HeldNames \ {job.of} /\ held' \subseteq held
    BY <1>7 DEF HeldNames
  <2>3. PackTypes'
    BY <1>1, <1>7, <2>1, <2>2, TaskOf, TypesStay
  <2>4. TaskOrder' /\ NotesFollow'
    BY <1>1, <1>2, <2>1 DEF TaskOrder, NotesFollow, Doing
  <2>5. DeliveredIsThere'
    BY <1>1, <1>5, <1>7, <2>1 DEF DeliveredIsThere, Doing
  <2>6. \A i \in Parts : Fest(i, job.of) \notin snapshots
    <3>1. \A i \in Parts : i < job.at
      BY <1>1, <1>7, PlaceOf DEF PackOrder
    <3> QED BY <1>3, <3>1
  <2>7. PartsAreThere'
    <3>1. \A h \in held' : <<h[1], OwnPart>> \in shown /\ \A i \in h[2] : Fest(i, h[1]) \in snapshots
      BY <1>3, <1>7
    <3>2. \A a \in Names, i \in Parts : Fest(i, a) \in snapshots => a \in HeldNames'
      BY <1>3, <2>2, <2>6
    <3> QED BY <1>3, <1>7, <2>1, <3>1, <3>2 DEF PartsAreThere
  <2>8. AnswersServe' /\ SourcesRemain'
    BY <1>1, <1>2, <2>1, <2>2 DEF PackOrder, AnswersServe, SourcesRemain
  <2>9. BuildsKept'
    BY <1>1, <1>7 DEF PackOrder, BuildsKept
  <2> QED BY <2>3, <2>4, <2>5, <2>7, <2>8, <2>9 DEF PackOrder
<1> QED BY <1>6, <1>7 DEF DropPart

LEMMA BackKeeps ==
    ASSUME PackHeld, BackMirror
    PROVE  PackTypes' /\ PackOrder'
<1>1. /\ PackagesAssumption /\ PackTypes /\ PackOrder /\ TaskOrder /\ job.kind = "back"
      /\ UNCHANGED <<spiegel, merged, shown, repo, served, held, syncs, mode, target, asking,
                     builds, desks, breaks>>
      /\ HeldNames' = HeldNames
  BY DEF PackHeld, PackOrder, BackMirror, HeldNames
<1>2. /\ job.at <= OwnPart /\ job.at >= 1 /\ job.of \in HeldNames /\ job.step \in {"make", "sweep"}
      /\ job.step = "sweep" => job.at <= Mirrors
      /\ job.aktuell = delivers /\ repo = served
  BY <1>1 DEF PackOrder, TaskOrder, NotesFollow, Doing
<1>3. job.at <= Mirrors => job.at \in Spiegel /\ job.at + 1 <= OwnPart /\ job.at + 1 >= 1
  BY <1>1, <1>2, PlaceOf
<1>4. job.of \in Names
  BY <1>1, <1>2, TaskOf DEF HeldNames
<1>5. CASE /\ Doing("back", "make") /\ job.at <= Mirrors /\ job.at \notin PartsOf(job.of)
           /\ NextPart /\ UNCHANGED <<snapshots, delivers, aktuell, cache>>
  <2>1. /\ job' \in Tasks /\ job'.kind = "back" /\ job'.of = job.of /\ job'.at = job.at + 1
        /\ job'.step = "make" /\ job'.aktuell = job.aktuell
    BY <1>1, <1>2, <1>5, TaskGoesOn
  <2>2. PackTypes'
    BY <1>1, <1>5, <2>1, TaskOf, TypesStay
  <2>3. TaskOrder' /\ NotesFollow'
    BY <1>1, <1>2, <1>3, <1>5, <2>1 DEF TaskOrder, NotesFollow, Doing
  <2>4. DeliveredIsThere'
    BY <1>1, <1>5, <2>1 DEF PackOrder, DeliveredIsThere, Doing
  <2>5. PartsAreThere'
    BY <1>1, <1>5, <2>1, PartsStay
  <2>6. AnswersServe' /\ BuildsKept' /\ SourcesRemain'
    BY <1>1, <1>5, <2>1, ServedStay
  <2> QED BY <2>2, <2>3, <2>4, <2>5, <2>6 DEF PackOrder
<1>6. CASE /\ Doing("back", "make") /\ job.at <= Mirrors /\ job.at \in PartsOf(job.of)
           /\ delivers' = [delivers EXCEPT ![job.at] = Fest(job.at, job.of)]
           /\ job' = [job EXCEPT !.step = "sweep",
                                 !.aktuell = [@ EXCEPT ![job.at] = Fest(job.at, job.of)]]
           /\ UNCHANGED <<snapshots, aktuell, cache>>
  <2>1. Fest(job.at, job.of) \in snapshots
    <3>1. PICK h \in held : h[1] = job.of /\ job.at \in h[2]
      BY <1>6 DEF PartsOf
    <3> QED BY <1>1, <3>1 DEF PackOrder, PartsAreThere
  <2>2. job.at \in Spiegel /\ Fest(job.at, job.of) \in Taken
    BY <1>1, <1>3, <1>6, <2>1, TaskOf, SnapshotOf
  <2>3. delivers' \in [Spiegel -> Taken]
    BY <1>1, <1>6, <2>2, TaskOf
  <2>4. /\ job' \in Tasks /\ job'.kind = "back" /\ job'.of = job.of /\ job'.at = job.at
        /\ job'.step = "sweep" /\ job'.aktuell = delivers'
    <3>1. job \in Tasks
      BY <1>1, TaskOf
    <3>2. job' = [job EXCEPT !.step = "sweep", !.aktuell = delivers']
      BY <1>2, <1>6
    <3> QED BY <1>1, <2>3, <3>1, <3>2 DEF Tasks
  <2>5. \A i \in Spiegel : delivers'[i] = IF i = job.at THEN Fest(job.at, job.of) ELSE delivers[i]
    BY <1>1, <1>6, TaskOf
  <2>6. PackTypes'
    BY <1>1, <1>6, <2>3, <2>4, TaskOf, TypesStay
  <2>7. TaskOrder' /\ NotesFollow'
    BY <1>1, <1>2, <1>6, <2>4 DEF TaskOrder, NotesFollow, Doing
  <2>8. DeliveredIsThere'
    <3>1. ASSUME NEW i \in Spiegel, delivers'[i] # None PROVE delivers'[i] \in snapshots /\ delivers'[i][2] = i
      <4>1. CASE i = job.at
        BY <2>1, <2>5, <4>1, FestIs
      <4>2. CASE i # job.at
        BY <1>1, <2>5, <3>1, <4>2 DEF PackOrder, DeliveredIsThere
      <4> QED BY <4>1, <4>2
    <3> QED BY <1>6, <2>4, <3>1 DEF DeliveredIsThere, Doing
  <2>9. PartsAreThere'
    BY <1>1, <1>6, <2>4, PartsStay
  <2>10. AnswersServe' /\ BuildsKept' /\ SourcesRemain'
    <3>1. Fest(job.at, job.of) # None
      BY <1>1, <1>4, SnapshotsApart
    <3>2. \A i \in Spiegel : delivers[i] # None => delivers'[i] # None
      BY <2>5, <3>1
    <3> QED BY <1>1, <1>6, <2>4, <3>2, ServedStay
  <2> QED BY <2>6, <2>7, <2>8, <2>9, <2>10 DEF PackOrder
<1>7. CASE /\ Doing("back", "sweep") /\ snapshots' = snapshots \ Swept(job.at) /\ NextPart
           /\ UNCHANGED <<delivers, aktuell, cache>>
  <2>1. job.step = "sweep" /\ job.at <= Mirrors
    BY <1>2, <1>7 DEF Doing
  <2>2. /\ job' \in Tasks /\ job'.kind = "back" /\ job'.of = job.of /\ job'.at = job.at + 1
        /\ job'.step = "make" /\ job'.aktuell = job.aktuell
    BY <1>1, <1>2, <1>7, TaskGoesOn
  <2>3. PackTypes'
    BY <1>1, <1>7, <2>2, TaskOf, TypesStay
  <2>4. TaskOrder' /\ NotesFollow'
    BY <1>1, <1>2, <1>3, <1>7, <2>1, <2>2 DEF TaskOrder, NotesFollow, Doing
  <2>5. DeliveredIsThere'
    BY <1>1, <1>3, <1>7, <2>1, <2>2, Sweeps DEF PackOrder, DeliveredIsThere, Doing
  <2>6. PartsAreThere'
    BY <1>1, <1>3, <1>7, <2>1, <2>2, Sweeps, PartsStay
  <2>7. AnswersServe' /\ BuildsKept' /\ SourcesRemain'
    BY <1>1, <1>7, <2>2, ServedStay
  <2> QED BY <2>3, <2>4, <2>5, <2>6, <2>7 DEF PackOrder
<1>8. CASE /\ Doing("back", "make") /\ job.at > Mirrors /\ aktuell' = Booking /\ Finishes
           /\ Forgets /\ UNCHANGED <<snapshots, delivers>>
  <2>1. /\ aktuell' = delivers /\ repo' = served' /\ repo' \subseteq Debs /\ served' \subseteq Debs
        /\ breaks' \in 0 .. MaxBreaks /\ cache' = {} /\ job.kind \notin {"hold", "drop"}
    BY <1>1, <1>2, <1>8, TaskOf DEF Booking, Forgets
  <2>2. job' \in Tasks /\ job'.kind = "none"
    BY <1>1, <1>8, <2>1, TaskOf, TaskEnds
  <2> QED BY <1>1, <1>8, <2>1, <2>2, JobEndKeeps
<1> QED BY <1>5, <1>6, <1>7, <1>8 DEF BackMirror

LEMMA OwnKeeps ==
    ASSUME PackHeld, ChangeOwn
    PROVE  PackTypes' /\ PackOrder'
<1>1. /\ PackagesAssumption /\ PackTypes /\ PackOrder /\ TaskOrder
      /\ UNCHANGED <<spiegel, snapshots, merged, delivers, shown, aktuell, held, syncs, mode, target,
                     cache, asking, builds, desks, breaks>>
      /\ HeldNames' = HeldNames
  BY DEF PackHeld, PackOrder, ChangeOwn, apiVars, metaVars, HeldNames
<1>2. job.kind \in {"add", "remove"}
  BY DEF ChangeOwn, Doing
<1>3. /\ job.of \in Debs /\ aktuell = delivers /\ job.at >= 1
  BY <1>1, <1>2 DEF PackOrder, TaskOrder, NotesFollow, Doing
<1>4. CASE /\ repo' = repo \cup {job.of} \/ repo' = repo \ {job.of}
           /\ Steps("publish") /\ UNCHANGED served
  <2>1. /\ job' \in Tasks /\ job'.kind = job.kind /\ job'.of = job.of /\ job'.at = job.at
        /\ job'.step = "publish"
    BY <1>1, <1>4, TaskSteps
  <2>2. repo' \subseteq Debs
    BY <1>1, <1>3, <1>4, TaskOf
  <2>3. PackTypes'
    BY <1>1, <1>4, <2>1, <2>2, TaskOf, TypesStay
  <2>4. TaskOrder' /\ NotesFollow'
    BY <1>1, <1>2, <1>3, <1>4, <2>1 DEF TaskOrder, NotesFollow, Doing
  <2>5. DeliveredIsThere'
    BY <1>1, <1>2, <2>1 DEF PackOrder, DeliveredIsThere, Doing
  <2>6. PartsAreThere'
    BY <1>1, <1>2, <2>1, PartsStay
  <2>7. AnswersServe' /\ BuildsKept' /\ SourcesRemain'
    BY <1>1, <1>2, <2>1, ServedStay
  <2> QED BY <2>3, <2>4, <2>5, <2>6, <2>7 DEF PackOrder
<1>5. CASE served' = repo /\ job' = NoTask /\ UNCHANGED repo
  <2>1. /\ aktuell' = delivers /\ repo' = served' /\ repo' \subseteq Debs /\ served' \subseteq Debs
        /\ breaks' \in 0 .. MaxBreaks /\ job.kind \notin {"hold", "drop"}
    BY <1>1, <1>2, <1>3, <1>5, TaskOf
  <2>2. job' \in Tasks /\ job'.kind = "none"
    BY <1>1, <1>5, NoTaskIs
  <2> QED BY <1>1, <1>5, <2>1, <2>2, JobEndKeeps
<1> QED BY <1>4, <1>5 DEF ChangeOwn

LEMMA FailKeeps ==
    ASSUME PackHeld, JobFails
    PROVE  PackTypes' /\ PackOrder'
<1>1. /\ PackagesAssumption /\ PackTypes /\ PackOrder
      /\ job.kind = "sync" /\ job.step \in {"make", "publish"} /\ job' = NoTask
      /\ UNCHANGED <<spiegel, snapshots, merged, delivers, shown, repo, served, aktuell, held, syncs,
                     mode, target, cache, asking, builds, desks>>
  BY DEF PackHeld, JobFails, aptlyVars, metaVars, apiVars
<1>2. breaks' \in 0 .. MaxBreaks
  <2>1. breaks \in 0 .. MaxBreaks /\ MaxBreaks \in Nat
    BY <1>1, TaskOf DEF PackagesAssumption
  <2>2. breaks < MaxBreaks /\ breaks' = breaks + 1
    BY DEF JobFails
  <2> QED BY <2>1, <2>2
<1>3. aktuell = delivers /\ repo = served
  BY <1>1 DEF PackOrder, NotesFollow, Doing
<1>4. job' \in Tasks /\ job'.kind = "none" /\ repo' \subseteq Debs /\ served' \subseteq Debs
  BY <1>1, NoTaskIs, TaskOf
<1> QED BY <1>1, <1>2, <1>3, <1>4, JobEndKeeps

-----------------------------------------------------------------------------
\* What the API and the desks do leaves the repository and its notes as they are.
LEMMA NothingOfAptly ==
    ASSUME PackOrder, UNCHANGED <<aptlyVars, metaVars, job, syncs>>
    PROVE  /\ TaskOrder' /\ NotesFollow' /\ DeliveredIsThere' /\ PartsAreThere'
           /\ HeldNames' = HeldNames /\ UNCHANGED <<shown, delivers>>
<1>1. /\ UNCHANGED <<snapshots, merged, delivers, shown, repo, served, aktuell, held>>
      /\ HeldNames' = HeldNames
  BY DEF aptlyVars, metaVars, HeldNames
<1>2. TaskOrder'
  BY <1>1 DEF PackOrder, TaskOrder
<1>3. NotesFollow'
  BY <1>1 DEF PackOrder, NotesFollow, Doing
<1>4. DeliveredIsThere'
  BY <1>1 DEF PackOrder, DeliveredIsThere, Doing
<1>5. PartsAreThere'
  <2>1. \A i \in Parts : Reaches(i)' <=> Reaches(i)
    BY DEF Reaches
  <2> QED BY <1>1, <2>1 DEF PackOrder, PartsAreThere
<1> QED BY <1>1, <1>2, <1>3, <1>4, <1>5

LEMMA TypesOfAptly ==
    ASSUME PackTypes, UNCHANGED <<aptlyVars, metaVars, job, syncs, breaks>>,
           spiegel' \in BOOLEAN, mode' \in {"aus", "zuerst", "nur"}, target' \in Names \cup {""},
           cache' \in Maybe(Published), asking' \in Maybe(Published),
           builds' \subseteq Names \X BOOLEAN,
           desks' \in [Desks -> [image : BOOLEAN, own : {"", "eigen", "zuerst", "nur"},
                                 mirrors : SUBSET Spiegel]]
    PROVE  PackTypes'
<1>1. UNCHANGED <<snapshots, merged, delivers, shown, repo, served, aktuell, held>>
  BY DEF aptlyVars, metaVars
<1> QED BY <1>1 DEF PackTypes, PackTypeOK

LEMMA ApiTypes ==
    ASSUME PackTypes
    PROVE  /\ spiegel \in BOOLEAN /\ mode \in {"aus", "zuerst", "nur"} /\ target \in Names \cup {""}
           /\ cache \in Maybe(Published) /\ asking \in Maybe(Published)
           /\ {} \in Maybe(Published) /\ builds \subseteq Names \X BOOLEAN
           /\ desks \in [Desks -> [image : BOOLEAN, own : {"", "eigen", "zuerst", "nur"},
                                   mirrors : SUBSET Spiegel]]
           /\ \A q \in cache : q \in Published
BY DEF PackTypes, PackTypeOK, Maybe

\* A held state that no job takes apart is published.
LEMMA HeldAreShown ==
    ASSUME PackTypes, PackOrder, NEW a \in HeldNames, ~(job.kind = "drop" /\ job.of = a)
    PROVE  a \in Names /\ <<a, OwnPart>> \in shown
<1>1. PICK h \in held : h[1] = a
  BY DEF HeldNames
<1>2. <<h[1], OwnPart>> \in shown
  BY <1>1 DEF PackOrder, PartsAreThere
<1>3. h[1] \in Names
  BY <1>1, TaskOf
<1> QED BY <1>1, <1>2, <1>3

LEMMA QuellenKeep ==
    ASSUME PackHeld, Asks \/ Answered
    PROVE  PackTypes' /\ PackOrder'
<1>1. /\ PackTypes /\ PackOrder
      /\ UNCHANGED <<spiegel, aptlyVars, metaVars, job, syncs, mode, target, builds, desks, breaks>>
  BY DEF PackHeld, Asks, Answered
<1>2. /\ TaskOrder' /\ NotesFollow' /\ DeliveredIsThere' /\ PartsAreThere'
      /\ HeldNames' = HeldNames /\ UNCHANGED <<shown, delivers>>
  BY <1>1, NothingOfAptly
<1>3. BuildsKept' /\ SourcesRemain'
  BY <1>1, <1>2 DEF PackOrder, BuildsKept, SourcesRemain
<1>4. CASE Answered
  <2>1. cache' = asking /\ asking' = {}
    BY <1>4 DEF Answered
  <2>2. PackTypes'
    BY <1>1, <2>1, ApiTypes, TypesOfAptly
  <2>3. Known' \subseteq Known
    BY <2>1 DEF Known
  <2>4. AnswersServe'
    BY <1>1, <1>2, <2>3 DEF PackOrder, AnswersServe
  <2> QED BY <1>2, <1>3, <2>2, <2>4 DEF PackOrder
<1>5. CASE Asks
  <2>1. cache' = cache /\ asking' = {Quellen}
    BY <1>5 DEF Asks
  <2>2. /\ Quellen \in Published
        /\ Quellen.mirrors = {i \in Spiegel : spiegel /\ delivers[i] # None}
        /\ Quellen.states = {a \in Names : <<a, OwnPart>> \in shown}
    BY DEF Quellen, Published
  <2>3. asking' \in Maybe(Published)
    BY <2>1, <2>2 DEF Maybe
  <2>4. PackTypes'
    BY <1>1, <2>1, <2>3, ApiTypes, TypesOfAptly
  <2>5. target \in HeldNames => target \in Quellen.states
    <3>1. ~(job.kind = "drop" /\ job.of = target)
      BY <1>1 DEF PackOrder, AnswersServe
    <3> QED BY <1>1, <2>2, <3>1, HeldAreShown
  <2>6. mode = "nur" /\ spiegel => Quellen.mirrors # {}
    BY <1>1, <2>2 DEF PackOrder, AnswersServe
  <2>7. Known' \subseteq Known \cup {Quellen}
    BY <2>1 DEF Known
  <2>8. AnswersServe'
    <3>1. /\ target \in HeldNames => \A q \in Known' : target \in q.states
          /\ job.kind = "drop" => job.of # target
      BY <1>1, <2>5, <2>7 DEF PackOrder, AnswersServe
    <3>4. \A q \in Known' : \A a \in q.states :
            <<a, OwnPart>> \in shown \/ (job.kind = "drop" /\ job.of = a)
      BY <1>1, <2>2, <2>7 DEF PackOrder, AnswersServe
    <3>2. mode = "nur" => /\ \E i \in Spiegel : delivers[i] # None
                          /\ spiegel => \A q \in Known' : q.mirrors # {}
      BY <1>1, <2>6, <2>7 DEF PackOrder, AnswersServe
    <3>3. \A b \in builds : b[2] => ~(job.kind = "drop" /\ job.of = b[1])
      BY <1>1 DEF PackOrder, AnswersServe
    <3> QED BY <1>1, <1>2, <3>1, <3>2, <3>3, <3>4 DEF AnswersServe
  <2> QED BY <1>2, <1>3, <2>4, <2>8 DEF PackOrder
<1> QED BY <1>4, <1>5

LEMMA SetsKeeps ==
    ASSUME PackHeld, NEW m \in {"aus", "zuerst", "nur"}, NEW a \in Names \cup {""}, Sets(m, a)
    PROVE  PackTypes' /\ PackOrder'
<1>1. /\ PackTypes /\ PackOrder /\ Careful
      /\ UNCHANGED <<spiegel, aptlyVars, metaVars, job, syncs, asking, builds, desks, breaks>>
      /\ asking = {} /\ mode' = m /\ target' = a /\ cache' = {}
      /\ ~(job.kind = "drop" /\ job.of = a)
      /\ m = "nur" => \E i \in Spiegel : delivers[i] # None
  BY DEF PackHeld, Sets, NothingAsked, Forgets
<1>2. /\ TaskOrder' /\ NotesFollow' /\ DeliveredIsThere' /\ PartsAreThere'
      /\ HeldNames' = HeldNames /\ UNCHANGED <<shown, delivers>>
  BY <1>1, NothingOfAptly
<1>3. BuildsKept' /\ SourcesRemain'
  BY <1>1, <1>2 DEF PackOrder, BuildsKept, SourcesRemain
<1>4. PackTypes'
  BY <1>1, ApiTypes, TypesOfAptly
<1>5. Known' = {}
  BY <1>1 DEF Known
<1>6. AnswersServe'
  BY <1>1, <1>2, <1>5 DEF PackOrder, AnswersServe
<1> QED BY <1>2, <1>3, <1>4, <1>6 DEF PackOrder

LEMMA IsInOrNot == ASSUME NEW x, NEW S PROVE (x \in S) \in BOOLEAN
BY SMT

LEMMA BuildKeeps ==
    ASSUME PackHeld, StartBuild \/ BuildEnds
    PROVE  PackTypes' /\ PackOrder'
<1>1. /\ PackTypes /\ PackOrder
      /\ UNCHANGED <<spiegel, aptlyVars, metaVars, job, syncs, mode, target, cache, asking, desks,
                     breaks>>
  BY DEF PackHeld, StartBuild, BuildEnds
<1>2. /\ TaskOrder' /\ NotesFollow' /\ DeliveredIsThere' /\ PartsAreThere'
      /\ HeldNames' = HeldNames /\ UNCHANGED <<shown, delivers>>
  BY <1>1, NothingOfAptly
<1>3. SourcesRemain' /\ Known' = Known
  BY <1>1 DEF PackOrder, SourcesRemain, Known
<1>4. \A b \in builds' : \/ b \in builds
                         \/ /\ b[1] = target /\ b \in Names \X BOOLEAN
                            /\ b[2] => \E q \in Known : target \in q.states
  <2>1. CASE BuildEnds
    BY <2>1 DEF BuildEnds
  <2>2. CASE StartBuild
    <3>1. target \in Names
      BY <1>1, <2>2, ApiTypes DEF StartBuild
    <3>2. PICK q \in cache : builds' = builds \cup {<<target, target \in q.states>>}
      BY <2>2 DEF StartBuild
    <3>3. PICK known \in BOOLEAN : known = (target \in q.states)
      BY IsInOrNot
    <3>4. builds' = builds \cup {<<target, known>>}
      BY <3>2, <3>3
    <3>5. PICK new : new = <<target, known>>
      OBVIOUS
    <3>6. new[1] = target /\ new[2] = known /\ new \in Names \X BOOLEAN
      BY <3>1, <3>5
    <3>7. known => \E p \in Known : target \in p.states
      BY <3>2, <3>3 DEF Known
    <3> QED BY <3>4, <3>5, <3>6, <3>7
  <2> QED BY <2>1, <2>2
<1>5. PackTypes'
  <2>1. builds' \subseteq Names \X BOOLEAN
    BY <1>1, <1>4, ApiTypes
  <2> QED BY <1>1, <2>1, ApiTypes, TypesOfAptly
<1>6. BuildsKept'
  BY <1>1, <1>2, <1>4 DEF PackOrder, BuildsKept, AnswersServe
<1>7. AnswersServe'
  BY <1>1, <1>2, <1>3, <1>4 DEF PackOrder, AnswersServe
<1> QED BY <1>2, <1>3, <1>5, <1>6, <1>7 DEF PackOrder

LEMMA DeployKeeps ==
    ASSUME PackHeld, Deploy
    PROVE  PackTypes' /\ PackOrder'
<1>1. /\ PackTypes /\ PackOrder
      /\ UNCHANGED <<aptlyVars, metaVars, job, syncs, mode, target, builds, desks, breaks>>
      /\ spiegel' = ~spiegel /\ cache' = {} /\ asking' = {}
  BY DEF PackHeld, Deploy
<1>2. /\ TaskOrder' /\ NotesFollow' /\ DeliveredIsThere' /\ PartsAreThere'
      /\ HeldNames' = HeldNames /\ UNCHANGED <<shown, delivers>>
  BY <1>1, NothingOfAptly
<1>3. BuildsKept' /\ SourcesRemain'
  BY <1>1, <1>2 DEF PackOrder, BuildsKept, SourcesRemain
<1>4. PackTypes'
  BY <1>1, ApiTypes, TypesOfAptly
<1>5. Known' = {}
  BY <1>1 DEF Known
<1>6. AnswersServe'
  BY <1>1, <1>2, <1>5 DEF PackOrder, AnswersServe
<1> QED BY <1>2, <1>3, <1>4, <1>6 DEF PackOrder

LEMMA DeskKeeps ==
    ASSUME PackHeld, NEW d \in Desks, PutsBack(d) \/ WritesSources(d)
    PROVE  PackTypes' /\ PackOrder'
<1>1. /\ PackTypes /\ PackOrder
      /\ UNCHANGED <<spiegel, aptlyVars, metaVars, job, syncs, mode, target, cache, asking, builds,
                     breaks>>
  BY DEF PackHeld, PutsBack, WritesSources, apiVars
<1>2. /\ TaskOrder' /\ NotesFollow' /\ DeliveredIsThere' /\ PartsAreThere'
      /\ HeldNames' = HeldNames /\ UNCHANGED <<shown, delivers>>
  BY <1>1, NothingOfAptly
<1>3. BuildsKept' /\ AnswersServe'
  BY <1>1, <1>2 DEF PackOrder, BuildsKept, AnswersServe, Known
<1>4. PICK new \in [image : BOOLEAN, own : {"", "eigen", "zuerst", "nur"}, mirrors : SUBSET Spiegel] :
        desks' = [desks EXCEPT ![d] = new] /\ (~new.image => new.mirrors # {})
  <2>1. CASE PutsBack(d)
    <3>1. PICK new : new = [image |-> TRUE, own |-> "", mirrors |-> {}]
      OBVIOUS
    <3>2. new \in [image : BOOLEAN, own : {"", "eigen", "zuerst", "nur"}, mirrors : SUBSET Spiegel]
      BY <3>1
    <3>3. ~new.image => new.mirrors # {}
      BY <3>1
    <3>4. desks' = [desks EXCEPT ![d] = new]
      BY <2>1, <3>1 DEF PutsBack
    <3> QED BY <3>2, <3>3, <3>4
  <2>2. CASE WritesSources(d)
    <3>1. PICK q \in cache : desks' = [desks EXCEPT ![d] =
             [image |-> ModeSent # "nur", own |-> ModeSent,
              mirrors |-> IF ModeSent = "eigen" THEN {} ELSE q.mirrors]]
      BY <2>2 DEF WritesSources
    <3>2. PICK mirrors : mirrors = IF ModeSent = "eigen" THEN {} ELSE q.mirrors
      OBVIOUS
    <3>3. mirrors \in SUBSET Spiegel
      BY <1>1, <3>1, <3>2, ApiTypes DEF Published
    <3>4. ModeSent \in {"eigen", "zuerst", "nur"} /\ (ModeSent # "nur") \in BOOLEAN
      BY <1>1, ApiTypes DEF ModeSent
    <3>5. ModeSent = "nur" => mirrors # {}
      <4>1. ModeSent = "nur" => mode = "nur" /\ spiegel
        BY <1>1, ApiTypes DEF ModeSent
      <4> QED BY <1>1, <3>1, <3>2, <4>1 DEF PackOrder, AnswersServe, Known
    <3>6. PICK new : new = [image |-> ModeSent # "nur", own |-> ModeSent, mirrors |-> mirrors]
      OBVIOUS
    <3>7. new \in [image : BOOLEAN, own : {"", "eigen", "zuerst", "nur"}, mirrors : SUBSET Spiegel]
      BY <3>3, <3>4, <3>6
    <3>8. ~new.image => new.mirrors # {}
      BY <3>5, <3>6
    <3>9. desks' = [desks EXCEPT ![d] = new]
      BY <3>1, <3>2, <3>6
    <3> QED BY <3>7, <3>8, <3>9
  <2> QED BY <2>1, <2>2
<1>5. PackTypes'
  BY <1>1, <1>4, ApiTypes, TypesOfAptly
<1>6. SourcesRemain'
  BY <1>1, <1>4, ApiTypes DEF PackOrder, SourcesRemain
<1> QED BY <1>2, <1>3, <1>5, <1>6 DEF PackOrder

-----------------------------------------------------------------------------
LEMMA PackStarts ==
    ASSUME PackagesAssumption, PackInit
    PROVE  PackTypes /\ PackOrder
<1>1. delivers \in [Spiegel -> Taken] /\ aktuell = delivers
  BY SnapshotOf DEF PackInit
<1>2. 0 \in 0 .. OwnPart + 1 /\ 0 \in 0 .. MaxSyncs /\ 0 \in 0 .. MaxBreaks
  <2>1. MaxSyncs \in Nat /\ MaxBreaks \in Nat
    BY DEF PackagesAssumption
  <2> QED BY <2>1, MirrorsAreParts
<1>3. job \in Tasks /\ job.kind = "none" /\ job.step = ""
  BY <1>1, <1>2 DEF PackInit, NoTask, Tasks
<1>4. HeldNames = {} /\ Known = {}
  BY DEF PackInit, HeldNames, Known
<1>5. PackTypes
  <2>1. /\ job.at \in 0 .. OwnPart + 1 /\ job.parts \subseteq Parts
    BY <1>3 DEF Tasks
  <2>2. syncs \in 0 .. MaxSyncs /\ breaks \in 0 .. MaxBreaks
    BY <1>2 DEF PackInit
  <2>3. desks \in [Desks -> [image : BOOLEAN, own : {"", "eigen", "zuerst", "nur"},
                             mirrors : SUBSET Spiegel]]
    BY DEF PackInit
  <2> QED BY <1>1, <1>3, <2>1, <2>2, <2>3 DEF PackTypes, PackTypeOK, PackInit, Maybe, Taken
<1>6. TaskOrder /\ NotesFollow
  BY <1>1, <1>3 DEF TaskOrder, NotesFollow, Doing, PackInit
<1>7. DeliveredIsThere
  BY <1>3 DEF DeliveredIsThere, Doing, PackInit
<1>8. PartsAreThere
  BY <1>3, <1>4 DEF PartsAreThere, PackInit
<1>9. AnswersServe
  BY <1>3, <1>4 DEF AnswersServe, PackInit
<1>10. BuildsKept /\ SourcesRemain
  BY DEF BuildsKept, SourcesRemain, PackInit
<1> QED BY <1>5, <1>6, <1>7, <1>8, <1>9, <1>10 DEF PackOrder

LEMMA PackSteps ==
    ASSUME PackHeld, [PackNext]_packageVars
    PROVE  PackTypes' /\ PackOrder'
<1>1. CASE UNCHANGED packageVars
  <2>1. PackTypes /\ PackOrder
    BY DEF PackHeld
  <2>2. UNCHANGED <<spiegel, aptlyVars, metaVars, job, syncs, mode, target, cache, asking, builds,
                    desks, breaks>>
    BY <1>1 DEF packageVars, apiVars
  <2>3. /\ TaskOrder' /\ NotesFollow' /\ DeliveredIsThere' /\ PartsAreThere'
        /\ HeldNames' = HeldNames /\ UNCHANGED <<shown, delivers>>
    BY <2>1, <2>2, NothingOfAptly
  <2>4. PackTypes'
    BY <2>1, <2>2, ApiTypes, TypesOfAptly
  <2>5. AnswersServe' /\ BuildsKept' /\ SourcesRemain'
    BY <2>1, <2>2, <2>3 DEF PackOrder, AnswersServe, BuildsKept, SourcesRemain, Known
  <2> QED BY <2>3, <2>4, <2>5 DEF PackOrder
<1>2. CASE PackNext
  BY <1>2, JobsBegin, SyncKeeps, HoldKeeps, DropKeeps, BackKeeps, OwnKeeps, FailKeeps, QuellenKeep,
     SetsKeeps, BuildKeeps, DeployKeeps, DeskKeeps DEF PackNext
<1> QED BY <1>1, <1>2

LEMMA PackKept ==
    ASSUME PackagesAssumption, Careful, Failing \subseteq {"sync"}
    PROVE  PackSpec => [](PackTypes /\ PackOrder)
<1>1. PackInit => PackTypes /\ PackOrder
  BY PackStarts
<1>2. PackTypes /\ PackOrder /\ [PackNext]_packageVars => PackTypes' /\ PackOrder'
  BY PackSteps DEF PackHeld
<1> QED BY <1>1, <1>2, PTL DEF PackSpec

\* Between two jobs every name that is not held is free to be held, and the notes in
\* meta.json say what aptly delivers, whatever the order of the jobs and of the failures
\* of a synchronisation.
THEOREM StatesAreKept ==
    ASSUME PackagesAssumption, Careful, Failing \subseteq {"sync"}
    PROVE  PackSpec => []StatesKept
<1>1. PackTypes /\ PackOrder => StatesKept
  <2> SUFFICES ASSUME PackTypes, PackOrder PROVE StatesKept
    OBVIOUS
  <2>1. FreeNames
    BY DEF PackOrder, PartsAreThere, FreeNames, Unlocked
  <2>2. HeldAsDelivered
    BY DEF PackOrder, NotesFollow, HeldAsDelivered, Unlocked, Doing
  <2> QED BY <2>1, <2>2 DEF StatesKept
<1> QED BY <1>1, PackKept, PTL

\* A build keeps the state it was told, the next one is told the state that is chosen if it is
\* held, and a desk without its image's sources has mirrors in their place, as long as the
\* administrator is careful; any name may be chosen, held or not.
THEOREM SourcesAreThere ==
    ASSUME PackagesAssumption, Careful, Failing \subseteq {"sync"}
    PROVE  PackSpec => []SourcesHold
<1>1. PackOrder => SourcesHold
  BY DEF PackOrder, SourcesHold, BuildsFromHeld, BuildsKept, AnswersServe, Known
<1> QED BY <1>1, PackKept, PTL

-----------------------------------------------------------------------------
(* The types of the package repository, without any restriction.             *)

\* How far a job may have come, whatever aptly refuses and whoever is careless.
TaskPlaces ==
    /\ job.kind # "none" => job.at >= 1
    /\ job.kind = "sync" => syncs >= 1 /\ (job.step # "make" => job.at <= Mirrors)
    /\ job.kind = "hold" =>
         /\ job.of \in Names /\ job.step \in {"make", "publish"}
         /\ job.step = "publish" => job.at <= OwnPart
    /\ job.kind = "drop" => job.of \in Names
    /\ job.kind = "back" => job.of \in Names /\ (job.step = "sweep" => job.at <= Mirrors)
    /\ job.kind \in {"add", "remove"} => job.of \in Debs
PackRanges == PackTypes /\ TaskPlaces

\* Where a job is, by that alone.
LEMMA PlacesOf ==
    ASSUME PackagesAssumption, PackRanges
    PROVE  /\ job.kind # "none" /\ job.at <= Mirrors =>
                job.at \in Spiegel /\ job.at \in Parts /\ job.at <= OwnPart
           /\ job.kind # "none" /\ job.at <= OwnPart =>
                /\ job.at \in Parts /\ job.at + 1 >= 1
                /\ job.at # OwnPart => job.at \in Spiegel
           /\ job.kind = "sync" => syncs \in 1 .. MaxSyncs
<1>1. /\ job.at \in 0 .. OwnPart + 1 /\ OwnPart = Mirrors + 1 /\ Mirrors \in Nat
      /\ Spiegel = 1 .. Mirrors /\ Parts = 1 .. OwnPart /\ (job.kind # "none" => job.at >= 1)
  BY TaskOf DEF PackRanges, TaskPlaces, OwnPart, Spiegel, Parts, PackagesAssumption
<1>2. syncs \in 0 .. MaxSyncs /\ MaxSyncs \in Nat /\ (job.kind = "sync" => syncs >= 1)
  BY TaskOf DEF PackRanges, TaskPlaces, PackagesAssumption
<1>3. job.kind = "sync" => syncs \in 1 .. MaxSyncs
  BY <1>2
<1> QED BY <1>1, <1>3

\* A job that begins.
LEMMA BeginsTyped ==
    ASSUME PackagesAssumption, PackRanges,
           Sync \/ (\E a \in Names : Hold(a) \/ Drop(a) \/ Back(a))
                \/ (\E d \in Debs : Upload(d) \/ Delete(d))
    PROVE  PackRanges'
<1>1. /\ PackTypes /\ TaskPlaces /\ "" \in Names \cup Debs \cup {""}
  BY DEF PackRanges
<1>0. syncs \in 0 .. MaxSyncs /\ MaxSyncs \in Nat
  BY <1>1, TaskOf DEF PackagesAssumption
<1>4. syncs < MaxSyncs /\ syncs' = syncs + 1 => syncs' \in 0 .. MaxSyncs /\ syncs' >= 1
  BY <1>0
<1> DEFINE Begins(kind, a) ==
        /\ Takes(kind, a)
        /\ kind \in {"hold", "drop", "back"} => a \in Names
        /\ kind \in {"add", "remove"} => a \in Debs
        /\ kind = "sync" => syncs < MaxSyncs /\ syncs' = syncs + 1
        /\ kind # "sync" => syncs' = syncs
        /\ cache' = cache \/ cache' = {}
        /\ UNCHANGED <<spiegel, aptlyVars, metaVars, mode, target, asking, builds, desks, breaks>>
<1>2. PICK kind \in Kinds, a \in Names \cup Debs \cup {""} : Begins(kind, a)
  <2>1. CASE Sync
    <3>1. Begins("sync", "")
      BY <2>1 DEF Sync, Forgets
    <3> QED BY <3>1 DEF Kinds
  <2>2. ASSUME NEW a \in Names, Hold(a) \/ Drop(a) \/ Back(a)
        PROVE  \E kind \in Kinds : Begins(kind, a)
    <3>1. Begins("hold", a) \/ Begins("drop", a) \/ Begins("back", a)
      BY <2>2 DEF Hold, Drop, Back, apiVars
    <3> QED BY <3>1 DEF Kinds
  <2>3. ASSUME NEW d \in Debs, Upload(d) \/ Delete(d)
        PROVE  \E kind \in Kinds : Begins(kind, d)
    <3>1. Begins("add", d) \/ Begins("remove", d)
      BY <2>3 DEF Upload, Delete, apiVars
    <3> QED BY <3>1 DEF Kinds
  <2> HIDE DEF Begins
  <2> QED BY <2>1, <2>2, <2>3
<1>3. /\ job' \in Tasks /\ job'.kind = kind /\ job'.of = a /\ job'.at = 1 /\ job'.step = "make"
  BY <1>1, <1>2, JobTaken
<1>5. syncs' \in 0 .. MaxSyncs /\ (kind = "sync" => syncs' >= 1)
  <2>1. CASE kind = "sync"
    <3>1. syncs < MaxSyncs /\ syncs' = syncs + 1
      BY <1>2, <2>1
    <3> QED BY <1>4, <3>1
  <2>2. CASE kind # "sync"
    BY <1>0, <1>2, <2>2
  <2> QED BY <2>1, <2>2
<1>6. UNCHANGED <<snapshots, merged, delivers, shown, repo, served, aktuell, held>>
  BY <1>2 DEF aptlyVars, metaVars
<1>7. PackTypes'
  BY <1>1, <1>2, <1>3, <1>5, <1>6, TaskOf, TypesStay
<1>8. TaskPlaces'
  <2>1. /\ job'.kind \in {"hold", "drop", "back"} => job'.of \in Names
        /\ job'.kind \in {"add", "remove"} => job'.of \in Debs
    BY <1>2, <1>3
  <2>2. job'.at >= 1 /\ 1 <= OwnPart
    BY <1>3, MirrorsAreParts
  <2> QED BY <1>3, <1>5, <2>1, <2>2 DEF TaskPlaces
<1> QED BY <1>7, <1>8 DEF PackRanges

\* A job that ends, or goes on to another step or part.
LEMMA PlacesStay ==
    ASSUME PackagesAssumption, PackRanges, syncs' = syncs,
           \/ job' = NoTask \/ (Finishes /\ aktuell' \in [Spiegel -> Taken])
           \/ (NextPart /\ job.kind # "none" /\ job.at <= OwnPart)
           \/ \E step \in {"make", "publish", "book", "sweep"} :
                /\ Steps(step)
                /\ job.kind \in {"sync", "back"} => job.at <= Mirrors
                /\ job.kind = "hold" => step = "publish" /\ job.at <= OwnPart
    PROVE  job' \in Tasks /\ TaskPlaces'
<1>1. PackTypes /\ TaskPlaces
  BY DEF PackRanges
<1>2. CASE job' = NoTask \/ (Finishes /\ aktuell' \in [Spiegel -> Taken])
  <2>1. job' \in Tasks /\ job'.kind = "none"
    BY <1>1, <1>2, NoTaskIs, TaskEnds
  <2> QED BY <2>1 DEF TaskPlaces
<1>3. CASE NextPart /\ job.kind # "none" /\ job.at <= OwnPart
  <2>1. /\ job' \in Tasks /\ job'.kind = job.kind /\ job'.of = job.of /\ job'.at = job.at + 1
        /\ job'.step = "make"
    BY <1>1, <1>3, TaskGoesOn
  <2>2. job'.at >= 1
    BY <1>3, <2>1, PlacesOf
  <2> QED BY <1>1, <2>1, <2>2 DEF TaskPlaces
<1>4. ASSUME NEW step \in {"make", "publish", "book", "sweep"}, Steps(step),
             job.kind \in {"sync", "back"} => job.at <= Mirrors,
             job.kind = "hold" => step = "publish" /\ job.at <= OwnPart
      PROVE  job' \in Tasks /\ TaskPlaces'
  <2>1. /\ job' \in Tasks /\ job'.kind = job.kind /\ job'.of = job.of /\ job'.at = job.at
        /\ job'.step = step
    BY <1>1, <1>4, TaskSteps
  <2> QED BY <1>1, <1>4, <2>1 DEF TaskPlaces
<1> QED BY <1>2, <1>3, <1>4


LEMMA SyncTyped ==
    ASSUME PackagesAssumption, PackRanges, SyncMirror
    PROVE  PackRanges'
<1>1. /\ PackTypes /\ job.kind = "sync" /\ syncs' = syncs
      /\ UNCHANGED <<spiegel, merged, shown, repo, served, held, mode, target, cache, asking, builds,
                     desks, breaks>>
  BY DEF PackRanges, SyncMirror, apiVars
<1>2. job.at <= Mirrors => job.at \in Spiegel /\ AutoOf(job.at, syncs) \in Snapshots /\ job.at <= OwnPart
  BY <1>1, PlacesOf, SnapshotOf
<1>3. job.step # "make" => job.at <= Mirrors
  BY <1>1 DEF PackRanges, TaskPlaces
<1>4. /\ snapshots' \subseteq Snapshots /\ delivers' \in [Spiegel -> Taken]
      /\ aktuell' \in [Spiegel -> Taken]
  <2>1. \/ snapshots' = snapshots
        \/ snapshots' = snapshots \cup {AutoOf(job.at, syncs)} /\ job.at <= Mirrors
        \/ snapshots' = snapshots \ Swept(job.at)
    BY DEF SyncMirror
  <2>2. \/ delivers' = delivers
        \/ delivers' = [delivers EXCEPT ![job.at] = AutoOf(job.at, syncs)] /\ job.at <= Mirrors
    BY <1>3 DEF SyncMirror, Doing
  <2>3. \/ aktuell' = aktuell
        \/ aktuell' = [aktuell EXCEPT ![job.at] = AutoOf(job.at, syncs)] /\ job.at <= Mirrors
    BY <1>3 DEF SyncMirror, Doing
  <2> QED BY <1>1, <1>2, <2>1, <2>2, <2>3, TaskOf, SnapshotOf
<1>5. \/ Finishes \/ (NextPart /\ job.at <= OwnPart)
      \/ \E step \in {"make", "publish", "book", "sweep"} : Steps(step) /\ job.at <= Mirrors
  BY <1>2, <1>3 DEF SyncMirror, Doing
<1>6. job' \in Tasks /\ TaskPlaces'
  BY <1>1, <1>4, <1>5, PlacesStay
<1> QED BY <1>1, <1>4, <1>6, TaskOf, TypesStay DEF PackRanges

LEMMA HoldTyped ==
    ASSUME PackagesAssumption, PackRanges, HoldPart
    PROVE  PackRanges'
<1>1. /\ PackTypes /\ TaskPlaces /\ job.kind = "hold" /\ syncs' = syncs /\ job.of \in Names
      /\ UNCHANGED <<spiegel, delivers, repo, served, aktuell, mode, target, asking, builds, desks,
                     breaks>>
  BY DEF PackRanges, TaskPlaces, HoldPart
<1>2. job.at <= OwnPart => /\ job.at \in Parts /\ Fest(job.at, job.of) \in Snapshots
                           /\ job.at # OwnPart => job.at \in Spiegel
  BY <1>1, PlacesOf, SnapshotOf
<1>3. CASE Doing("hold", "make") /\ job.at <= OwnPart /\ Skipped /\ NextPart
           /\ UNCHANGED <<snapshots, merged, shown, held, cache>>
  <2>1. job' \in Tasks /\ TaskPlaces'
    BY <1>1, <1>3, PlacesStay
  <2> QED BY <1>1, <1>3, <2>1, TaskOf, TypesStay DEF PackRanges
<1>4. CASE /\ job.at <= OwnPart /\ CanMake /\ Steps("publish")
           /\ snapshots' = snapshots \cup {Fest(job.at, job.of)}
           /\ merged' = IF job.at = OwnPart THEN merged
                        ELSE merged \cup {<<Fest(job.at, job.of), aktuell[job.at]>>}
           /\ UNCHANGED <<shown, held, cache>>
  <2>1. job' \in Tasks /\ TaskPlaces'
    BY <1>1, <1>4, PlacesStay
  <2>2. snapshots' \subseteq Snapshots /\ merged' \subseteq Snapshots \X Snapshots
    <3>1. job.at # OwnPart => aktuell[job.at] \in Snapshots
      BY <1>1, <1>4, TaskOf DEF CanMake
    <3>2. PICK new : new = <<Fest(job.at, job.of), aktuell[job.at]>>
      OBVIOUS
    <3>3. job.at # OwnPart => new \in Snapshots \X Snapshots
      BY <1>2, <1>4, <3>1, <3>2
    <3>4. merged' = IF job.at = OwnPart THEN merged ELSE merged \cup {new}
      BY <1>4, <3>2
    <3>5. snapshots' \subseteq Snapshots
      BY <1>1, <1>2, <1>4, TaskOf
    <3> QED BY <1>1, <3>3, <3>4, <3>5, TaskOf
  <2> QED BY <1>1, <1>4, <2>1, <2>2, TaskOf, TypesStay DEF PackRanges
<1>5. CASE job' = NoTask /\ UNCHANGED <<snapshots, merged, shown, held, cache>>
  <2>1. job' \in Tasks /\ TaskPlaces'
    BY <1>1, <1>5, PlacesStay
  <2> QED BY <1>1, <1>5, <2>1, TaskOf, TypesStay DEF PackRanges
<1>6. CASE /\ Doing("hold", "publish") /\ shown' = shown \cup {<<job.of, job.at>>}
           /\ job' = [job EXCEPT !.at = @ + 1, !.step = "make", !.parts = @ \cup {job.at}]
           /\ UNCHANGED <<snapshots, merged, held, cache>>
  <2>1. job.at <= OwnPart
    BY <1>1, <1>6 DEF TaskPlaces, Doing
  <2>2. job \in Tasks /\ job.at + 1 \in 0 .. OwnPart + 1 /\ job.parts \cup {job.at} \in SUBSET Parts
    BY <1>1, <1>2, <2>1, TaskOf, MirrorsAreParts
  <2>3. PICK at, parts : at = job.at + 1 /\ parts = job.parts \cup {job.at}
    OBVIOUS
  <2>4. job' = [job EXCEPT !.at = at, !.step = "make", !.parts = parts]
    BY <1>6, <2>3
  <2>5. /\ job' \in Tasks /\ job'.kind = job.kind /\ job'.of = job.of /\ job'.at = job.at + 1
        /\ job'.step = "make"
    BY <2>2, <2>3, <2>4 DEF Tasks
  <2>6. job'.at >= 1
    BY <1>1, <2>1, <2>5, PlacesOf
  <2>7. TaskPlaces'
    BY <1>1, <2>5, <2>6 DEF TaskPlaces
  <2>8. shown' \subseteq Names \X Parts
    <3>1. PICK new : new = <<job.of, job.at>>
      OBVIOUS
    <3>2. new \in Names \X Parts /\ shown' = shown \cup {new}
      BY <1>1, <1>2, <1>6, <2>1, <3>1
    <3> QED BY <1>1, <3>2, TaskOf
  <2> QED BY <1>1, <1>6, <2>5, <2>7, <2>8, TaskOf, TypesStay DEF PackRanges
<1>7. CASE /\ held' = held \cup {<<job.of, job.parts>>} /\ job' = NoTask /\ Forgets
           /\ UNCHANGED <<snapshots, merged, shown>>
  <2>1. job' \in Tasks /\ TaskPlaces'
    BY <1>1, <1>7, PlacesStay
  <2>2. held' \subseteq Names \X SUBSET Parts
    <3>1. PICK new : new = <<job.of, job.parts>>
      OBVIOUS
    <3>2. new \in Names \X SUBSET Parts /\ held' = held \cup {new}
      BY <1>1, <1>7, <3>1, TaskOf
    <3> QED BY <1>1, <3>2, TaskOf
  <2> QED BY <1>1, <1>7, <2>1, <2>2, TaskOf, TypesStay DEF PackRanges, Forgets
<1> QED BY <1>3, <1>4, <1>5, <1>6, <1>7 DEF HoldPart

LEMMA DropTyped ==
    ASSUME PackagesAssumption, PackRanges, DropPart
    PROVE  PackRanges'
<1>1. /\ PackTypes /\ job.kind = "drop" /\ syncs' = syncs
      /\ UNCHANGED <<spiegel, delivers, repo, served, aktuell, mode, target, asking, builds, desks,
                     breaks>>
  BY DEF PackRanges, DropPart
<1>2. /\ snapshots' \subseteq snapshots /\ merged' \subseteq merged /\ shown' \subseteq shown
      /\ held' \subseteq held /\ (cache' = cache \/ cache' = {})
      /\ (NextPart /\ job.at <= OwnPart) \/ job' = NoTask
  BY DEF DropPart, Forgets
<1>3. job' \in Tasks /\ TaskPlaces'
  BY <1>1, <1>2, PlacesStay
<1> QED BY <1>1, <1>2, <1>3, TaskOf, TypesStay DEF PackRanges

LEMMA BackTyped ==
    ASSUME PackagesAssumption, PackRanges, BackMirror
    PROVE  PackRanges'
<1>1. /\ PackTypes /\ TaskPlaces /\ job.kind = "back" /\ syncs' = syncs /\ job.of \in Names
      /\ UNCHANGED <<spiegel, merged, shown, repo, served, held, mode, target, asking, builds, desks,
                     breaks>>
  BY DEF PackRanges, TaskPlaces, BackMirror
<1>2. job.at <= Mirrors => job.at \in Spiegel /\ Fest(job.at, job.of) \in Taken /\ job.at <= OwnPart
  BY <1>1, PlacesOf, SnapshotOf
<1>3. CASE Doing("back", "make") /\ job.at <= Mirrors /\ NextPart
           /\ UNCHANGED <<snapshots, delivers, aktuell, cache>>
  <2>1. job' \in Tasks /\ TaskPlaces'
    BY <1>1, <1>2, <1>3, PlacesStay
  <2> QED BY <1>1, <1>3, <2>1, TaskOf, TypesStay DEF PackRanges
<1>4. CASE /\ job.at <= Mirrors /\ delivers' = [delivers EXCEPT ![job.at] = Fest(job.at, job.of)]
           /\ job' = [job EXCEPT !.step = "sweep",
                                 !.aktuell = [@ EXCEPT ![job.at] = Fest(job.at, job.of)]]
           /\ UNCHANGED <<snapshots, aktuell, cache>>
  <2>1. /\ job \in Tasks /\ delivers' \in [Spiegel -> Taken]
        /\ [job.aktuell EXCEPT ![job.at] = Fest(job.at, job.of)] \in [Spiegel -> Taken]
    BY <1>1, <1>2, <1>4, TaskOf
  <2>2. PICK turned \in [Spiegel -> Taken] :
          turned = [job.aktuell EXCEPT ![job.at] = Fest(job.at, job.of)]
    BY <2>1
  <2>3. job' = [job EXCEPT !.step = "sweep", !.aktuell = turned]
    BY <1>4, <2>2
  <2>4. /\ job' \in Tasks /\ job'.kind = job.kind /\ job'.of = job.of /\ job'.at = job.at
        /\ job'.step = "sweep"
    BY <2>1, <2>3 DEF Tasks
  <2>5. TaskPlaces'
    BY <1>1, <1>4, <2>4 DEF TaskPlaces
  <2> QED BY <1>1, <1>4, <2>1, <2>4, <2>5, TaskOf, TypesStay DEF PackRanges
<1>5. CASE /\ Doing("back", "sweep") /\ snapshots' = snapshots \ Swept(job.at) /\ NextPart
           /\ UNCHANGED <<delivers, aktuell, cache>>
  <2>1. job.at <= OwnPart
    BY <1>1, <1>2, <1>5 DEF TaskPlaces, Doing
  <2>2. job' \in Tasks /\ TaskPlaces'
    BY <1>1, <1>5, <2>1, PlacesStay
  <2> QED BY <1>1, <1>5, <2>2, TaskOf, TypesStay DEF PackRanges
<1>6. CASE aktuell' = Booking /\ Finishes /\ Forgets /\ UNCHANGED <<snapshots, delivers>>
  <2>1. aktuell' \in [Spiegel -> Taken]
    BY <1>1, <1>6, TaskOf DEF Booking
  <2>2. job' \in Tasks /\ TaskPlaces'
    BY <1>1, <1>6, <2>1, PlacesStay
  <2> QED BY <1>1, <1>6, <2>1, <2>2, TaskOf, TypesStay DEF PackRanges, Forgets
<1> QED BY <1>3, <1>4, <1>5, <1>6 DEF BackMirror

LEMMA OwnTyped ==
    ASSUME PackagesAssumption, PackRanges, ChangeOwn
    PROVE  PackRanges'
<1>1. /\ PackTypes /\ job.kind \in {"add", "remove"} /\ syncs' = syncs /\ job.of \in Debs
      /\ UNCHANGED <<spiegel, snapshots, merged, delivers, shown, aktuell, held, mode, target, cache,
                     asking, builds, desks, breaks>>
  BY DEF PackRanges, TaskPlaces, ChangeOwn, Doing, metaVars, apiVars
<1>2. /\ repo' \in {repo, repo \cup {job.of}, repo \ {job.of}} /\ served' \in {served, repo}
      /\ Steps("publish") \/ job' = NoTask
  BY DEF ChangeOwn
<1>3. repo' \subseteq Debs /\ served' \subseteq Debs
  BY <1>1, <1>2, TaskOf
<1>4. job' \in Tasks /\ TaskPlaces'
  BY <1>1, <1>2, PlacesStay
<1> QED BY <1>1, <1>3, <1>4, TaskOf, TypesStay DEF PackRanges

LEMMA FailTyped ==
    ASSUME PackagesAssumption, PackRanges, JobFails
    PROVE  PackRanges'
<1>1. /\ PackTypes /\ job' = NoTask /\ syncs' = syncs
      /\ UNCHANGED <<spiegel, snapshots, merged, delivers, shown, repo, served, aktuell, held, mode,
                     target, cache, asking, builds, desks>>
  BY DEF PackRanges, JobFails, aptlyVars, metaVars, apiVars
<1>2. breaks' \in 0 .. MaxBreaks
  <2>1. breaks \in 0 .. MaxBreaks /\ MaxBreaks \in Nat /\ breaks < MaxBreaks /\ breaks' = breaks + 1
    BY <1>1, TaskOf DEF PackagesAssumption, JobFails
  <2> QED BY <2>1
<1>3. job' \in Tasks /\ TaskPlaces'
  BY <1>1, PlacesStay
<1> QED BY <1>1, <1>2, <1>3, TaskOf, TypesStay DEF PackRanges

\* The API and the desks, which start no job and end none.
LEMMA ApiTyped ==
    ASSUME PackRanges,
           \/ Asks \/ Answered \/ StartBuild \/ BuildEnds \/ Deploy
           \/ \E m \in {"aus", "zuerst", "nur"}, a \in Names \cup {""} : Sets(m, a)
           \/ \E d \in Desks : PutsBack(d) \/ WritesSources(d)
    PROVE  PackRanges'
<1>1. /\ PackTypes /\ TaskPlaces /\ UNCHANGED <<aptlyVars, metaVars, job, syncs, breaks>>
  BY DEF PackRanges, Asks, Answered, StartBuild, BuildEnds, Deploy, Sets, PutsBack, WritesSources
<1>2. spiegel' \in BOOLEAN /\ mode' \in {"aus", "zuerst", "nur"} /\ target' \in Names \cup {""}
  BY <1>1, ApiTypes DEF Asks, Answered, StartBuild, BuildEnds, Deploy, Sets, PutsBack, WritesSources,
                        apiVars
<1>3. cache' \in Maybe(Published) /\ asking' \in Maybe(Published)
  <2>1. Quellen \in Published
    BY DEF Quellen, Published
  <2>2. {Quellen} \in Maybe(Published)
    BY <2>1 DEF Maybe
  <2>3. cache' \in {cache, asking, {}} /\ asking' \in {asking, {}, {Quellen}}
    BY DEF Asks, Answered, StartBuild, BuildEnds, Deploy, Sets, PutsBack, WritesSources, apiVars, Forgets
  <2> QED BY <1>1, <2>2, <2>3, ApiTypes
<1>4. builds' \subseteq Names \X BOOLEAN
  <2>1. CASE StartBuild
    <3>1. target \in Names
      BY <1>1, <2>1, ApiTypes DEF StartBuild
    <3>2. PICK q \in cache : builds' = builds \cup {<<target, target \in q.states>>}
      BY <2>1 DEF StartBuild
    <3>3. PICK known \in BOOLEAN : builds' = builds \cup {<<target, known>>}
      <4>1. (target \in q.states) \in BOOLEAN
        BY IsInOrNot
      <4> QED BY <3>2, <4>1
    <3>4. <<target, known>> \in Names \X BOOLEAN
      BY <3>1
    <3>5. PICK new : new \in Names \X BOOLEAN /\ builds' = builds \cup {new}
      BY <3>3, <3>4
    <3> QED BY <1>1, <3>5, ApiTypes
  <2>2. CASE ~StartBuild
    BY <1>1, <2>2, ApiTypes DEF Asks, Answered, BuildEnds, Deploy, Sets, PutsBack, WritesSources, apiVars
  <2> QED BY <2>1, <2>2
<1>5. desks' \in [Desks -> [image : BOOLEAN, own : {"", "eigen", "zuerst", "nur"},
                            mirrors : SUBSET Spiegel]]
  <2>1. ASSUME NEW d \in Desks, PutsBack(d)
        PROVE  desks' \in [Desks -> [image : BOOLEAN, own : {"", "eigen", "zuerst", "nur"},
                                     mirrors : SUBSET Spiegel]]
    BY <1>1, <2>1, ApiTypes DEF PutsBack
  <2>2. ASSUME NEW d \in Desks, WritesSources(d)
        PROVE  desks' \in [Desks -> [image : BOOLEAN, own : {"", "eigen", "zuerst", "nur"},
                                     mirrors : SUBSET Spiegel]]
    <3>1. PICK q \in cache : desks' = [desks EXCEPT ![d] =
             [image |-> ModeSent # "nur", own |-> ModeSent,
              mirrors |-> IF ModeSent = "eigen" THEN {} ELSE q.mirrors]]
      BY <2>2 DEF WritesSources
    <3>2. PICK mirrors : mirrors = IF ModeSent = "eigen" THEN {} ELSE q.mirrors
      OBVIOUS
    <3>3. mirrors \in SUBSET Spiegel
      BY <1>1, <3>1, <3>2, ApiTypes DEF Published
    <3>4. ModeSent \in {"eigen", "zuerst", "nur"} /\ (ModeSent # "nur") \in BOOLEAN
      BY <1>1, ApiTypes DEF ModeSent
    <3>5. desks' = [desks EXCEPT ![d] =
             [image |-> ModeSent # "nur", own |-> ModeSent, mirrors |-> mirrors]]
      BY <3>1, <3>2
    <3> QED BY <1>1, <3>3, <3>4, <3>5, ApiTypes
  <2>3. CASE ~\E d \in Desks : PutsBack(d) \/ WritesSources(d)
    BY <1>1, <2>3, ApiTypes DEF Asks, Answered, StartBuild, BuildEnds, Deploy, Sets
  <2> QED BY <2>1, <2>2, <2>3
<1>6. PackTypes'
  BY <1>1, <1>2, <1>3, <1>4, <1>5, TypesOfAptly
<1>7. TaskPlaces'
  BY <1>1 DEF TaskPlaces
<1> QED BY <1>6, <1>7 DEF PackRanges

\* The state of the package repository is well typed, whoever does what in it, whatever
\* aptly refuses, and wherever a job breaks off (snapshot_anlegen, synchronisieren,
\* zurueckdrehen and what the API keeps of them).
THEOREM PackTypesHold == ASSUME PackagesAssumption PROVE PackSpec => []PackTypeOK
<1>1. PackInit => PackRanges
  <2> SUFFICES ASSUME PackInit PROVE PackRanges
    OBVIOUS
  <2>1. job.kind = "none"
    BY DEF PackInit, NoTask
  <2> QED BY <2>1, PackStarts DEF PackRanges, TaskPlaces
<1>2. PackRanges /\ [PackNext]_packageVars => PackRanges'
  <2> SUFFICES ASSUME PackRanges, [PackNext]_packageVars PROVE PackRanges'
    OBVIOUS
  <2>1. CASE PackNext
    BY <2>1, BeginsTyped, SyncTyped, HoldTyped, DropTyped, BackTyped, OwnTyped, FailTyped, ApiTyped
    DEF PackNext
  <2>2. CASE UNCHANGED packageVars
    <3>1. /\ UNCHANGED <<spiegel, aptlyVars, metaVars, job, syncs, mode, target, cache, asking,
                         builds, desks, breaks>>
      BY <2>2 DEF packageVars, apiVars
    <3>2. PackTypes'
      BY <3>1, ApiTypes, TypesOfAptly DEF PackRanges
    <3> QED BY <3>1, <3>2 DEF PackRanges, TaskPlaces
  <2> QED BY <2>1, <2>2
<1>3. PackRanges => PackTypeOK
  BY DEF PackRanges, PackTypes
<1> QED BY <1>1, <1>2, <1>3, PTL DEF PackSpec


-----------------------------------------------------------------------------
(* Backups: the retention never removes a good one without newer ones, nor the *)
(* last one of a week without newer weeks.                                     *)

RunnerStates ==
    [pc : {"idle", "first", "series", "archive", "book", "last", "stale", "retain", "remove", "done"},
     todo : SUBSET Series, row : 0 .. MaxRows, marked : SUBSET Rows, full : BOOLEAN]

LEMMA BackupTypes ==
    ASSUME BackupTypeOK, BackupsAssumption
    PROVE  /\ now \in 0 .. MaxTime /\ lastRun \in -1 .. MaxTime /\ troubles \in 0 .. MaxTroubles
           /\ workers \in [Runners -> RunnerStates]
           /\ Len(backups) \in Nat /\ Len(backups) <= MaxRows /\ KnownRows \subseteq Rows
           /\ backups \in [KnownRows -> Backup] /\ MaxRows \in Nat /\ MaxTime \in Nat /\ MaxTroubles \in Nat
<1>1. backups \in Seq(Backup) /\ Len(backups) <= MaxRows /\ MaxRows \in Nat /\ MaxTime \in Nat /\ MaxTroubles \in Nat
  BY DEF BackupTypeOK, BackupsAssumption
<1>2. Len(backups) \in Nat /\ backups \in [1 .. Len(backups) -> Backup]
  BY <1>1
<1>3. workers \in [Runners -> RunnerStates]
  BY DEF BackupTypeOK, RunnerStates
<1> QED BY <1>1, <1>2, <1>3 DEF BackupTypeOK, KnownRows, Rows

\* A table whose rows are those that were there is one again.
LEMMA TableOfRows ==
    ASSUME NEW n \in Nat, NEW t, t \in [1 .. n -> Backup]
    PROVE  t \in Seq(Backup) /\ Len(t) = n
OBVIOUS

LEMMA TablesType ==
    ASSUME BackupTypeOK, BackupsAssumption, backups' \in [KnownRows -> Backup]
    PROVE  backups' \in Seq(Backup) /\ Len(backups') = Len(backups) /\ Len(backups') <= MaxRows
BY BackupTypes, TableOfRows DEF KnownRows

LEMMA RunnerBecomes ==
    ASSUME BackupTypeOK, BackupsAssumption, NEW w \in Runners, NEW r \in RunnerStates, Becomes(w, r)
    PROVE  /\ workers' \in [Runners -> RunnerStates] /\ workers'[w] = r
           /\ \A v \in Runners \ {w} : workers'[v] = workers[v]
BY BackupTypes DEF Becomes

LEMMA StepIsARun ==
    ASSUME NEW r \in RunnerStates, NEW pc \in {"idle", "first", "series", "archive", "book", "last", "stale", "retain",
               "remove", "done"}
    PROVE  [r EXCEPT !.pc = pc] \in RunnerStates
BY DEF RunnerStates

LEMMA AtRestIsARun == ASSUME BackupsAssumption PROVE AtRest \in RunnerStates
BY DEF AtRest, RunnerStates, BackupsAssumption

LEMMA BackupInitTypes ==
    ASSUME BackupsAssumption, BackupInit
    PROVE  BackupTypeOK
<1>1. workers \in [Runners -> RunnerStates]
  BY AtRestIsARun DEF BackupInit
<1>2. backups \in Seq(Backup) /\ Len(backups) = 0
  BY DEF BackupInit
<1> QED BY <1>1, <1>2 DEF BackupInit, BackupTypeOK, RunnerStates, BackupsAssumption

LEMMA BackupStutterKeepsTypes ==
    ASSUME BackupTypeOK, UNCHANGED backupVars
    PROVE  BackupTypeOK'
BY DEF BackupTypeOK, backupVars

LEMMA BackupStepKeepsTypes ==
    ASSUME BackupsAssumption, BackupTypeOK, BackupNext
    PROVE  BackupTypeOK'
<1>t. /\ now \in 0 .. MaxTime /\ lastRun \in -1 .. MaxTime /\ troubles \in 0 .. MaxTroubles
      /\ workers \in [Runners -> RunnerStates]
      /\ Len(backups) \in Nat /\ Len(backups) <= MaxRows /\ KnownRows \subseteq Rows
      /\ backups \in [KnownRows -> Backup] /\ MaxRows \in Nat /\ MaxTime \in Nat /\ MaxTroubles \in Nat
  BY BackupTypes
<1>s. \A w \in Runners : workers[w] \in RunnerStates
  BY <1>t
<1>z. 0 \in 0 .. MaxRows
  BY <1>t
<1>g. ASSUME workers' \in [Runners -> RunnerStates], now' \in 0 .. MaxTime, lastRun' \in -1 .. MaxTime,
             troubles' \in 0 .. MaxTroubles, backups' \in [KnownRows -> Backup] \/ UNCHANGED backups
      PROVE  BackupTypeOK'
  <2>1. backups' \in Seq(Backup) /\ Len(backups') <= MaxRows
    BY <1>g, TablesType DEF BackupTypeOK
  <2> QED BY <1>g, <2>1 DEF BackupTypeOK, RunnerStates
<1>r. TroubleComes => troubles' \in 0 .. MaxTroubles
  BY <1>t DEF TroubleComes
<1>w. \A is, status : status \in {"running", "ok", "failed", "undone", "none", "gone"} =>
          With(is, status) \in [KnownRows -> Backup]
  BY <1>t DEF With, Backup
<1>m. \A i \in KnownRows : Removed(i) \in Backup
  BY <1>t DEF Removed, Backup
<1>1. ASSUME NEW w \in Runners, NEW full \in BOOLEAN, NEW todo \in SUBSET Series, RunBegins(w, full, todo)
      PROVE  BackupTypeOK'
  <2>1. [AtRest EXCEPT !.pc = IF full THEN "first" ELSE "series", !.todo = todo, !.full = full] \in RunnerStates
    <3>1. (IF full THEN "first" ELSE "series") \in {"first", "series"}
      OBVIOUS
    <3> QED BY <1>z, <3>1 DEF AtRest, RunnerStates
  <2> QED BY <1>1, <1>t, <1>g, <2>1, RunnerBecomes DEF RunBegins
<1>2. ASSUME NEW w \in Runners, NEW s \in Series, Insert(w, s) PROVE BackupTypeOK'
  <2>1. [series |-> s, status |-> "running", at |-> now] \in Backup
    BY <1>t DEF Backup
  <2>2. backups' \in Seq(Backup) /\ Len(backups') <= MaxRows
    BY <1>2, <1>t, <2>1 DEF Insert, BackupTypeOK
  <2>3. [workers[w] EXCEPT !.pc = "archive", !.todo = @ \ {s}, !.row = Len(backups) + 1] \in RunnerStates
    <3>1. Len(backups) + 1 \in 0 .. MaxRows
      BY <1>2, <1>t DEF Insert
    <3> QED BY <1>s, <3>1 DEF RunnerStates
  <2>4. workers' \in [Runners -> RunnerStates]
    BY <1>2, <2>3, RunnerBecomes DEF Insert
  <2> QED BY <1>2, <1>t, <2>2, <2>4 DEF Insert, BackupTypeOK, RunnerStates
<1>3. ASSUME NEW w \in Runners, Archive(w) PROVE BackupTypeOK'
  BY <1>3, <1>t, <1>s, <1>g, StepIsARun, RunnerBecomes DEF Archive, StepTo
<1>4. ASSUME NEW w \in Runners, NEW status \in {"ok", "failed", "none"}, Book(w, status) PROVE BackupTypeOK'
  <2>1. [workers[w] EXCEPT !.pc = "series", !.row = 0] \in RunnerStates
    BY <1>z, <1>s DEF RunnerStates
  <2>2. workers' \in [Runners -> RunnerStates]
    BY <1>4, <2>1, AtRestIsARun, RunnerBecomes DEF Book, Rest
  <2>3. backups' \in [KnownRows -> Backup] \/ UNCHANGED backups
    BY <1>4, <1>w DEF Book
  <2> QED BY <1>4, <1>t, <1>g, <2>2, <2>3 DEF Book
<1>5. ASSUME NEW w \in Runners, AnswerLost(w) PROVE BackupTypeOK'
  <2>1. [workers[w] EXCEPT !.pc = "series", !.row = 0] \in RunnerStates
    BY <1>z, <1>s DEF RunnerStates
  <2> QED BY <1>5, <1>t, <1>g, <1>r, <1>w, <2>1, RunnerBecomes DEF AnswerLost
<1>6. ASSUME NEW w \in Runners, SeriesDone(w) PROVE BackupTypeOK'
  <2>1. workers' \in [Runners -> RunnerStates]
    BY <1>6, <1>s, StepIsARun, AtRestIsARun, RunnerBecomes DEF SeriesDone, StepTo, Rest
  <2> QED BY <1>6, <1>t, <1>g, <2>1 DEF SeriesDone
<1>7. ASSUME NEW w \in Runners, StaleRead(w) PROVE BackupTypeOK'
  <2> DEFINE stale == {i \in KnownRows : backups[i].status = "running" /\ backups[i].at + StaleAfter < now}
  <2> DEFINE pc == IF stale # {} THEN "stale"
                   ELSE CASE workers[w].pc = "first" -> "series" [] workers[w].pc = "last" -> "retain"
                          [] OTHER -> "idle"
  <2>1. Becomes(w, [workers[w] EXCEPT !.marked = stale, !.pc = pc])
    BY <1>7 DEF StaleRead
  <2>2. stale \subseteq Rows
    BY <1>t
  <2>3. pc \in {"stale", "series", "retain", "idle"}
    OBVIOUS
  <2>4. [workers[w] EXCEPT !.marked = stale, !.pc = pc] \in RunnerStates
    BY <1>s, <2>2, <2>3 DEF RunnerStates
  <2>5. workers' \in [Runners -> RunnerStates]
    BY <2>1, <2>4, RunnerBecomes
  <2> QED BY <1>7, <1>t, <1>g, <2>5 DEF StaleRead
<1>8. ASSUME NEW w \in Runners, StaleCommit(w) PROVE BackupTypeOK'
  <2> DEFINE pc == IF ~workers[w].full THEN "idle" ELSE IF workers[w].todo = {} THEN "retain" ELSE "series"
  <2>1. [workers[w] EXCEPT !.marked = {}, !.pc = pc] \in RunnerStates
    BY <1>s DEF RunnerStates
  <2>2. workers' \in [Runners -> RunnerStates]
    BY <1>8, <2>1, AtRestIsARun, RunnerBecomes DEF StaleCommit, Rest
  <2>3. \A i \in KnownRows, status \in {"undone", "failed"} : [backups[i] EXCEPT !.status = status] \in Backup
    BY <1>t DEF Backup
  <2>4. backups' \in [KnownRows -> Backup] \/ UNCHANGED backups
    BY <1>8, <1>t, <2>3 DEF StaleCommit
  <2> QED BY <1>8, <1>t, <1>g, <2>2, <2>4 DEF StaleCommit
<1>9. ASSUME NEW w \in Runners, RetainRead(w) PROVE BackupTypeOK'
  <2>1. UNION {Superfluous(OkRows(s)) : s \in Series} \subseteq Rows
    BY <1>t DEF Superfluous, OkRows
  <2>2. [workers[w] EXCEPT !.pc = "remove", !.marked = UNION {Superfluous(OkRows(s)) : s \in Series}] \in RunnerStates
    BY <1>s, <2>1 DEF RunnerStates
  <2> QED BY <1>9, <1>t, <1>g, <2>2, RunnerBecomes DEF RetainRead
<1>10. ASSUME NEW w \in Runners, RetainCommit(w) PROVE BackupTypeOK'
  <2>1. [workers[w] EXCEPT !.pc = "done", !.marked = {}] \in RunnerStates
    BY <1>s DEF RunnerStates
  <2>2. workers' \in [Runners -> RunnerStates]
    BY <1>10, <2>1, RunnerBecomes DEF RetainCommit
  <2>3. \A i \in KnownRows : [backups[i] EXCEPT !.status = "none"] \in Backup
    BY <1>t DEF Backup
  <2>4. backups' \in [KnownRows -> Backup]
    BY <1>10, <1>t, <1>m, <2>3 DEF RetainCommit
  <2> QED BY <1>10, <1>t, <1>g, <2>2, <2>4 DEF RetainCommit
<1>11. ASSUME NEW w \in Runners, Finish(w) PROVE BackupTypeOK'
  BY <1>11, <1>t, <1>g, AtRestIsARun, RunnerBecomes DEF Finish, Rest
<1>12. ASSUME NEW i \in KnownRows, DeleteBackup(i) PROVE BackupTypeOK'
  BY <1>12, <1>t, <1>g, <1>m DEF DeleteBackup
<1>13. CASE ServiceRestarts
  <2>1. workers' \in [Runners -> RunnerStates]
    BY <1>13, AtRestIsARun DEF ServiceRestarts
  <2> QED BY <1>13, <1>t, <1>g, <1>r, <2>1 DEF ServiceRestarts
<1>14. CASE Tick
  BY <1>14, <1>t, <1>g DEF Tick
<1> QED BY <1>1, <1>2, <1>3, <1>4, <1>5, <1>6, <1>7, <1>8, <1>9, <1>10, <1>11, <1>12, <1>13, <1>14
        DEF BackupNext, Run, Retain

\* The good backups of its series that are newer than one.
NewerGood(i) == {j \in KnownRows : j > i /\ backups[j].series = backups[i].series /\ Good(j)}
StillGood(i) == backups[i].status \in {"ok", "undone"}
HoldsRow(w) == workers[w].pc \in {"archive", "book"}

\* A run that waits for the agent has a row of its own, which has never been good.
OwnRow ==
    /\ \A w \in Runners : HoldsRow(w) => workers[w].row \in KnownRows /\ ~Good(workers[w].row)
    /\ \A v, w \in Runners : HoldsRow(v) /\ HoldsRow(w) /\ workers[v].row = workers[w].row => v = w

\* What a retention is about to remove has ended, and while it stands KeepDaily newer ones are good.
EnoughNewer ==
    \A w \in Runners : workers[w].pc = "remove" => \A i \in workers[w].marked :
        /\ i \in KnownRows
        /\ \A v \in Runners : HoldsRow(v) => workers[v].row # i
        /\ StillGood(i) => Cardinality(NewerGood(i)) >= KeepDaily

RetentionInv == OwnRow /\ EnoughNewer

LEMMA RowsAreFinite ==
    ASSUME NEW n \in Nat, NEW S, S \subseteq 1 .. n
    PROVE  IsFiniteSet(S) /\ Cardinality(S) \in Nat /\ \A T \in SUBSET S : Cardinality(T) <= Cardinality(S)
<1>0. IsFiniteSet(1 .. n)
  BY FS_Interval
<1>1. IsFiniteSet(S)
  BY <1>0, FS_Subset
<1> QED BY <1>1, FS_Subset, FS_CardinalityType

\* When nothing that was good stops to be so, and a row that nobody holds does not become good.
LEMMA NothingRetired ==
    ASSUME BackupTypeOK, BackupTypeOK', BackupsAssumption, RetentionInv,
           KnownRows \subseteq KnownRows',
           \A i \in KnownRows : backups'[i].series = backups[i].series /\ (Good(i) => Good(i)'),
           \A i \in KnownRows : StillGood(i)' => StillGood(i) \/ \E w \in Runners : HoldsRow(w) /\ workers[w].row = i,
           \A w \in Runners : workers'[w].pc = "remove" =>
               \/ workers[w].pc = "remove" /\ workers'[w].marked = workers[w].marked
               \/ \A i \in workers'[w].marked : i \in KnownRows /\ Cardinality(NewerGood(i)) >= KeepDaily /\ Good(i),
           \A w \in Runners : HoldsRow(w)' => \/ HoldsRow(w) /\ workers'[w].row = workers[w].row
                                              \/ workers'[w].row \notin KnownRows
    PROVE  EnoughNewer'
<1> SUFFICES ASSUME NEW w \in Runners, workers'[w].pc = "remove", NEW i \in workers'[w].marked
             PROVE  /\ i \in KnownRows'
                    /\ \A v \in Runners : HoldsRow(v)' => workers'[v].row # i
                    /\ StillGood(i)' => Cardinality(NewerGood(i)') >= KeepDaily
  BY DEF EnoughNewer
<1>1. /\ i \in KnownRows /\ \A v \in Runners : HoldsRow(v) => workers[v].row # i
      /\ StillGood(i) => Cardinality(NewerGood(i)) >= KeepDaily
  BY DEF RetentionInv, EnoughNewer, OwnRow
<1>2. \A v \in Runners : HoldsRow(v)' => workers'[v].row # i
  BY <1>1
<1>3. ASSUME StillGood(i)' PROVE Cardinality(NewerGood(i)') >= KeepDaily
  <2>1. StillGood(i)
    BY <1>1, <1>3
  <2>2. NewerGood(i) \subseteq NewerGood(i)' /\ NewerGood(i)' \subseteq KnownRows'
    BY <1>1 DEF NewerGood
  <2>3. Len(backups') \in Nat /\ Len(backups) \in Nat /\ KnownRows = 1 .. Len(backups)
    BY BackupTypes DEF BackupTypeOK, KnownRows
  <2>4. Cardinality(NewerGood(i)') \in Nat /\ Cardinality(NewerGood(i)) <= Cardinality(NewerGood(i)')
    BY <2>2, <2>3, RowsAreFinite DEF KnownRows
  <2>5. Cardinality(NewerGood(i)) \in Nat /\ KeepDaily \in Nat
    BY <2>3, RowsAreFinite DEF NewerGood, BackupsAssumption
  <2> QED BY <1>1, <2>1, <2>3, <2>4, <2>5
<1> QED BY <1>1, <1>2, <1>3

\* When a retention commits, the newest that it removes keeps its newer ones, and what is older has them, too.
LEMMA RetiredHaveNewer ==
    ASSUME BackupTypeOK, BackupsAssumption, RetentionInv, NEW w \in Runners, RetainCommit(w),
           NEW i \in KnownRows, Cardinality(NewerGood(i)) >= KeepDaily
    PROVE  Cardinality({j \in KnownRows : /\ j > i /\ backups[j].series = backups[i].series
                                          /\ Good(j)'}) >= KeepDaily
<1> DEFINE Gone == {m \in workers[w].marked : StillGood(m) /\ m > i /\ backups[m].series = backups[i].series}
           Left == {j \in KnownRows : j > i /\ backups[j].series = backups[i].series /\ Good(j)'}
<1>0. KeepDaily \in Nat /\ Len(backups) \in Nat /\ workers[w].pc = "remove"
  BY BackupTypes DEF BackupsAssumption, RetainCommit
<1>1. \A j \in KnownRows : Good(j) /\ ~(j \in workers[w].marked /\ StillGood(j)) => Good(j)'
  <2> SUFFICES ASSUME NEW j \in KnownRows, Good(j), ~(j \in workers[w].marked /\ StillGood(j))
               PROVE  backups'[j].status \in {"ok", "undone", "gone"}
    BY DEF Good
  <2>1. backups[j] \in Backup
    BY BackupTypes
  <2> QED BY <2>1 DEF RetainCommit, Removed, Good, StillGood, There, Backup
<1>2. Left \subseteq KnownRows /\ Gone \subseteq KnownRows /\ NewerGood(i) \subseteq KnownRows
  BY <1>0 DEF RetentionInv, EnoughNewer, NewerGood
<1>3. Cardinality(Left) \in Nat /\ \A T \in SUBSET Left : Cardinality(T) <= Cardinality(Left)
  BY <1>0, <1>2, RowsAreFinite DEF KnownRows
<1>4. CASE Gone = {}
  <2>1. NewerGood(i) \subseteq Left
    BY <1>1, <1>4 DEF NewerGood
  <2>2. Cardinality(NewerGood(i)) \in Nat
    BY <1>0, <1>2, RowsAreFinite DEF KnownRows
  <2> QED BY <1>0, <1>3, <2>1, <2>2
<1>5. CASE Gone # {}
  <2> DEFINE m == Max(Gone)
  <2>1. Gone \subseteq 0 .. Len(backups)
    BY <1>2 DEF KnownRows
  <2>2. m \in Gone /\ \A y \in Gone : m >= y
    <3> HIDE DEF Gone
    <3> QED BY <1>0, <1>5, <2>1, LargestIsOne
  <2> HIDE DEF m
  <2>4. m \in workers[w].marked /\ StillGood(m) /\ m > i /\ backups[m].series = backups[i].series /\ m \in KnownRows
    BY <1>2, <2>2
  <2>5. Cardinality(NewerGood(m)) >= KeepDaily
    BY <1>0, <2>4 DEF RetentionInv, EnoughNewer
  <2>6. NewerGood(m) \subseteq Left
    <3> SUFFICES ASSUME NEW j \in NewerGood(m) PROVE j \in Left
      OBVIOUS
    <3>1. j \in KnownRows /\ j > m /\ backups[j].series = backups[i].series /\ Good(j)
      BY <2>4 DEF NewerGood
    <3>2. j \in Int /\ m \in Int /\ i \in Int
      BY <2>4, <3>1 DEF KnownRows
    <3>3. j > i
      BY <2>4, <3>1, <3>2
    <3>4. ~(j \in workers[w].marked /\ StillGood(j))
      BY <2>2, <3>1, <3>2, <3>3
    <3> QED BY <1>1, <3>1, <3>3, <3>4
  <2>7. Cardinality(NewerGood(m)) \in Nat
    BY <1>0, RowsAreFinite DEF NewerGood, KnownRows
  <2> QED BY <1>0, <1>3, <2>5, <2>6, <2>7
<1> QED BY <1>4, <1>5

\* What a step makes of the runners: whoever holds a row has held it, or has just added it; and who is
\* about to remove backups has been so, or has just read which.
LEMMA RunnersOfAStep ==
    ASSUME BackupTypeOK, BackupsAssumption, BackupNext
    PROVE  /\ \A w \in Runners : HoldsRow(w)' =>
                  \/ HoldsRow(w) /\ workers'[w].row = workers[w].row
                  \/ /\ \E s \in Series : Insert(w, s)
                     /\ workers'[w].row = Len(backups) + 1
                     /\ \A v \in Runners \ {w} : workers'[v] = workers[v]
           /\ \A w \in Runners : workers'[w].pc = "remove" =>
                  \/ workers[w].pc = "remove" /\ workers'[w].marked = workers[w].marked
                  \/ RetainRead(w)
<1> DEFINE Fine(w) ==
      /\ HoldsRow(w)' => \/ HoldsRow(w) /\ workers'[w].row = workers[w].row
                         \/ /\ \E s \in Series : Insert(w, s)
                            /\ workers'[w].row = Len(backups) + 1
                            /\ \A v \in Runners \ {w} : workers'[v] = workers[v]
      /\ workers'[w].pc = "remove" => \/ workers[w].pc = "remove" /\ workers'[w].marked = workers[w].marked
                                      \/ RetainRead(w)
<1>t. /\ workers \in [Runners -> RunnerStates] /\ \A v \in Runners : workers[v] \in RunnerStates
  BY BackupTypes
<1>i. AtRest.pc = "idle"
  BY DEF AtRest
<1>b. ASSUME NEW v \in Runners, NEW r, Becomes(v, r), Fine(v)
      PROVE  \A w \in Runners : Fine(w)
  BY <1>b, <1>t DEF Becomes, HoldsRow
<1>r. ASSUME NEW v \in Runners, NEW r, Becomes(v, r), r.pc \notin {"archive", "book", "remove"} PROVE Fine(v)
  BY <1>r, <1>t DEF Becomes, HoldsRow
<1>1. ASSUME NEW v \in Runners, NEW full \in BOOLEAN, NEW todo \in SUBSET Series, RunBegins(v, full, todo)
      PROVE  \A w \in Runners : Fine(w)
  <2> DEFINE r == [AtRest EXCEPT !.pc = IF full THEN "first" ELSE "series", !.todo = todo, !.full = full]
  <2>1. Becomes(v, r) /\ r.pc \in {"first", "series"}
    BY <1>1 DEF RunBegins, AtRest
  <2> HIDE DEF r, Fine
  <2> QED BY <2>1, <1>b, <1>r
<1>2. ASSUME NEW v \in Runners, NEW s \in Series, Insert(v, s)
      PROVE  \A w \in Runners : Fine(w)
  <2> DEFINE r == [workers[v] EXCEPT !.pc = "archive", !.todo = @ \ {s}, !.row = Len(backups) + 1]
  <2>1. Becomes(v, r) /\ r.pc = "archive" /\ r.row = Len(backups) + 1
    BY <1>2, <1>t DEF Insert, RunnerStates
  <2>2. workers'[v] = r /\ \A o \in Runners \ {v} : workers'[o] = workers[o]
    BY <2>1, <1>t DEF Becomes
  <2>3. Fine(v)
    BY <1>2, <2>1, <2>2
  <2> HIDE DEF r, Fine
  <2> QED BY <2>1, <2>3, <1>b
<1>3. ASSUME NEW v \in Runners, Archive(v) PROVE \A w \in Runners : Fine(w)
  <2> DEFINE r == [workers[v] EXCEPT !.pc = "book"]
  <2>1. Becomes(v, r) /\ r.pc = "book" /\ r.row = workers[v].row /\ workers[v].pc = "archive"
    BY <1>3, <1>t DEF Archive, StepTo, RunnerStates
  <2>2. workers'[v] = r
    BY <2>1, <1>t DEF Becomes
  <2>3. Fine(v)
    BY <2>1, <2>2 DEF HoldsRow
  <2> HIDE DEF r, Fine
  <2> QED BY <2>1, <2>3, <1>b
<1>4. ASSUME NEW v \in Runners, NEW status \in {"ok", "failed", "none"}, Book(v, status)
      PROVE  \A w \in Runners : Fine(w)
  <2> DEFINE r == [workers[v] EXCEPT !.pc = "series", !.row = 0]
  <2>1. r.pc = "series"
    BY <1>t DEF RunnerStates
  <2>2. Becomes(v, r) \/ Becomes(v, AtRest)
    BY <1>4 DEF Book, Rest
  <2> HIDE DEF r, Fine
  <2> QED BY <2>1, <2>2, <1>b, <1>r, <1>i
<1>5. ASSUME NEW v \in Runners, AnswerLost(v) PROVE \A w \in Runners : Fine(w)
  <2> DEFINE r == [workers[v] EXCEPT !.pc = "series", !.row = 0]
  <2>1. Becomes(v, r) /\ r.pc = "series"
    BY <1>5, <1>t DEF AnswerLost, RunnerStates
  <2> HIDE DEF r, Fine
  <2> QED BY <2>1, <1>b, <1>r
<1>6. ASSUME NEW v \in Runners, SeriesDone(v) PROVE \A w \in Runners : Fine(w)
  <2> DEFINE r == [workers[v] EXCEPT !.pc = "last"]
  <2>1. r.pc = "last"
    BY <1>t DEF RunnerStates
  <2>2. Becomes(v, r) \/ Becomes(v, AtRest)
    BY <1>6 DEF SeriesDone, Rest, StepTo
  <2> HIDE DEF r, Fine
  <2> QED BY <2>1, <2>2, <1>b, <1>r, <1>i
<1>7. ASSUME NEW v \in Runners, Finish(v) PROVE \A w \in Runners : Fine(w)
  <2>1. Becomes(v, AtRest)
    BY <1>7 DEF Finish, Rest
  <2> HIDE DEF Fine
  <2> QED BY <2>1, <1>b, <1>r, <1>i
<1>8. ASSUME NEW v \in Runners, StaleRead(v) PROVE \A w \in Runners : Fine(w)
  <2> DEFINE stale == {i \in KnownRows : backups[i].status = "running" /\ backups[i].at + StaleAfter < now}
  <2> DEFINE pc == IF stale # {} THEN "stale"
                   ELSE CASE workers[v].pc = "first" -> "series" [] workers[v].pc = "last" -> "retain"
                          [] OTHER -> "idle"
  <2> DEFINE r == [workers[v] EXCEPT !.marked = stale, !.pc = pc]
  <2>1. Becomes(v, r)
    BY <1>8 DEF StaleRead
  <2>2. r.pc = pc
    BY <1>t DEF RunnerStates
  <2>3. pc \in {"stale", "series", "retain", "idle"}
    OBVIOUS
  <2> HIDE DEF r, pc, Fine
  <2> QED BY <2>1, <2>2, <2>3, <1>b, <1>r
<1>9. ASSUME NEW v \in Runners, StaleCommit(v) PROVE \A w \in Runners : Fine(w)
  <2> DEFINE pc == IF ~workers[v].full THEN "idle" ELSE IF workers[v].todo = {} THEN "retain" ELSE "series"
  <2> DEFINE r == [workers[v] EXCEPT !.marked = {}, !.pc = pc]
  <2>1. r.pc = pc /\ pc \in {"idle", "retain", "series"}
    BY <1>t DEF RunnerStates
  <2>2. Becomes(v, r) \/ Becomes(v, AtRest)
    BY <1>9 DEF StaleCommit, Rest
  <2> HIDE DEF r, pc, Fine
  <2> QED BY <2>1, <2>2, <1>b, <1>r, <1>i
<1>10. ASSUME NEW v \in Runners, RetainRead(v) PROVE \A w \in Runners : Fine(w)
  <2> DEFINE r == [workers[v] EXCEPT !.pc = "remove", !.marked = UNION {Superfluous(OkRows(s)) : s \in Series}]
  <2>1. Becomes(v, r) /\ r.pc = "remove"
    BY <1>10, <1>t DEF RetainRead, RunnerStates
  <2>2. workers'[v] = r
    BY <2>1, <1>t DEF Becomes
  <2>3. Fine(v)
    BY <1>10, <2>1, <2>2 DEF HoldsRow
  <2> HIDE DEF r, Fine
  <2> QED BY <2>1, <2>3, <1>b
<1>11. ASSUME NEW v \in Runners, RetainCommit(v) PROVE \A w \in Runners : Fine(w)
  <2> DEFINE r == [workers[v] EXCEPT !.pc = "done", !.marked = {}]
  <2>1. Becomes(v, r) /\ r.pc = "done"
    BY <1>11, <1>t DEF RetainCommit, RunnerStates
  <2> HIDE DEF r, Fine
  <2> QED BY <2>1, <1>b, <1>r
<1>12. ASSUME UNCHANGED workers PROVE \A w \in Runners : Fine(w)
  BY <1>12 DEF HoldsRow
<1>13. ASSUME ServiceRestarts PROVE \A w \in Runners : Fine(w)
  BY <1>13, <1>i DEF ServiceRestarts, HoldsRow
<1>14. \A w \in Runners : Fine(w)
  <2>1. CASE (\E i \in KnownRows : DeleteBackup(i)) \/ Tick
    BY <2>1, <1>12 DEF DeleteBackup, Tick
  <2> HIDE DEF Fine
  <2> QED BY <1>1, <1>2, <1>3, <1>4, <1>5, <1>6, <1>7, <1>8, <1>9, <1>10, <1>11, <1>13, <2>1
          DEF BackupNext, Run, Retain
<1> QED BY <1>14

\* What a step makes of the rows that are there: a backup becomes good only when the run that holds
\* its row books it, and stops to count as good only when a retention removes it.
LEMMA RowsOfAStep ==
    ASSUME BackupTypeOK, BackupsAssumption, OwnRow, BackupNext
    PROVE  /\ KnownRows \subseteq KnownRows'
           /\ \A i \in KnownRows :
                 /\ backups'[i].series = backups[i].series /\ backups'[i].at = backups[i].at
                 /\ Good(i)' => Good(i) \/ \E w \in Runners : HoldsRow(w) /\ ~HoldsRow(w)' /\ workers[w].row = i
                 /\ StillGood(i)' => StillGood(i) \/ ~Good(i)
                 /\ Good(i) => \/ Good(i)'
                               \/ \E w \in Runners : RetainCommit(w) /\ i \in workers[w].marked /\ StillGood(i)
                 /\ backups[i].status = "ok" /\ backups'[i].status = "none" => ~Good(i)'
           /\ \A i \in KnownRows' \ KnownRows : ~Good(i)' /\ \E w \in Runners, s \in Series : Insert(w, s)
           /\ (\E w \in Runners, s \in Series : Insert(w, s)) => Len(backups) + 1 \in KnownRows' \ KnownRows
<1> DEFINE Kept(i) ==
      /\ backups'[i].series = backups[i].series /\ backups'[i].at = backups[i].at
      /\ Good(i)' => Good(i) \/ \E w \in Runners : HoldsRow(w) /\ ~HoldsRow(w)' /\ workers[w].row = i
      /\ StillGood(i)' => StillGood(i) \/ ~Good(i)
      /\ Good(i) => \/ Good(i)'
                    \/ \E w \in Runners : RetainCommit(w) /\ i \in workers[w].marked /\ StillGood(i)
<1> DEFINE Same == KnownRows' = KnownRows /\ \A i \in KnownRows : Kept(i)
<1> DEFINE Adds == \E w \in Runners, s \in Series : Insert(w, s)
<1>t. /\ Len(backups) \in Nat /\ backups \in [KnownRows -> Backup]
      /\ workers \in [Runners -> RunnerStates] /\ \A v \in Runners : workers[v] \in RunnerStates
      /\ \A i \in KnownRows : backups[i] \in Backup
  BY BackupTypes
<1>k. ASSUME NEW t, backups' = t, t \in [KnownRows -> Backup] PROVE KnownRows' = KnownRows
  BY <1>k, TablesType DEF KnownRows
<1>u. ASSUME UNCHANGED backups PROVE Same
  BY <1>u DEF KnownRows, Good, StillGood
<1>x. \A i \in KnownRows, status \in {"running", "ok", "failed", "undone", "none", "gone"} :
          /\ [backups[i] EXCEPT !.status = status] \in Backup
          /\ [backups[i] EXCEPT !.status = status].status = status
          /\ [backups[i] EXCEPT !.status = status].series = backups[i].series
          /\ [backups[i] EXCEPT !.status = status].at = backups[i].at
  BY <1>t DEF Backup
<1>h. ASSUME NEW w \in Runners, NEW r, Becomes(w, r), r.pc \notin {"archive", "book"} PROVE ~HoldsRow(w)'
  BY <1>h, <1>t DEF Becomes, HoldsRow
<1>b. ASSUME NEW w \in Runners, NEW status \in {"ok", "failed", "none"}, HoldsRow(w), ~HoldsRow(w)',
             backups' = With({workers[w].row}, status)
      PROVE  Same
  <2>1. With({workers[w].row}, status) \in [KnownRows -> Backup]
    BY <1>t, <1>x DEF With
  <2>2. KnownRows' = KnownRows
    BY <1>b, <1>k, <2>1
  <2>3. \A i \in KnownRows : backups'[i] = IF i = workers[w].row THEN [backups[i] EXCEPT !.status = status]
                                          ELSE backups[i]
    BY <1>b DEF With
  <2>4. ~Good(workers[w].row)
    BY <1>b DEF OwnRow
  <2>5. ASSUME NEW i \in KnownRows PROVE Kept(i)
    <3>1. CASE i = workers[w].row
      <4>1. ~Good(i)
        BY <2>4, <3>1
      <4>3. backups'[i].series = backups[i].series /\ backups'[i].at = backups[i].at
        <5>1. backups'[i] = [backups[i] EXCEPT !.status = status]
          BY <2>3, <3>1
        <5>2. backups[i] \in Backup
          BY <1>t
        <5> QED BY <5>1, <5>2 DEF Backup
      <4>2. HoldsRow(w) /\ ~HoldsRow(w)' /\ workers[w].row = i
        BY <1>b, <3>1
      <4> QED BY <4>1, <4>2, <4>3
    <3>2. CASE i # workers[w].row
      BY <2>3, <3>2 DEF Good, StillGood
    <3> QED BY <3>1, <3>2
  <2> QED BY <2>2, <2>5
<1> HIDE DEF Same
<1>1. ASSUME NEW w \in Runners, NEW s \in Series, Insert(w, s)
      PROVE  /\ KnownRows \subseteq KnownRows' /\ \A i \in KnownRows : Kept(i)
             /\ \A i \in KnownRows' \ KnownRows : ~Good(i)'
             /\ Len(backups) + 1 \in KnownRows' \ KnownRows
  <2> DEFINE new == [series |-> s, status |-> "running", at |-> now]
  <2>1. backups' = Append(backups, new)
    BY <1>1 DEF Insert
  <2>2. backups \in Seq(Backup)
    BY DEF BackupTypeOK
  <2>3. new \in Backup
    BY BackupTypes DEF Backup
  <2>4. Len(backups') = Len(backups) + 1 /\ backups'[Len(backups) + 1] = new
        /\ \A i \in 1 .. Len(backups) : backups'[i] = backups[i]
    BY <2>1, <2>2, <2>3
  <2>5. KnownRows' = 1 .. Len(backups) + 1
    BY <2>4 DEF KnownRows
  <2>6. \A i \in KnownRows : Kept(i)
    BY <2>4 DEF KnownRows, Good, StillGood
  <2>7. \A i \in KnownRows' \ KnownRows : i = Len(backups) + 1
    BY <1>t, <2>5 DEF KnownRows
  <2>8. \A i \in KnownRows' \ KnownRows : ~Good(i)'
    BY <2>4, <2>7 DEF Good
  <2> QED BY <1>t, <2>5, <2>6, <2>8 DEF KnownRows
<1>2. ASSUME NEW w \in Runners, NEW status \in {"ok", "failed", "none"}, Book(w, status) PROVE Same
  <2>1. CASE There(workers[w].row) \/ status = "none"
    <3>1. backups' = With({workers[w].row}, status) /\ HoldsRow(w)
      BY <1>2, <2>1 DEF Book, HoldsRow
    <3>2. Becomes(w, [workers[w] EXCEPT !.pc = "series", !.row = 0])
      BY <1>2, <2>1 DEF Book
    <3>3. [workers[w] EXCEPT !.pc = "series", !.row = 0].pc = "series"
      BY <1>t DEF RunnerStates
    <3> QED BY <1>b, <1>h, <3>1, <3>2, <3>3
  <2>2. CASE ~(There(workers[w].row) \/ status = "none")
    BY <1>2, <1>u, <2>2 DEF Book
  <2> QED BY <2>1, <2>2
<1>3. ASSUME NEW w \in Runners, AnswerLost(w) PROVE Same
  <2>1. backups' = With({workers[w].row}, "failed") /\ HoldsRow(w)
        /\ Becomes(w, [workers[w] EXCEPT !.pc = "series", !.row = 0])
    BY <1>3 DEF AnswerLost, HoldsRow
  <2>2. [workers[w] EXCEPT !.pc = "series", !.row = 0].pc = "series"
    BY <1>t DEF RunnerStates
  <2> QED BY <1>b, <1>h, <2>1, <2>2
<1>4. ASSUME NEW w \in Runners, StaleCommit(w) PROVE Same
  <2>1. CASE \A i \in workers[w].marked : There(i)
    <3>1. backups' = [i \in KnownRows |-> IF i \notin workers[w].marked THEN backups[i] ELSE
                         [backups[i] EXCEPT !.status = IF Good(i) THEN "undone" ELSE "failed"]]
      BY <1>4, <2>1 DEF StaleCommit
    <3>2. backups' \in [KnownRows -> Backup]
      <4>1. \A i \in KnownRows : [backups[i] EXCEPT !.status = IF Good(i) THEN "undone" ELSE "failed"] \in Backup
        BY <1>x
      <4> QED BY <1>t, <3>1, <4>1
    <3>3. KnownRows' = KnownRows
      BY <1>k, <3>2
    <3>4. ASSUME NEW i \in KnownRows PROVE Kept(i)
      <4>1. CASE i \notin workers[w].marked
        BY <3>1, <4>1 DEF Good, StillGood
      <4>2. CASE i \in workers[w].marked /\ Good(i)
        <5>1. backups'[i] = [backups[i] EXCEPT !.status = "undone"] /\ StillGood(i)
          BY <2>1, <3>1, <4>2 DEF Good, There, StillGood
        <5> QED BY <1>x, <4>2, <5>1 DEF Good, StillGood
      <4>3. CASE i \in workers[w].marked /\ ~Good(i)
        <5>1. backups'[i] = [backups[i] EXCEPT !.status = "failed"]
          BY <3>1, <4>3
        <5> QED BY <1>x, <4>3, <5>1 DEF Good, StillGood
      <4> QED BY <4>1, <4>2, <4>3
    <3> QED BY <3>3, <3>4 DEF Same
  <2>2. CASE ~\A i \in workers[w].marked : There(i)
    BY <1>4, <1>u, <2>2 DEF StaleCommit
  <2> QED BY <2>1, <2>2
<1>5. ASSUME NEW w \in Runners, RetainCommit(w) PROVE Same
  <2> DEFINE failed == {i \in KnownRows : backups[i].status \in {"failed", "undone"} /\ backups[i].at + FailedFor < now}
  <2>1. backups' = [i \in KnownRows |->
           IF There(i) /\ i \in workers[w].marked THEN [backups[i] EXCEPT !.status = "none"]
           ELSE IF i \in failed THEN Removed(i) ELSE backups[i]]
    BY <1>5 DEF RetainCommit
  <2>2. \A i \in KnownRows : Removed(i) \in Backup
    BY <1>x DEF Removed
  <2>3. backups' \in [KnownRows -> Backup]
    BY <1>t, <1>x, <2>1, <2>2
  <2>4. KnownRows' = KnownRows
    BY <1>k, <2>3
  <2> HIDE DEF failed
  <2>5. ASSUME NEW i \in KnownRows PROVE Kept(i)
    <3>1. CASE There(i) /\ i \in workers[w].marked
      <4>1. backups'[i] = [backups[i] EXCEPT !.status = "none"]
        BY <2>1, <3>1
      <4>2. Good(i) => StillGood(i)
        BY <3>1 DEF Good, There, StillGood
      <4> QED BY <1>5, <1>x, <3>1, <4>1, <4>2 DEF Good, StillGood
    <3>2. CASE ~(There(i) /\ i \in workers[w].marked)
      <4>1. backups'[i] = Removed(i) \/ backups'[i] = backups[i]
        BY <2>1, <3>2
      <4>2. CASE backups'[i] = backups[i]
        BY <4>2 DEF Good, StillGood
      <4>3. CASE backups'[i] = Removed(i) /\ Good(i)
        <5>1. backups'[i] = [backups[i] EXCEPT !.status = "gone"]
          BY <4>3 DEF Removed
        <5> QED BY <1>x, <4>3, <5>1 DEF Good, StillGood
      <4>4. CASE backups'[i] = Removed(i) /\ ~Good(i)
        <5>1. backups'[i] = [backups[i] EXCEPT !.status = "none"]
          BY <4>4 DEF Removed
        <5> QED BY <1>x, <4>4, <5>1 DEF Good, StillGood
      <4> QED BY <4>1, <4>2, <4>3, <4>4
    <3> QED BY <3>1, <3>2
  <2> QED BY <2>4, <2>5 DEF Same
<1>6. ASSUME NEW j \in KnownRows, DeleteBackup(j) PROVE Same
  <2>1. backups' = [backups EXCEPT ![j] = Removed(j)]
    BY <1>6 DEF DeleteBackup
  <2>2. backups' \in [KnownRows -> Backup]
    BY <1>t, <1>x, <2>1 DEF Removed
  <2>3. KnownRows' = KnownRows
    BY <1>k, <2>2
  <2>4. ASSUME NEW i \in KnownRows PROVE Kept(i)
    BY <1>t, <1>x, <2>1 DEF Removed, Good, StillGood
  <2> QED BY <2>3, <2>4 DEF Same
<1>7. Same \/ \E w \in Runners, s \in Series : Insert(w, s)
  <2>1. CASE \E w \in Runners : \/ \E full \in BOOLEAN, todo \in SUBSET Series : RunBegins(w, full, todo)
                                \/ Archive(w) \/ SeriesDone(w) \/ Finish(w) \/ StaleRead(w) \/ RetainRead(w)
    BY <2>1, <1>u DEF RunBegins, Archive, SeriesDone, Finish, StaleRead, RetainRead
  <2>2. CASE ServiceRestarts \/ Tick
    BY <2>2, <1>u DEF ServiceRestarts, Tick
  <2> QED BY <1>2, <1>3, <1>4, <1>5, <1>6, <2>1, <2>2 DEF BackupNext, Run, Retain
<1>8. ASSUME NEW i \in KnownRows, backups[i].status = "ok", backups'[i].status = "none" PROVE ~Good(i)'
  BY <1>8 DEF Good
<1>9. Adds => /\ KnownRows \subseteq KnownRows' /\ \A i \in KnownRows : Kept(i)
              /\ \A i \in KnownRows' \ KnownRows : ~Good(i)'
              /\ Len(backups) + 1 \in KnownRows' \ KnownRows
  <2> HIDE DEF Kept
  <2> QED BY <1>1
<1>10. CASE Adds
  BY <1>8, <1>9, <1>10
<1>11. CASE ~Adds
  <2>1. Same
    BY <1>7, <1>11
  <2>2. KnownRows' = KnownRows /\ \A i \in KnownRows : Kept(i)
    BY <2>1 DEF Same
  <2> HIDE DEF Adds
  <2> QED BY <1>8, <1>11, <2>2 DEF Adds
<1> QED BY <1>10, <1>11

LEMMA OwnRowStays ==
    ASSUME BackupTypeOK, BackupsAssumption, OwnRow, BackupNext
    PROVE  OwnRow'
<1>r. /\ KnownRows \subseteq KnownRows'
      /\ \A i \in KnownRows : Good(i)' => \/ Good(i)
                                          \/ \E w \in Runners : HoldsRow(w) /\ ~HoldsRow(w)' /\ workers[w].row = i
      /\ \A i \in KnownRows' \ KnownRows : ~Good(i)'
      /\ (\E w \in Runners, s \in Series : Insert(w, s)) => Len(backups) + 1 \in KnownRows' \ KnownRows
  BY RowsOfAStep
<1>w. \A w \in Runners : HoldsRow(w)' =>
          \/ HoldsRow(w) /\ workers'[w].row = workers[w].row
          \/ /\ \E s \in Series : Insert(w, s)
             /\ workers'[w].row = Len(backups) + 1
             /\ \A v \in Runners \ {w} : workers'[v] = workers[v]
  BY RunnersOfAStep
<1>1. ASSUME NEW w \in Runners, HoldsRow(w)', NEW i, i = workers'[w].row PROVE i \in KnownRows' /\ ~Good(i)'
  <2>1. CASE HoldsRow(w) /\ workers'[w].row = workers[w].row
    <3>1. i \in KnownRows /\ ~Good(i)
      BY <1>1, <2>1 DEF OwnRow
    <3>2. ASSUME NEW v \in Runners, HoldsRow(v), ~HoldsRow(v)', workers[v].row = i PROVE FALSE
      <4>1. v = w
        BY <1>1, <2>1, <3>2 DEF OwnRow
      <4> QED BY <1>1, <3>2, <4>1
    <3> QED BY <1>r, <3>1, <3>2
  <2>2. CASE ~(HoldsRow(w) /\ workers'[w].row = workers[w].row)
    <3>1. i \in KnownRows' \ KnownRows
      BY <1>r, <1>w, <1>1, <2>2
    <3> QED BY <1>r, <3>1
  <2> QED BY <2>1, <2>2
<1>2. ASSUME NEW v \in Runners, NEW w \in Runners, HoldsRow(v)', HoldsRow(w)', workers'[v].row = workers'[w].row, v # w
      PROVE  FALSE
  <2>1. CASE HoldsRow(v) /\ workers'[v].row = workers[v].row /\ HoldsRow(w) /\ workers'[w].row = workers[w].row
    BY <1>2, <2>1 DEF OwnRow
  <2>2. ASSUME NEW a \in Runners, NEW b \in Runners, a # b, HoldsRow(b)', workers'[a].row = workers'[b].row,
               \E s \in Series : Insert(a, s), workers'[a].row = Len(backups) + 1,
               \A u \in Runners \ {a} : workers'[u] = workers[u]
        PROVE  FALSE
    <3>1. HoldsRow(b) /\ workers[b].row = Len(backups) + 1
      BY <2>2 DEF HoldsRow
    <3>2. Len(backups) + 1 \in KnownRows' \ KnownRows
      BY <1>r, <2>2
    <3> QED BY <3>1, <3>2 DEF OwnRow
  <2> QED BY <1>2, <1>w, <2>1, <2>2
<1> QED BY <1>1, <1>2 DEF OwnRow, Good

\* The rows that a retention marks are good, and so many newer ones are, too.
LEMMA MarkedHaveNewer ==
    ASSUME BackupTypeOK, BackupsAssumption, NEW w \in Runners, RetainRead(w), NEW i \in workers'[w].marked
    PROVE  i \in KnownRows /\ Good(i) /\ Cardinality(NewerGood(i)) >= KeepDaily
<1>1. workers'[w].marked = UNION {Superfluous(OkRows(s)) : s \in Series}
  <2>1. workers[w] \in RunnerStates
    BY BackupTypes
  <2> QED BY <2>1, BackupTypes DEF RetainRead, Becomes, RunnerStates
<1>2. PICK s \in Series : i \in Superfluous(OkRows(s))
  BY <1>1
<1>3. i \in OkRows(s) /\ ~(Cardinality(Newer(i, OkRows(s))) < KeepDaily)
  BY <1>2 DEF Superfluous, Daily
<1>4. i \in KnownRows /\ backups[i].series = s /\ Good(i)
  BY <1>3 DEF OkRows, Good
<1>5. Newer(i, OkRows(s)) \subseteq NewerGood(i) /\ NewerGood(i) \subseteq KnownRows
  BY <1>4 DEF Newer, OkRows, NewerGood, Good
<1>6. /\ Cardinality(NewerGood(i)) \in Nat /\ Cardinality(Newer(i, OkRows(s))) \in Nat
      /\ Cardinality(Newer(i, OkRows(s))) <= Cardinality(NewerGood(i)) /\ KeepDaily \in Nat
  <2>1. Len(backups) \in Nat
    BY BackupTypes
  <2> QED BY <1>5, <2>1, RowsAreFinite DEF KnownRows, BackupsAssumption
<1> QED BY <1>3, <1>4, <1>6

LEMMA EnoughStay ==
    ASSUME BackupTypeOK, BackupTypeOK', BackupsAssumption, RetentionInv, BackupNext
    PROVE  EnoughNewer'
<1>r. /\ KnownRows \subseteq KnownRows'
      /\ \A i \in KnownRows :
            /\ backups'[i].series = backups[i].series
            /\ Good(i)' => Good(i) \/ \E w \in Runners : HoldsRow(w) /\ ~HoldsRow(w)' /\ workers[w].row = i
            /\ StillGood(i)' => StillGood(i) \/ ~Good(i)
            /\ Good(i) => \/ Good(i)'
                          \/ \E w \in Runners : RetainCommit(w) /\ i \in workers[w].marked /\ StillGood(i)
      /\ \A i \in KnownRows' \ KnownRows : \E w \in Runners, s \in Series : Insert(w, s)
      /\ (\E w \in Runners, s \in Series : Insert(w, s)) => Len(backups) + 1 \in KnownRows' \ KnownRows
  BY RowsOfAStep DEF RetentionInv
<1>w. /\ \A w \in Runners : HoldsRow(w)' => \/ HoldsRow(w) /\ workers'[w].row = workers[w].row
                                            \/ workers'[w].row \notin KnownRows
      /\ \A w \in Runners : workers'[w].pc = "remove" =>
            \/ workers[w].pc = "remove" /\ workers'[w].marked = workers[w].marked
            \/ \A i \in workers'[w].marked : i \in KnownRows /\ Cardinality(NewerGood(i)) >= KeepDaily /\ Good(i)
  <2>1. \A w \in Runners : HoldsRow(w)' => \/ HoldsRow(w) /\ workers'[w].row = workers[w].row
                                           \/ workers'[w].row \notin KnownRows
    BY <1>r, RunnersOfAStep
  <2> QED BY <2>1, RunnersOfAStep, MarkedHaveNewer
<1>s. \A i \in KnownRows : StillGood(i)' => StillGood(i) \/ \E w \in Runners : HoldsRow(w) /\ workers[w].row = i
  BY <1>r DEF Good, StillGood
<1>1. CASE \A w \in Runners : ~RetainCommit(w)
  <2>1. \A i \in KnownRows : backups'[i].series = backups[i].series /\ (Good(i) => Good(i)')
    BY <1>r, <1>1
  <2> QED BY <1>r, <1>w, <1>s, <2>1, NothingRetired
<1>2. ASSUME NEW c \in Runners, RetainCommit(c) PROVE EnoughNewer'
  <2>1. \A w \in Runners : workers'[w].pc = "remove" =>
            workers[w].pc = "remove" /\ workers'[w].marked = workers[w].marked
    BY <1>2, BackupTypes DEF RetainCommit, Becomes, RunnerStates
  <2>2. KnownRows' = KnownRows
    <3>1. ~\E w \in Runners, s \in Series : Insert(w, s)
      <4>1. ASSUME NEW w \in Runners, NEW s \in Series, Insert(w, s) PROVE FALSE
        <5>1. Len(backups') = Len(backups)
          <6>1. backups' \in [KnownRows -> Backup] => Len(backups') = Len(backups)
            BY TablesType
          <6>2. DOMAIN backups' = KnownRows
            BY <1>2 DEF RetainCommit
          <6> QED BY <6>2, BackupTypes DEF BackupTypeOK, KnownRows
        <5>2. Len(backups) + 1 \in KnownRows'
          BY <1>r, <4>1
        <5> QED BY <5>1, <5>2, BackupTypes DEF KnownRows
      <4> QED BY <4>1
    <3> QED BY <1>r, <3>1
  <2>3. SUFFICES ASSUME NEW w \in Runners, workers'[w].pc = "remove", NEW i \in workers'[w].marked
                 PROVE  /\ i \in KnownRows'
                        /\ \A v \in Runners : HoldsRow(v)' => workers'[v].row # i
                        /\ StillGood(i)' => Cardinality(NewerGood(i)') >= KeepDaily
    BY DEF EnoughNewer
  <2>4. /\ i \in KnownRows /\ \A v \in Runners : HoldsRow(v) => workers[v].row # i
        /\ StillGood(i) => Cardinality(NewerGood(i)) >= KeepDaily
    BY <2>1, <2>3 DEF RetentionInv, EnoughNewer
  <2>5. \A v \in Runners : HoldsRow(v)' => workers'[v].row # i
    BY <1>w, <2>4
  <2>6. ASSUME StillGood(i)' PROVE Cardinality(NewerGood(i)') >= KeepDaily
    <3>1. StillGood(i)
      BY <1>s, <2>4, <2>6
    <3>2. NewerGood(i)' = {j \in KnownRows : /\ j > i /\ backups[j].series = backups[i].series
                                             /\ Good(j)'}
      BY <1>r, <2>2, <2>4 DEF NewerGood
    <3> QED BY <1>2, <2>4, <3>1, <3>2, RetiredHaveNewer
  <2> QED BY <2>2, <2>4, <2>5, <2>6
<1> QED BY <1>1, <1>2

LEMMA EachRetiresForDays ==
    ASSUME BackupTypeOK, BackupsAssumption, RetentionInv, BackupNext
    PROVE  RetiresForDays
<1> SUFFICES ASSUME NEW s \in Series, NEW i \in Retired(s)
             PROVE  Cardinality({j \in Counted(s) : j > i}) >= KeepDaily
  BY DEF RetiresForDays
<1>1. i \in KnownRows /\ backups[i].series = s /\ backups[i].status = "ok" /\ backups'[i].status = "none"
  BY DEF Retired
<1>2. Good(i) /\ ~Good(i)' /\ StillGood(i)
  BY <1>1 DEF Good, StillGood
<1>3. PICK w \in Runners : RetainCommit(w) /\ i \in workers[w].marked
  BY <1>1, <1>2, RowsOfAStep DEF RetentionInv
<1>4. Cardinality(NewerGood(i)) >= KeepDaily
  BY <1>2, <1>3 DEF RetentionInv, EnoughNewer, RetainCommit
<1>5. {j \in Counted(s) : j > i} = {j \in KnownRows : /\ j > i /\ backups[j].series = backups[i].series
                                                     /\ Good(j)'}
  BY <1>1 DEF Counted
<1> QED BY <1>1, <1>2, <1>3, <1>4, <1>5, RetiredHaveNewer

\* The good backups of its series for which there are KeepDaily newer ones, those of them that are newer
\* than one, and its week, which has a newer one or lies before KeepWeekly others.
Older(i) == {j \in KnownRows : /\ backups[j].series = backups[i].series /\ Good(j)
                               /\ Cardinality(NewerGood(j)) >= KeepDaily}
LaterOf(i) == {j \in Older(i) : j > i}
Weeks(is) == {WeekOf(j) : j \in is}
WeekIsKept(i) == \/ \E j \in LaterOf(i) : WeekOf(j) = WeekOf(i)
                 \/ Cardinality(Weeks(LaterOf(i))) >= KeepWeekly

\* What a retention is about to remove leaves its week a backup, or lies before enough weeks.
EnoughWeeks ==
    \A w \in Runners : workers[w].pc = "remove" => \A i \in workers[w].marked : StillGood(i) => WeekIsKept(i)

LEMMA ImagesAreFinite ==
    ASSUME NEW n \in Nat, NEW S, S \subseteq 1 .. n, NEW T, NEW f \in Surjection(S, T)
    PROVE  Cardinality(T) \in Nat /\ \A U \in SUBSET T : Cardinality(U) \in Nat /\ Cardinality(U) <= Cardinality(T)
<1>1. IsFiniteSet(S)
  BY RowsAreFinite
<1>2. IsFiniteSet(T)
  BY <1>1, FS_Surjection
<1> QED BY <1>2, FS_Subset, FS_CardinalityType

LEMMA WeeksAreFinite ==
    ASSUME BackupTypeOK, BackupsAssumption, NEW S, S \subseteq KnownRows
    PROVE  /\ Cardinality(Weeks(S)) \in Nat
           /\ \A T \in SUBSET Weeks(S) : Cardinality(T) \in Nat /\ Cardinality(T) <= Cardinality(Weeks(S))
<1> DEFINE f == [j \in S |-> WeekOf(j)]
<1>1. f \in Surjection(S, Weeks(S))
  BY DEF Surjection, Weeks
<1>2. Len(backups) \in Nat /\ S \subseteq 1 .. Len(backups)
  BY BackupTypes DEF KnownRows
<1> HIDE DEF f
<1> QED BY <1>1, <1>2, ImagesAreFinite

\* A table in which the good ones stay good keeps the weeks, too.
LEMMA WeeksGrow ==
    ASSUME BackupTypeOK, BackupTypeOK', BackupsAssumption, KnownRows \subseteq KnownRows',
           \A j \in KnownRows : /\ backups'[j].series = backups[j].series /\ backups'[j].at = backups[j].at
                                /\ (Good(j) => Good(j)'),
           NEW i \in KnownRows, WeekIsKept(i)
    PROVE  WeekIsKept(i)'
<1>0. Len(backups) \in Nat /\ Len(backups') \in Nat /\ KeepDaily \in Nat /\ KeepWeekly \in Nat
  <2>1. KeepDaily \in Nat /\ KeepWeekly \in Nat
    BY DEF BackupsAssumption
  <2>2. Len(backups) \in Nat
    BY BackupTypes
  <2>3. Len(backups') \in Nat
    BY DEF BackupTypeOK
  <2> QED BY <2>1, <2>2, <2>3
<1>1. ASSUME NEW j \in KnownRows, Cardinality(NewerGood(j)) >= KeepDaily
      PROVE  Cardinality(NewerGood(j)') >= KeepDaily
  <2>1. NewerGood(j) \subseteq NewerGood(j)' /\ NewerGood(j)' \subseteq KnownRows' /\ NewerGood(j) \subseteq KnownRows
    BY <1>1 DEF NewerGood
  <2>2. Cardinality(NewerGood(j)') \in Nat /\ Cardinality(NewerGood(j)) <= Cardinality(NewerGood(j)')
        /\ Cardinality(NewerGood(j)) \in Nat
    BY <1>0, <2>1, RowsAreFinite DEF KnownRows
  <2> QED BY <1>0, <1>1, <2>2
<1>2. LaterOf(i) \subseteq LaterOf(i)'
  BY <1>1 DEF LaterOf, Older
<1>3. \A j \in KnownRows : WeekOf(j)' = WeekOf(j)
  BY DEF WeekOf, DayOf
<1>4. LaterOf(i) \subseteq KnownRows /\ LaterOf(i)' \subseteq KnownRows'
  BY DEF LaterOf, Older
<1>5. CASE \E j \in LaterOf(i) : WeekOf(j) = WeekOf(i)
  BY <1>2, <1>3, <1>4, <1>5 DEF WeekIsKept
<1>6. CASE Cardinality(Weeks(LaterOf(i))) >= KeepWeekly
  <2>1. Weeks(LaterOf(i)) \subseteq Weeks(LaterOf(i))'
    BY <1>2, <1>3, <1>4 DEF Weeks
  <2> DEFINE f == [j \in LaterOf(i)' |-> WeekOf(j)']
  <2>2. f \in Surjection(LaterOf(i)', Weeks(LaterOf(i))')
    BY DEF Surjection, Weeks
  <2>3. LaterOf(i)' \subseteq 1 .. Len(backups')
    BY <1>4 DEF KnownRows
  <2>4. Cardinality(Weeks(LaterOf(i))) \in Nat /\ Cardinality(Weeks(LaterOf(i))') \in Nat
        /\ Cardinality(Weeks(LaterOf(i))) <= Cardinality(Weeks(LaterOf(i))')
    <3> HIDE DEF f
    <3> QED BY <1>0, <2>1, <2>2, <2>3, ImagesAreFinite
  <2> QED BY <1>0, <1>6, <2>4 DEF WeekIsKept
<1> QED BY <1>5, <1>6 DEF WeekIsKept

\* When a retention commits, the weeks of the rows it leaves, and of those it removes, are kept: the newest
\* of each week that it removes lies before enough weeks.
LEMMA WeeksSurvive ==
    ASSUME BackupTypeOK, BackupTypeOK', BackupsAssumption, RetentionInv, EnoughWeeks,
           NEW c \in Runners, RetainCommit(c), KnownRows' = KnownRows,
           \A j \in KnownRows : /\ backups'[j].series = backups[j].series /\ backups'[j].at = backups[j].at
                                /\ (Good(j) => Good(j)' \/ (j \in workers[c].marked /\ StillGood(j))),
           NEW i \in KnownRows, WeekIsKept(i)
    PROVE  WeekIsKept(i)'
<1> DEFINE Gone == {m \in LaterOf(i) : /\ m \in workers[c].marked /\ StillGood(m)
                                       /\ \A j \in LaterOf(m) : WeekOf(j) # WeekOf(m)}
<1> DEFINE Left == LaterOf(i)'
<1>0. Len(backups) \in Nat /\ KeepDaily \in Nat /\ KeepWeekly \in Nat
  <2>1. KeepDaily \in Nat /\ KeepWeekly \in Nat
    BY DEF BackupsAssumption
  <2> QED BY <2>1, BackupTypes
<1>w. \A j \in KnownRows : WeekOf(j)' = WeekOf(j)
  BY DEF WeekOf, DayOf
<1>k. LaterOf(i) \subseteq KnownRows /\ Left \subseteq KnownRows
  BY DEF LaterOf, Older
<1>s. ASSUME NEW j \in LaterOf(i), ~(j \in workers[c].marked /\ StillGood(j)) PROVE j \in Left
  <2>1. /\ j \in KnownRows /\ j > i /\ backups[j].series = backups[i].series /\ Good(j)
        /\ Cardinality(NewerGood(j)) >= KeepDaily
    BY DEF LaterOf, Older
  <2>2. Good(j)'
    BY <1>s, <2>1
  <2>3. Cardinality({k \in KnownRows : k > j /\ backups[k].series = backups[j].series /\ Good(k)'}) >= KeepDaily
    BY <2>1, RetiredHaveNewer
  <2>4. NewerGood(j)' = {k \in KnownRows : k > j /\ backups[k].series = backups[j].series /\ Good(k)'}
    BY <2>1 DEF NewerGood
  <2> QED BY <2>1, <2>2, <2>3, <2>4 DEF LaterOf, Older
<1>n. ASSUME NEW j \in LaterOf(i)
      PROVE  \E t \in LaterOf(i) : /\ t >= j /\ WeekOf(t) = WeekOf(j)
                                   /\ \A k \in LaterOf(t) : WeekOf(k) # WeekOf(t)
  <2> DEFINE S == {k \in LaterOf(i) : k >= j /\ WeekOf(k) = WeekOf(j)}
             t == Max(S)
  <2>1. S \subseteq 0 .. Len(backups) /\ j \in S
    BY <1>k DEF KnownRows
  <2>2. t \in S /\ \A k \in S : t >= k
    <3> HIDE DEF S
    <3> QED BY <1>0, <2>1, LargestIsOne
  <2> HIDE DEF t
  <2>3. t \in LaterOf(i) /\ t >= j /\ WeekOf(t) = WeekOf(j)
    BY <2>2
  <2>4. ASSUME NEW k \in LaterOf(t), WeekOf(k) = WeekOf(t) PROVE FALSE
    <3>1. k \in KnownRows /\ t \in KnownRows /\ k > t
      BY <1>k, <2>3 DEF LaterOf, Older
    <3>2. k \in Int /\ t \in Int /\ i \in Int /\ j \in Int
      BY <1>k, <3>1 DEF KnownRows
    <3>3. k > i /\ k >= j
      BY <2>3, <3>1, <3>2 DEF LaterOf
    <3>4. k \in Older(i)
      BY <2>3 DEF LaterOf, Older
    <3>5. k \in S
      BY <2>3, <2>4, <3>3, <3>4 DEF LaterOf
    <3> QED BY <2>2, <3>1, <3>2, <3>5
  <2> QED BY <2>3, <2>4
<1>f. Cardinality(Weeks(Left)) \in Nat /\ \A T \in SUBSET Weeks(Left) : Cardinality(T) <= Cardinality(Weeks(Left))
  <2> HIDE DEF Left
  <2> QED BY <1>k, WeeksAreFinite
<1>e. Weeks(Left) = Weeks(LaterOf(i))'
  BY <1>w, <1>k DEF Weeks
<1>1. CASE Gone = {}
  <2>1. \A j \in LaterOf(i) : \E t \in Left : t \in LaterOf(i) /\ WeekOf(t) = WeekOf(j)
    BY <1>s, <1>n, <1>1
  <2>2. CASE \E j \in LaterOf(i) : WeekOf(j) = WeekOf(i)
    BY <1>w, <1>k, <2>1, <2>2 DEF WeekIsKept
  <2>3. CASE Cardinality(Weeks(LaterOf(i))) >= KeepWeekly
    <3>1. Weeks(LaterOf(i)) \subseteq Weeks(Left)
      <4> HIDE DEF Left
      <4> QED BY <2>1 DEF Weeks
    <3>2. Cardinality(Weeks(LaterOf(i))) \in Nat
      BY <1>k, WeeksAreFinite
    <3>3. Cardinality(Weeks(Left)) >= KeepWeekly
      BY <1>0, <1>f, <2>3, <3>1, <3>2
    <3> QED BY <1>e, <3>3 DEF WeekIsKept
  <2> QED BY <2>2, <2>3 DEF WeekIsKept
<1>2. CASE Gone # {}
  <2> DEFINE m == Max(Gone)
  <2>1. Gone \subseteq 0 .. Len(backups)
    BY <1>k DEF KnownRows
  <2>2. m \in Gone /\ \A y \in Gone : m >= y
    <3> HIDE DEF Gone
    <3> QED BY <1>0, <1>2, <2>1, LargestIsOne
  <2> HIDE DEF m
  <2>3. /\ m \in LaterOf(i) /\ m \in workers[c].marked /\ StillGood(m)
        /\ \A j \in LaterOf(m) : WeekOf(j) # WeekOf(m)
    BY <2>2
  <2>4. Cardinality(Weeks(LaterOf(m))) >= KeepWeekly
    BY <2>3 DEF EnoughWeeks, RetainCommit, WeekIsKept
  <2>5. \A j \in LaterOf(m) : j \in LaterOf(i) /\ j > m
    <3> SUFFICES ASSUME NEW j \in LaterOf(m) PROVE j \in LaterOf(i) /\ j > m
      OBVIOUS
    <3>1. j \in KnownRows /\ m \in KnownRows /\ j > m /\ m > i /\ j \in Older(i)
      BY <2>3 DEF LaterOf, Older
    <3> QED BY <3>1 DEF LaterOf, KnownRows
  <2>6. ASSUME NEW j \in LaterOf(m) PROVE \E t \in Left : WeekOf(t) = WeekOf(j)
    <3>1. PICK t \in LaterOf(i) : /\ t >= j /\ WeekOf(t) = WeekOf(j)
                                  /\ \A k \in LaterOf(t) : WeekOf(k) # WeekOf(t)
      BY <1>n, <2>5
    <3>2. t \in Int /\ j \in Int /\ m \in Int /\ j > m
      BY <1>k, <2>3, <2>5 DEF KnownRows
    <3>3. t \notin Gone
      BY <2>2, <3>1, <3>2
    <3>4. ~(t \in workers[c].marked /\ StillGood(t))
      BY <3>1, <3>3
    <3> QED BY <1>s, <3>1, <3>4
  <2>7. Weeks(LaterOf(m)) \subseteq Weeks(Left)
    <3> HIDE DEF Left
    <3> QED BY <2>6 DEF Weeks
  <2>8. Cardinality(Weeks(LaterOf(m))) \in Nat
    <3>1. LaterOf(m) \subseteq KnownRows
      BY DEF LaterOf, Older
    <3> QED BY <3>1, WeeksAreFinite
  <2>9. Cardinality(Weeks(Left)) >= KeepWeekly
    BY <1>0, <1>f, <2>4, <2>7, <2>8
  <2> QED BY <1>e, <2>9 DEF WeekIsKept
<1> QED BY <1>1, <1>2

LEMMA MarkedKeepWeeks ==
    ASSUME BackupTypeOK, BackupsAssumption, NEW w \in Runners, RetainRead(w), NEW i \in workers'[w].marked
    PROVE  WeekIsKept(i)
<1>1. workers'[w].marked = UNION {Superfluous(OkRows(s)) : s \in Series}
  <2>1. workers[w] \in RunnerStates
    BY BackupTypes
  <2> QED BY <2>1, BackupTypes DEF RetainRead, Becomes, RunnerStates
<1>2. PICK s \in Series : i \in Superfluous(OkRows(s))
  BY <1>1
<1> DEFINE older == OkRows(s) \ Daily(OkRows(s))
<1>3. i \in older /\ i \notin Weekly(older)
  BY <1>2 DEF Superfluous
<1>4. i \in KnownRows /\ backups[i].series = s
  BY <1>3 DEF OkRows
<1>5. Newer(i, older) \subseteq LaterOf(i)
  <2> SUFFICES ASSUME NEW j \in older, j > i PROVE j \in LaterOf(i)
    BY DEF Newer
  <2>1. j \in KnownRows /\ backups[j].series = s /\ Good(j) /\ ~(Cardinality(Newer(j, OkRows(s))) < KeepDaily)
    BY DEF OkRows, Good, Daily
  <2>2. Newer(j, OkRows(s)) \subseteq NewerGood(j) /\ NewerGood(j) \subseteq KnownRows
    BY <2>1 DEF Newer, OkRows, NewerGood, Good
  <2>3. Len(backups) \in Nat /\ KeepDaily \in Nat
    BY BackupTypes DEF BackupsAssumption
  <2>4. /\ Cardinality(NewerGood(j)) \in Nat /\ Cardinality(Newer(j, OkRows(s))) \in Nat
        /\ Cardinality(Newer(j, OkRows(s))) <= Cardinality(NewerGood(j))
    BY <2>2, <2>3, RowsAreFinite DEF KnownRows
  <2>5. Cardinality(NewerGood(j)) >= KeepDaily
    BY <2>1, <2>3, <2>4
  <2> QED BY <1>4, <2>1, <2>5 DEF LaterOf, Older
<1> HIDE DEF older
<1>6. CASE \E j \in Newer(i, older) : WeekOf(j) = WeekOf(i)
  BY <1>5, <1>6 DEF WeekIsKept
<1>7. CASE ~(Cardinality({WeekOf(j) : j \in Newer(i, older)}) < KeepWeekly)
  <2>1. {WeekOf(j) : j \in Newer(i, older)} \subseteq Weeks(LaterOf(i))
    BY <1>5 DEF Weeks
  <2>2. LaterOf(i) \subseteq KnownRows /\ KeepWeekly \in Nat
    BY DEF LaterOf, Older, BackupsAssumption
  <2>3. /\ Cardinality(Weeks(LaterOf(i))) \in Nat
        /\ Cardinality({WeekOf(j) : j \in Newer(i, older)}) \in Nat
        /\ Cardinality({WeekOf(j) : j \in Newer(i, older)}) <= Cardinality(Weeks(LaterOf(i)))
    BY <2>1, <2>2, WeeksAreFinite
  <2> QED BY <1>7, <2>2, <2>3 DEF WeekIsKept
<1> QED BY <1>3, <1>6, <1>7 DEF Weekly

\* A retention leaves the rows that there are.
LEMMA CommitsKeepRows ==
    ASSUME BackupTypeOK, BackupTypeOK', BackupsAssumption, NEW c \in Runners, RetainCommit(c)
    PROVE  KnownRows' = KnownRows
<1>1. DOMAIN backups' = KnownRows
  BY DEF RetainCommit
<1>2. Len(backups') = Len(backups)
  BY <1>1, BackupTypes DEF BackupTypeOK, KnownRows
<1> QED BY <1>2 DEF KnownRows

LEMMA EachLeaves ==
    ASSUME BackupTypeOK, BackupsAssumption, OwnRow, BackupNext, NEW c \in Runners, RetainCommit(c)
    PROVE  \A j \in KnownRows : Good(j) => Good(j)' \/ (j \in workers[c].marked /\ StillGood(j))
<1>1. ASSUME NEW v \in Runners, RetainCommit(v) PROVE v = c
  <2>1. workers[v].pc = "remove" /\ workers[v] \in RunnerStates
    BY <1>1, BackupTypes DEF RetainCommit
  <2>2. [workers[v] EXCEPT !.pc = "done", !.marked = {}].pc = "done"
    BY <2>1 DEF RunnerStates
  <2>3. workers'[v].pc = "done"
    BY <1>1, <2>2, BackupTypes DEF RetainCommit, Becomes
  <2>4. workers' = [workers EXCEPT ![c] = [workers[c] EXCEPT !.pc = "done", !.marked = {}]]
    BY DEF RetainCommit, Becomes
  <2>5. v # c => workers'[v] = workers[v]
    BY <2>4, BackupTypes
  <2> QED BY <2>1, <2>3, <2>5
<1> QED BY <1>1, RowsOfAStep

LEMMA WeeksStay ==
    ASSUME BackupTypeOK, BackupTypeOK', BackupsAssumption, RetentionInv, EnoughWeeks, BackupNext
    PROVE  EnoughWeeks'
<1> SUFFICES ASSUME NEW w \in Runners, workers'[w].pc = "remove", NEW i \in workers'[w].marked, StillGood(i)'
             PROVE  WeekIsKept(i)'
  BY DEF EnoughWeeks
<1>r. /\ KnownRows \subseteq KnownRows'
      /\ \A j \in KnownRows :
            /\ backups'[j].series = backups[j].series /\ backups'[j].at = backups[j].at
            /\ Good(j)' => Good(j) \/ \E v \in Runners : HoldsRow(v) /\ ~HoldsRow(v)' /\ workers[v].row = j
            /\ StillGood(j)' => StillGood(j) \/ ~Good(j)
            /\ Good(j) => \/ Good(j)'
                          \/ \E v \in Runners : RetainCommit(v) /\ j \in workers[v].marked /\ StillGood(j)
  BY RowsOfAStep DEF RetentionInv
<1>1. i \in KnownRows /\ WeekIsKept(i)
  <2>1. CASE RetainRead(w)
    BY <2>1, MarkedHaveNewer, MarkedKeepWeeks
  <2>2. CASE workers[w].pc = "remove" /\ workers'[w].marked = workers[w].marked
    <3>1. i \in KnownRows /\ \A v \in Runners : HoldsRow(v) => workers[v].row # i
      BY <2>2 DEF RetentionInv, EnoughNewer
    <3>2. StillGood(i)
      BY <1>r, <3>1 DEF Good, StillGood
    <3> QED BY <2>2, <3>1, <3>2 DEF EnoughWeeks
  <2> QED BY <2>1, <2>2, RunnersOfAStep
<1>2. CASE \A c \in Runners : ~RetainCommit(c)
  <2>1. \A j \in KnownRows : /\ backups'[j].series = backups[j].series /\ backups'[j].at = backups[j].at
                             /\ (Good(j) => Good(j)')
    BY <1>r, <1>2
  <2> QED BY <1>r, <1>1, <2>1, WeeksGrow
<1>3. ASSUME NEW c \in Runners, RetainCommit(c) PROVE WeekIsKept(i)'
  <2>1. KnownRows' = KnownRows
    BY <1>3, CommitsKeepRows
  <2>2. \A j \in KnownRows : Good(j) => Good(j)' \/ (j \in workers[c].marked /\ StillGood(j))
    BY <1>3, EachLeaves DEF RetentionInv
  <2> QED BY <1>r, <1>1, <1>3, <2>1, <2>2, WeeksSurvive
<1> QED BY <1>2, <1>3

LEMMA EachRetiresForWeeks ==
    ASSUME BackupTypeOK, BackupTypeOK', BackupsAssumption, RetentionInv, EnoughWeeks, BackupNext
    PROVE  RetiresForWeeks
<1> SUFFICES ASSUME NEW s \in Series, NEW i \in Retired(s)
             PROVE  LET older == {j \in Counted(s) : Cardinality({k \in Counted(s) : k > j}) >= KeepDaily} IN
                    \/ \E j \in Counted(s) : WeekOf(j) = WeekOf(i)
                    \/ Cardinality({WeekOf(j) : j \in {j \in older : j > i}}) >= KeepWeekly
  BY DEF RetiresForWeeks
<1> DEFINE older == {j \in Counted(s) : Cardinality({k \in Counted(s) : k > j}) >= KeepDaily}
<1>1. i \in KnownRows /\ backups[i].series = s /\ backups[i].status = "ok" /\ backups'[i].status = "none"
  BY DEF Retired
<1>2. Good(i) /\ ~Good(i)' /\ StillGood(i)
  BY <1>1 DEF Good, StillGood
<1>r. \A j \in KnownRows :
          /\ backups'[j].series = backups[j].series /\ backups'[j].at = backups[j].at
          /\ Good(j) => \/ Good(j)'
                        \/ \E v \in Runners : RetainCommit(v) /\ j \in workers[v].marked /\ StillGood(j)
  BY RowsOfAStep DEF RetentionInv
<1>3. PICK c \in Runners : RetainCommit(c) /\ i \in workers[c].marked
  BY <1>1, <1>2, <1>r
<1>4. KnownRows' = KnownRows
  BY <1>3, CommitsKeepRows
<1>5. WeekIsKept(i)'
  <2>1. WeekIsKept(i)
    BY <1>2, <1>3 DEF EnoughWeeks, RetainCommit
  <2>2. \A j \in KnownRows : Good(j) => Good(j)' \/ (j \in workers[c].marked /\ StillGood(j))
    BY <1>3, EachLeaves DEF RetentionInv
  <2> QED BY <1>r, <1>1, <1>3, <1>4, <2>1, <2>2, WeeksSurvive
<1>6. ASSUME NEW j \in KnownRows, backups[j].series = s
      PROVE  NewerGood(j)' = {k \in Counted(s) : k > j}
  BY <1>r, <1>4, <1>6 DEF NewerGood, Counted
<1>7. LaterOf(i)' = {j \in older : j > i}
  BY <1>r, <1>1, <1>4, <1>6 DEF LaterOf, Older, Counted
<1>8. \A j \in KnownRows : WeekOf(j)' = WeekOf(j)
  BY <1>r DEF WeekOf, DayOf
<1>9. older \subseteq Counted(s) /\ Counted(s) \subseteq KnownRows
  BY DEF Counted
<1> HIDE DEF older
<1>10. CASE \E j \in LaterOf(i)' : WeekOf(j)' = WeekOf(i)'
  BY <1>1, <1>7, <1>8, <1>9, <1>10
<1>11. CASE Cardinality(Weeks(LaterOf(i))') >= KeepWeekly
  <2>1. Weeks(LaterOf(i))' = {WeekOf(j) : j \in {j \in older : j > i}}
    BY <1>7, <1>8, <1>9 DEF Weeks
  <2> QED BY <1>11, <2>1 DEF older
<1> QED BY <1>5, <1>10, <1>11 DEF WeekIsKept, older

\* Backups: whatever runs, fails, is repeated or removed at the same time, the tables and what the
\* runners know of them keep their types (_run_backup, close_stale, apply_retention).
THEOREM BackupTypesHold ==
    ASSUME BackupsAssumption
    PROVE  BackupSpec => []BackupTypeOK
<1>1. BackupInit => BackupTypeOK
  BY BackupInitTypes
<1>2. BackupTypeOK /\ [BackupNext]_backupVars => BackupTypeOK'
  BY BackupStepKeepsTypes, BackupStutterKeepsTypes
<1> QED BY <1>1, <1>2, PTL DEF BackupSpec

\* Backups: whatever runs at the same time, is repeated or cut off, a good backup is retired only for
\* KeepDaily newer good ones of its series, and a week loses its last one only for KeepWeekly newer
\* weeks (apply_retention).
THEOREM EnoughIsKept ==
    ASSUME BackupsAssumption
    PROVE  BackupSpec => KeepsEnough
<1> DEFINE Inv == RetentionInv /\ EnoughWeeks
<1>1. BackupInit => BackupTypeOK /\ Inv
  <2>1. ASSUME BackupInit PROVE Inv
    <3>1. \A w \in Runners : workers[w].pc = "idle"
      BY <2>1 DEF BackupInit, AtRest
    <3> QED BY <3>1 DEF RetentionInv, OwnRow, EnoughNewer, EnoughWeeks, HoldsRow
  <2> QED BY <2>1, BackupInitTypes
<1>2. BackupTypeOK /\ BackupTypeOK' /\ Inv /\ [BackupNext]_backupVars => Inv'
  <2>1. ASSUME Inv, UNCHANGED backupVars PROVE Inv'
    <3>1. /\ workers' = workers /\ KnownRows' = KnownRows
          /\ \A i : /\ Good(i)' = Good(i) /\ StillGood(i)' = StillGood(i) /\ NewerGood(i)' = NewerGood(i)
                    /\ WeekOf(i)' = WeekOf(i)
      BY <2>1 DEF backupVars, KnownRows, Good, StillGood, NewerGood, WeekOf, DayOf
    <3>2. OwnRow'
      BY <2>1, <3>1 DEF RetentionInv, OwnRow, HoldsRow, Good
    <3>3. EnoughNewer'
      BY <2>1, <3>1 DEF RetentionInv, EnoughNewer, HoldsRow
    <3>4. \A i : LaterOf(i)' = LaterOf(i)
      BY <2>1, <3>1 DEF LaterOf, Older, backupVars
    <3>5. \A i : WeekIsKept(i)' = WeekIsKept(i)
      BY <3>1, <3>4 DEF WeekIsKept, Weeks
    <3>6. EnoughWeeks'
      BY <2>1, <3>1, <3>5 DEF EnoughWeeks
    <3> QED BY <3>2, <3>3, <3>6 DEF RetentionInv
  <2> QED BY <2>1, OwnRowStays, EnoughStay, WeeksStay DEF RetentionInv
<1>3. BackupTypeOK /\ BackupTypeOK' /\ Inv /\ [BackupNext]_backupVars
          => [RetiresForDays /\ RetiresForWeeks]_backupVars
  BY EachRetiresForDays, EachRetiresForWeeks
<1> QED BY <1>1, <1>2, <1>3, BackupTypesHold, PTL DEF BackupSpec, KeepsEnough

=============================================================================
