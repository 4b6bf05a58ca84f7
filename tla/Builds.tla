------------------------------- MODULE Builds -------------------------------
(***************************************************************************)
(* Golden images.  A version of a template is built by the agent or frozen *)
(* from a running workspace, then it can be activated; old versions are    *)
(* pruned.  start_build and the watcher of a build run on the event loop   *)
(* of the API and block it while they wait for the agent; all other        *)
(* handlers run in threads.  A step ends at every commit and at every      *)
(* answer of the agent.                                                    *)
(***************************************************************************)
EXTENDS Integers, FiniteSets, FiniteSetsExt

CONSTANTS
    Templates,      \* workspace templates
    First,          \* the template that exists at the beginning
    Versions,       \* 1 .. n
    Keep,           \* KEEP_VERSIONS
    Threads,        \* worker threads of the API
    Loop,           \* its event loop
    Serial,         \* whether a handler starts only when no other one runs
    Calm,           \* whether no template is deleted while the agent works on a build of it
    Cleans,         \* whether administrators remove images of the host as well
    MaxRuns,        \* bound on builds and freezes
    MaxFaults       \* bound on restarts, lost answers, foreign clean-ups

BuildsAssumption ==
    /\ First \in Templates /\ Loop \notin Threads /\ {Serial, Calm, Cleans} \subseteq BOOLEAN
    /\ Versions \subseteq Nat /\ Keep \in Nat /\ MaxRuns \in Nat /\ MaxFaults \in Nat

VARIABLES
    rows,           \* table image_builds, by template and version
    templates,      \* table templates: image_ref
    images,         \* the image store: by tag, the run that made the image, 0 for none
    jobs,           \* _builds of the agent, by run
    watched,        \* runs that a task of the API polls, and those it verifies later
    actors,         \* what the event loop and the threads are doing
    runs, faults    \* counters

buildVars == <<rows, templates, images, jobs, watched, actors, runs, faults>>

Tags == Templates \X Versions       \* ota/<slug>:v<version>
AnyTags == Templates \X (Versions \cup {0})    \* 0: the base image, or no version yet
Runs == 1 .. MaxRuns        \* a run is the identity of its row, too
Actors == Threads \cup {Loop}

Row == [run : 0 .. MaxRuns, status : {"none", "queued", "building", "ok", "failed"},
        image : BOOLEAN, current : BOOLEAN]
NoRow == [run |-> 0, status |-> "none", image |-> FALSE, current |-> FALSE]
Base == <<First, 0>>                \* the image the first template starts from
NoJob == [tag |-> Base, status |-> "none"]
Idle == [pc |-> "idle", op |-> "none", tag |-> Base, run |-> 0,
         spared |-> {}, known |-> {}, list |-> {}, gone |-> {}]

BuildsTypeOK ==
    /\ rows \in [Tags -> Row]
    /\ templates \in [Templates -> [exists : BOOLEAN, image : AnyTags]]
    /\ images \in [Tags -> 0 .. MaxRuns]
    /\ jobs \in [Runs -> [tag : AnyTags,
                          status : {"none", "queued", "building", "ok", "failed", "lost"}]]
    /\ watched \in [polled : SUBSET Runs, verified : SUBSET Runs]
    /\ actors \in [Actors ->
          [pc : {"idle", "flush", "call", "book", "preview", "commit", "copy",
                 "read", "check", "remove", "prune"},
           op : {"none", "build", "watch", "freeze", "delete", "clean", "duplicate"},
           tag : AnyTags, run : 0 .. MaxRuns,
           spared : SUBSET Versions,    \* versions the handler has seen in use
           known : SUBSET Versions,     \* rows it has loaded before it prunes
           list : SUBSET Versions,      \* versions whose images it still removes
           gone : SUBSET (0 .. MaxRuns)]]   \* rows it deletes
    /\ runs \in 0 .. MaxRuns
    /\ faults \in 0 .. MaxFaults

BuildsInit ==
    /\ rows = [i \in Tags |-> NoRow]
    /\ templates = [t \in Templates |-> [exists |-> t = First, image |-> Base]]
    /\ images = [i \in Tags |-> 0]
    /\ jobs = [r \in Runs |-> NoJob]
    /\ watched = [polled |-> {}, verified |-> {}]
    /\ actors = [a \in Actors |-> Idle]
    /\ runs = 0
    /\ faults = 0

Free(a) == actors[a].pc = "idle" /\ (Serial => \A b \in Actors : actors[b].pc = "idle")
Become(a, r) == actors' = [actors EXCEPT ![a] = r]
GoesTo(a, pc) == Become(a, [actors[a] EXCEPT !.pc = pc])
Done(a) == Become(a, Idle)
Stands(a, pc, op) == actors[a].pc = pc /\ actors[a].op = op
Fault == faults < MaxFaults /\ faults' = faults + 1

RowsOf(t) == {v \in Versions : rows[<<t, v>>].status # "none"}
NextVersion(t) == 1 + Max(RowsOf(t) \cup {0})
Underway == \E i \in Tags : rows[i].status \in {"queued", "building"}
CurrentOf(t) == {v \in Versions : rows[<<t, v>>].current}
ImageOf(t) == {v \in Versions : templates[t].image = <<t, v>>}
Elsewhere(i) == \E u \in Templates \ {i[1]} : templates[u].exists /\ templates[u].image = i
InsertedBuilds(i) == \E a \in Actors : \* as if a freeze inserted its row only when it is done
    actors[a].tag = i /\ actors[a].op = "build" /\ actors[a].pc \in {"call", "book"}

\* An insert that is not committed yet holds the unique pair of template and version,
\* and keeps its template from being deleted.
Inserted(i) == \E a \in Actors :
    actors[a].tag = i /\ \/ actors[a].op = "build" /\ actors[a].pc \in {"call", "book"}
                         \/ actors[a].op = "freeze" /\ actors[a].pc # "preview"
                                                    /\ actors[a].pc # "flush"

(* start_build, on the event loop.                                          *)

BuildCheck(t) ==
    /\ Free(Loop)
    /\ templates[t].exists
    /\ ~Underway
    /\ NextVersion(t) \in Versions
    /\ runs < MaxRuns
    /\ runs' = runs + 1
    /\ Become(Loop, [Idle EXCEPT !.pc = "flush", !.op = "build",
                                 !.tag = <<t, NextVersion(t)>>, !.run = runs + 1])
    /\ UNCHANGED <<rows, templates, images, jobs, watched, faults>>

\* The flush of a build or a freeze waits for an insert of the same version, and fails
\* when that one was committed.
Flush(a) ==
    LET i == actors[a].tag IN
    /\ actors[a].pc = "flush"
    /\ ~Inserted(i)
    /\ IF rows[i].status = "none" /\ templates[i[1]].exists
       THEN GoesTo(a, IF actors[a].op = "build" THEN "call" ELSE "commit")
       ELSE Done(a)
    /\ UNCHANGED <<rows, templates, images, jobs, watched, runs, faults>>

\* builder.start: busy means the lock is held; a job waits for it in a thread of its own.
AgentAccepts ==
    /\ Stands(Loop, "call", "build")
    /\ \A r \in Runs : jobs[r].status # "building"
    /\ jobs' = [jobs EXCEPT ![actors[Loop].run] = [tag |-> actors[Loop].tag, status |-> "queued"]]
    /\ GoesTo(Loop, "book")
    /\ UNCHANGED <<rows, templates, images, watched, runs, faults>>

AgentRefuses == \* busy, no base image, not reachable: the insert is rolled back
    /\ Stands(Loop, "call", "build")
    /\ Done(Loop)
    /\ UNCHANGED <<rows, templates, images, jobs, watched, runs, faults>>

BuildBook ==
    LET a == actors[Loop] IN
    /\ Stands(Loop, "book", "build")
    /\ rows' = [rows EXCEPT ![a.tag] = [NoRow EXCEPT !.run = a.run, !.status = "queued"]]
    /\ watched' = [watched EXCEPT !.polled = @ \cup {a.run}]
    /\ Done(Loop)
    /\ UNCHANGED <<templates, images, jobs, runs, faults>>

BuildAnswerLost == \* the agent builds on, the row is rolled back
    /\ Stands(Loop, "book", "build")
    /\ Fault
    /\ Done(Loop)
    /\ UNCHANGED <<rows, templates, images, jobs, watched, runs>>

(* _run_build in the agent: one build at a time under _lock.                *)

JobRuns(r) ==
    /\ jobs[r].status = "queued"
    /\ \A q \in Runs : jobs[q].status # "building"
    /\ jobs' = [jobs EXCEPT ![r].status = "building"]
    /\ UNCHANGED <<rows, templates, images, watched, actors, runs, faults>>

JobEnds(r, status) ==
    /\ jobs[r].status = "building"
    /\ jobs' = [jobs EXCEPT ![r].status = status]
    /\ images' = IF status = "ok" THEN [images EXCEPT ![jobs[r].tag] = r] ELSE images
    /\ UNCHANGED <<rows, templates, watched, actors, runs, faults>>

(* _watch: a task of the event loop that polls the agent.  An agent that    *)
(* does not know the job any more is asked again, for ever.                 *)

RowOf(r) == {i \in Tags : rows[i].run = r}

WatchOnce(r) == \* the task ends with the first answer that is not final
    /\ Free(Loop)
    /\ r \in watched.polled /\ RowOf(r) # {}
    /\ jobs[r].status = "building"
    /\ watched' = [watched EXCEPT !.polled = @ \ {r}]
    /\ rows' = [i \in Tags |-> IF rows[i].run = r THEN [rows[i] EXCEPT !.status = "building"] ELSE rows[i]]
    /\ UNCHANGED <<templates, images, jobs, actors, runs, faults>>

Polled(r) ==
    /\ Free(Loop)
    /\ r \in watched.polled
    /\ IF RowOf(r) = {}
       THEN /\ watched' = [watched EXCEPT !.polled = @ \ {r}]
            /\ UNCHANGED <<rows, actors>>
       ELSE LET i == CHOOSE i \in RowOf(r) : TRUE
                s == jobs[r].status IN
            /\ rows' = [rows EXCEPT ![i].status = s, ![i].image = s = "ok"]
            /\ rows' # rows
            /\ IF s \in {"ok", "failed"}
               THEN /\ watched' = [watched EXCEPT !.polled = @ \ {r}]
                    /\ Become(Loop, [Idle EXCEPT !.pc = "read", !.op = "watch", !.tag = i, !.run = r,
                                                 !.spared = ImageOf(i[1]), !.known = {i[2]}])
               ELSE UNCHANGED <<watched, actors>>
    /\ UNCHANGED <<templates, images, jobs, runs, faults>>
WatchLost(r) == Polled(r) \* as if the answer of an agent that has lost the job were a status
Watch(r) == jobs[r].status # "lost" /\ Polled(r)

Verify(r) == \* _verify_survives: is the image still there after 45 seconds?
    /\ Free(Loop)
    /\ r \in watched.verified
    /\ watched' = [watched EXCEPT !.verified = @ \ {r}]
    /\ rows' = [i \in Tags |-> IF rows[i].run = r /\ rows[i].status = "ok" /\ images[i] = 0
                               THEN [rows[i] EXCEPT !.status = "failed"] ELSE rows[i]]
    /\ UNCHANGED <<templates, images, jobs, actors, runs, faults>>

(* _prune_versions, called by the watcher of a build and by a freeze, and   *)
(* the removal of one version in delete_build.                              *)

PruneRead(a) ==
    LET act == actors[a]
        t == act.tag[1]
        finished == {v \in RowsOf(t) : rows[<<t, v>>].status \in {"ok", "failed"}} \cup {act.tag[2]}
        old == {v \in finished : Cardinality({w \in finished : w > v}) >= Keep}
        spared == act.spared \cup (CurrentOf(t) \ act.known) IN
    /\ act.pc = "read"
    /\ Become(a, [act EXCEPT !.pc = "check", !.list = old \ spared,
                             !.gone = {IF v = act.tag[2] THEN act.run ELSE rows[<<t, v>>].run : v \in old \ spared}])
    /\ UNCHANGED <<rows, templates, images, jobs, watched, runs, faults>>

HasImage(a, v) == LET t == actors[a].tag[1] IN
    rows[<<t, v>>].image \/ (actors[a].op = "freeze" /\ actors[a].tag[2] = v)

RemoveUnchecked(a) == \* without _anderswo_genutzt
    LET act == actors[a] IN
    /\ act.pc = "check" /\ act.list # {}
    /\ GoesTo(a, "remove")
    /\ UNCHANGED <<rows, templates, images, jobs, watched, runs, faults>>

RemoveCheck(a) == \* _anderswo_genutzt
    LET act == actors[a]
        v == Max(act.list) IN
    /\ act.pc = "check" /\ act.list # {}
    /\ IF HasImage(a, v) /\ ~Elsewhere(<<act.tag[1], v>>)
       THEN GoesTo(a, "remove")
       ELSE Become(a, [act EXCEPT !.list = @ \ {v}])
    /\ UNCHANGED <<rows, templates, images, jobs, watched, runs, faults>>

RemoveImage(a, refused) == \* the agent refuses an image that a container uses
    LET act == actors[a]
        v == Max(act.list) IN
    /\ act.pc = "remove"
    /\ images' = IF refused THEN images ELSE [images EXCEPT ![<<act.tag[1], v>>] = 0]
    /\ Become(a, [act EXCEPT !.pc = "check", !.list = @ \ {v}])
    /\ UNCHANGED <<rows, templates, jobs, watched, runs, faults>>

Without(rs, gone) == [i \in Tags |-> IF rs[i].run \in gone THEN NoRow ELSE rs[i]]

PruneCommit(a) == \* the watcher appends to its own row, which fails when that one is gone
    LET act == actors[a] IN
    /\ act.pc = "check" /\ act.list = {}
    /\ IF act.op = "freeze"
       THEN rows' = Without([rows EXCEPT ![act.tag] = [run |-> act.run, status |-> "ok",
                                                       image |-> TRUE, current |-> FALSE]], act.gone)
       ELSE IF act.op = "watch" /\ RowOf(act.run) = {} THEN UNCHANGED rows
       ELSE rows' = Without(rows, act.gone)
    /\ watched' = IF act.op = "watch" /\ RowOf(act.run) # {} /\ jobs[act.run].status = "ok"
                  THEN [watched EXCEPT !.verified = @ \cup {act.run}] ELSE watched
    /\ Done(a)
    /\ UNCHANGED <<templates, images, jobs, runs, faults>>

(* freeze: its row is inserted, but not committed before the agent is done. *)

FreezeCheck(a, t) ==
    /\ a # Loop /\ Free(a)
    /\ templates[t].exists
    /\ ~Underway
    /\ runs < MaxRuns
    /\ runs' = runs + 1
    /\ Become(a, [Idle EXCEPT !.pc = "preview", !.op = "freeze", !.tag = <<t, 0>>,
                              !.run = runs + 1, !.spared = ImageOf(t)])
    /\ UNCHANGED <<rows, templates, images, jobs, watched, faults>>

FreezeMark(a) == \* after the preview: the rows are loaded, the version is chosen
    LET t == actors[a].tag[1] IN
    /\ Stands(a, "preview", "freeze")
    /\ NextVersion(t) \in Versions
    /\ Become(a, [actors[a] EXCEPT !.pc = "flush", !.tag = <<t, NextVersion(t)>>,
                                   !.spared = @ \cup CurrentOf(t), !.known = RowsOf(t)])
    /\ UNCHANGED <<rows, templates, images, jobs, watched, runs, faults>>

FreezeRefused(a) == \* the preview fails, or names a secret nobody has confirmed
    /\ Stands(a, "preview", "freeze")
    /\ Done(a)
    /\ UNCHANGED <<rows, templates, images, jobs, watched, runs, faults>>

FreezeCommitted(a) == \* docker commit and the answer of the agent
    /\ Stands(a, "commit", "freeze")
    /\ images' = [images EXCEPT ![actors[a].tag] = actors[a].run]
    /\ GoesTo(a, "read")
    /\ UNCHANGED <<rows, templates, jobs, watched, runs, faults>>

FreezeFails(a) ==
    /\ Stands(a, "commit", "freeze")
    /\ rows' = [rows EXCEPT ![actors[a].tag] = [NoRow EXCEPT !.run = actors[a].run,
                                                             !.status = "failed"]]
    /\ Done(a)
    /\ UNCHANGED <<templates, images, jobs, watched, runs, faults>>

FreezeAnswerLost(a) == \* the API gives up, the agent makes the image none the less
    /\ Stands(a, "commit", "freeze")
    /\ Fault
    /\ images' = [images EXCEPT ![actors[a].tag] = actors[a].run]
    /\ rows' = [rows EXCEPT ![actors[a].tag] = [NoRow EXCEPT !.run = actors[a].run,
                                                             !.status = "failed"]]
    /\ Done(a)
    /\ UNCHANGED <<templates, jobs, watched, runs>>

(* The other handlers of versions and templates.                            *)

DeleteCheck(a, i) ==
    /\ a # Loop /\ Free(a)
    /\ rows[i].status \in {"ok", "failed"}
    /\ ~rows[i].current /\ ~(rows[i].image /\ templates[i[1]].image = i)
    /\ Become(a, [Idle EXCEPT !.pc = "check", !.op = "delete", !.tag = i,
                              !.list = {i[2]}, !.gone = {rows[i].run}])
    /\ UNCHANGED <<rows, templates, images, jobs, watched, runs, faults>>

CleanCheck(a, i) == \* an administrator removes an image of the host; rows that name it stay
    /\ Cleans /\ a # Loop /\ Free(a)
    /\ images[i] # 0
    /\ \A t \in Templates : templates[t].exists => templates[t].image # i
    /\ Become(a, [Idle EXCEPT !.pc = "remove", !.op = "clean", !.tag = i, !.list = {i[2]}])
    /\ UNCHANGED <<rows, templates, images, jobs, watched, runs, faults>>

Activate(a, i) ==
    /\ a # Loop /\ Free(a)
    /\ rows[i].status = "ok" /\ rows[i].image
    /\ rows' = [j \in Tags |-> IF j[1] = i[1] THEN [rows[j] EXCEPT !.current = (j = i)] ELSE rows[j]]
    /\ templates' = [templates EXCEPT ![i[1]].image = i]
    /\ UNCHANGED <<images, jobs, watched, actors, runs, faults>>

DuplicateCheck(a, t, u) == \* the copy of t is committed after the agent has copied the skeleton
    /\ a # Loop /\ Free(a)
    /\ templates[t].exists /\ ~templates[u].exists
    /\ templates[t].image # Base
    /\ Become(a, [Idle EXCEPT !.pc = "copy", !.op = "duplicate", !.tag = templates[t].image])
    /\ UNCHANGED <<rows, templates, images, jobs, watched, runs, faults>>

DuplicateCommit(a, u) ==
    /\ Stands(a, "copy", "duplicate")
    /\ IF templates[u].exists
       THEN UNCHANGED templates \* the slug is taken meanwhile
       ELSE templates' = [templates EXCEPT ![u] = [exists |-> TRUE, image |-> actors[a].tag]]
    /\ Done(a)
    /\ UNCHANGED <<rows, images, jobs, watched, runs, faults>>

UpdateTemplate(a, t, i) == \* image_ref is free text: some image of the host, or none of ours
    /\ a # Loop /\ Free(a)
    /\ templates[t].exists
    /\ i # Base => images[i] # 0
    /\ templates' = [templates EXCEPT ![t].image = i]
    /\ UNCHANGED <<rows, images, jobs, watched, actors, runs, faults>>

DeleteTemplate(a, t) == \* its versions go with it, its images stay
    /\ a # Loop /\ Free(a)
    /\ templates[t].exists
    /\ \A v \in Versions : ~Inserted(<<t, v>>)
    /\ Calm => \A r \in Runs : jobs[r].tag[1] = t => jobs[r].status \notin {"queued", "building"}
    /\ templates' = [templates EXCEPT ![t] = [exists |-> FALSE, image |-> Base]]
    /\ rows' = [i \in Tags |-> IF i[1] = t THEN NoRow ELSE rows[i]]
    /\ UNCHANGED <<images, jobs, watched, actors, runs, faults>>

(* Faults.                                                                  *)

ApiRestart ==
    /\ Fault
    /\ actors' = [a \in Actors |-> Idle]
    /\ watched' = [polled |-> {}, verified |-> {}]
    /\ UNCHANGED <<rows, templates, images, jobs, runs>>

JobsLost ==
    /\ Fault
    /\ jobs' = [r \in Runs |-> IF jobs[r].status = "none" THEN NoJob
                               ELSE [jobs[r] EXCEPT !.status = "lost"]]
    /\ UNCHANGED <<rows, templates, images, watched, actors, runs>>

ForeignCleanup(i) == \* another system on the host removes images it does not know
    /\ Fault
    /\ images[i] # 0
    /\ images' = [images EXCEPT ![i] = 0]
    /\ UNCHANGED <<rows, templates, jobs, watched, actors, runs>>

Build == \/ \E t \in Templates : BuildCheck(t)
         \/ AgentAccepts \/ AgentRefuses \/ BuildBook \/ BuildAnswerLost
Job(r) == JobRuns(r) \/ JobEnds(r, "ok") \/ JobEnds(r, "failed")
Remove(a) == \/ PruneRead(a) \/ RemoveCheck(a) \/ PruneCommit(a)
             \/ \E refused \in BOOLEAN : RemoveImage(a, refused)
Freeze(a) == \/ \E t \in Templates : FreezeCheck(a, t)
             \/ FreezeMark(a) \/ FreezeRefused(a)
             \/ FreezeCommitted(a) \/ FreezeFails(a) \/ FreezeAnswerLost(a)
Administer(a) ==
    \/ \E i \in Tags : DeleteCheck(a, i) \/ CleanCheck(a, i) \/ Activate(a, i)
    \/ \E t, u \in Templates : DuplicateCheck(a, t, u)
    \/ \E u \in Templates : DuplicateCommit(a, u) \/ DeleteTemplate(a, u)
    \/ \E t \in Templates, i \in Tags \cup {Base} : UpdateTemplate(a, t, i)
Faults == ApiRestart \/ JobsLost \/ \E i \in Tags : ForeignCleanup(i)

BuildsNext ==
    \/ Build
    \/ \E r \in Runs : Job(r) \/ Watch(r) \/ Verify(r)
    \/ \E a \in Actors : Flush(a) \/ Remove(a) \/ Freeze(a) \/ Administer(a)
    \/ Faults

BuildsSpec == BuildsInit /\ [][BuildsNext]_buildVars

\* The threads of the API and of the agent run, the event loop runs a task that waits for
\* it again and again, docker build, docker commit and every call end.
BuildsFairness ==
    /\ \A r \in Runs : WF_buildVars(Job(r)) /\ SF_buildVars(Watch(r))
    /\ \A a \in Actors : WF_buildVars(Flush(a)) /\ WF_buildVars(Remove(a))
    /\ \A a \in Threads : WF_buildVars(FreezeMark(a) \/ FreezeRefused(a) \/ FreezeCommitted(a) \/ FreezeFails(a))
    /\ WF_buildVars(AgentAccepts \/ AgentRefuses) /\ WF_buildVars(BuildBook)

(* What the images should guarantee.                                        *)

\* As long as every answer arrives, no service restarts and no template is deleted under a
\* build of its own, the image of a version is the one its own build or freeze has made: no
\* two of them ever write the same tag, although the version number is read before the insert
\* and freezes are not seen by the lock on builds (start_build, freeze; the unique pair of
\* template and version).
OwnImage ==
    faults = 0 => \A i \in Tags :
        rows[i].status = "ok" /\ images[i] # 0 => images[i] = rows[i].run

\* With one handler at a time, nothing the API does removes an image a template starts its
\* sessions from, also when copies of a template share the image (_anderswo_genutzt,
\* _prune_versions, delete_build).
SparesImagesInUse ==
    \A t \in Templates :
        /\ templates[t].exists /\ templates[t].image # Base
        /\ images[templates[t].image] # 0
        /\ faults' = faults
        => images'[templates[t].image] # 0

\* A build or freeze that is booked as running ends, unless a service was restarted or an
\* answer lost: it blocks every other build until then.
BuildsEnd == Underway ~> (~Underway \/ faults > 0)
=============================================================================
