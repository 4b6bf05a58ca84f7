------------------------------- MODULE Packages -------------------------------
(***************************************************************************)
(* The package repository: mirrors, own packages and held states in aptly, *)
(* one job at a time; what the API tells images and desks about them; and  *)
(* the apt sources of a desk.                                              *)
(***************************************************************************)
EXTENDS Integers

CONSTANTS
    Mirrors,        \* how many mirrors there are, in the order of SPIEGEL
    Names,          \* names of held states
    Debs,           \* own packages, each of one version
    Desks,          \* desks whose sources are written
    Failing,        \* the kinds of jobs in which a call of aptly may fail, and "crash"
    \* An administrator turns the mirrors forward before the next state is held, deletes no
    \* state a build uses, leaves a state alone while it is being deleted, and asks for "nur"
    \* only with mirrors filled; and no answer of /quellen is under way when settings are
    \* saved, or when a state is there or gone.
    Careful,
    MaxSyncs, MaxBreaks

Kinds == {"sync", "hold", "drop", "back", "add", "remove"}
PackagesAssumption ==
    /\ Mirrors \in Nat /\ MaxSyncs \in Nat /\ MaxBreaks \in Nat
    /\ Failing \subseteq Kinds \cup {"crash"} /\ Careful \in BOOLEAN
    /\ Names \cap {"auto", "none", ""} = {}

VARIABLES
    spiegel,        \* OTA_REPO_SPIEGEL of both services
    snapshots,      \* aptly: snapshots; auto-<run>-<mirror> and fest-<name>-<part>
    merged,         \* aptly: which snapshot of a mirror a held one was merged from
    delivers,       \* aptly: what is published of each mirror
    shown,          \* aptly: what is published under snap/<name>/
    repo, served,   \* aptly: the own repository, and what is published of it
    aktuell, held,  \* meta.json: snapshots delivered, and states held with their parts
    job, syncs,     \* the job under the lock, and the runs there have been
    mode, target,   \* settings REPO_MODUS and REPO_BAU_SNAPSHOT
    cache, asking,  \* the API's memory of /quellen, and an answer under way
    builds,         \* images being built: against which state, and whether they were told it
    desks,          \* the apt sources of a desk
    breaks

aptlyVars == <<snapshots, merged, delivers, shown, repo, served>>
metaVars == <<aktuell, held>>
apiVars == <<mode, target, cache, asking, builds>>
packageVars == <<spiegel, aptlyVars, metaVars, job, syncs, apiVars, desks, breaks>>

Spiegel == 1 .. Mirrors
OwnPart == Mirrors + 1
Parts == 1 .. OwnPart
AutoOf(i, n) == <<"auto", i, n>>
Fest(i, a) == <<a, i, 0>>
None == <<"none", 0, 0>>
Snapshots == {AutoOf(i, n) : i \in Spiegel, n \in 1 .. MaxSyncs} \cup
             {Fest(i, a) : i \in Parts, a \in Names}
Published == [mirrors : SUBSET Spiegel, states : SUBSET Names]
NoTask == [kind |-> "none", of |-> "", at |-> 0, step |-> "", parts |-> {}, aktuell |-> aktuell]
Maybe(S) == {{}} \cup {{x} : x \in S}

PackTypeOK ==
    /\ spiegel \in BOOLEAN /\ snapshots \subseteq Snapshots
    /\ merged \subseteq Snapshots \X Snapshots
    /\ delivers \in [Spiegel -> Snapshots \cup {None}] /\ shown \subseteq Names \X Parts
    /\ repo \subseteq Debs /\ served \subseteq Debs
    /\ aktuell \in [Spiegel -> Snapshots \cup {None}]
    /\ held \subseteq Names \X SUBSET Parts
    /\ job.kind \in Kinds \cup {"none"} /\ job.at \in 0 .. OwnPart + 1 /\ job.parts \subseteq Parts
    /\ job.step \in {"", "make", "publish", "book", "sweep"}
    /\ syncs \in 0 .. MaxSyncs /\ breaks \in 0 .. MaxBreaks
    /\ mode \in {"aus", "zuerst", "nur"} /\ target \in Names \cup {""}
    /\ cache \in Maybe(Published) /\ asking \in Maybe(Published)
    /\ builds \subseteq Names \X BOOLEAN
    /\ desks \in [Desks -> [image : BOOLEAN, own : {"", "eigen", "zuerst", "nur"},
                            mirrors : SUBSET Spiegel]]

PackInit ==
    /\ spiegel = TRUE /\ snapshots = {} /\ merged = {}
    /\ delivers = [i \in Spiegel |-> None] /\ shown = {} /\ repo = {} /\ served = {}
    /\ aktuell = delivers /\ held = {} /\ job = NoTask /\ syncs = 0
    /\ mode = "zuerst" /\ target = "" /\ cache = {} /\ asking = {} /\ builds = {}
    /\ desks = [d \in Desks |-> [image |-> TRUE, own |-> "", mirrors |-> {}]]
    /\ breaks = 0

HeldNames == {h[1] : h \in held}
PartsOf(a) == UNION {h[2] : h \in {h \in held : h[1] = a}}
Unlocked == job.kind = "none"
Takes(kind, a) == \* under _sperre
    /\ Unlocked
    /\ job' = [NoTask EXCEPT !.kind = kind, !.of = a, !.at = 1, !.step = "make"]
Doing(kind, step) == job.kind = kind /\ job.step = step
Finishes == job' = [NoTask EXCEPT !.aktuell = aktuell']
Steps(step) == job' = [job EXCEPT !.step = step]
NextPart == job' = [job EXCEPT !.at = @ + 1, !.step = "make"]
NothingAsked == Careful => asking = {}
ForgetsWhenTold == cache' = cache
Forgets == cache' = {}

----------------------------------------------------------------------------
(* Synchronising the mirrors. *)

\* A mirror that is behind by a whole job is what its snapshot says; a run numbers both.
Sync ==
    /\ spiegel /\ syncs < MaxSyncs /\ Takes("sync", "") /\ syncs' = syncs + 1 /\ Forgets
    /\ UNCHANGED <<spiegel, aptlyVars, metaVars, mode, target, asking, builds, desks, breaks>>

\* The autos of mirror i, but for what is published or kept: aptly drops nothing published.
Swept(i) == {s \in snapshots : s[1] = "auto" /\ s[2] = i /\ s # delivers[i]}

SyncMirror ==
    /\ job.kind = "sync"
    /\ \/ /\ Doing("sync", "make") /\ job.at <= Mirrors
          /\ snapshots' = snapshots \cup {AutoOf(job.at, syncs)} /\ Steps("publish")
          /\ UNCHANGED <<delivers, aktuell>>
       \/ /\ Doing("sync", "publish")
          /\ delivers' = [delivers EXCEPT ![job.at] = AutoOf(job.at, syncs)] /\ Steps("book")
          /\ UNCHANGED <<snapshots, aktuell>>
       \/ /\ Doing("sync", "book")
          /\ aktuell' = [aktuell EXCEPT ![job.at] = AutoOf(job.at, syncs)] /\ Steps("sweep")
          /\ UNCHANGED <<snapshots, delivers>>
       \/ /\ Doing("sync", "sweep") /\ snapshots' = snapshots \ Swept(job.at) /\ NextPart
          /\ UNCHANGED <<delivers, aktuell>>
       \/ /\ Doing("sync", "make") /\ job.at > Mirrors /\ UNCHANGED <<snapshots, delivers, aktuell>>
          /\ Finishes
    /\ UNCHANGED <<spiegel, merged, shown, repo, served, held, syncs, apiVars, desks, breaks>>

----------------------------------------------------------------------------
(* Held states. *)

TurnedBack == \E i \in Spiegel : delivers[i][1] \in Names
Hold(a) ==
    /\ Careful => ~TurnedBack
    /\ a \notin HeldNames /\ Takes("hold", a)
    /\ UNCHANGED <<spiegel, aptlyVars, metaVars, syncs, apiVars, desks, breaks>>

Skipped == job.at # OwnPart /\ aktuell[job.at] = None
CanMake == /\ Fest(job.at, job.of) \notin snapshots
           /\ job.at # OwnPart => aktuell[job.at] \in snapshots
HoldPart ==
    /\ job.kind = "hold"
    /\ \/ /\ Doing("hold", "make") /\ job.at <= OwnPart /\ Skipped /\ NextPart
          /\ UNCHANGED <<snapshots, merged, shown, held, cache>>
       \/ /\ Doing("hold", "make") /\ job.at <= OwnPart /\ ~Skipped /\ CanMake
          /\ snapshots' = snapshots \cup {Fest(job.at, job.of)}
          /\ merged' = IF job.at = OwnPart THEN merged
                       ELSE merged \cup {<<Fest(job.at, job.of), aktuell[job.at]>>}
          /\ Steps("publish") /\ UNCHANGED <<shown, held, cache>>
       \/ /\ Doing("hold", "make") /\ job.at <= OwnPart /\ ~Skipped /\ ~CanMake \* aptly refuses
          /\ job' = NoTask /\ UNCHANGED <<snapshots, merged, shown, held, cache>>
       \/ /\ Doing("hold", "publish") /\ shown' = shown \cup {<<job.of, job.at>>}
          /\ job' = [job EXCEPT !.at = @ + 1, !.step = "make", !.parts = @ \cup {job.at}]
          /\ UNCHANGED <<snapshots, merged, held, cache>>
       \/ /\ Doing("hold", "make") /\ job.at > OwnPart /\ held' = held \cup {<<job.of, job.parts>>}
          /\ job' = NoTask /\ NothingAsked /\ Forgets /\ UNCHANGED <<snapshots, merged, shown>>
    /\ UNCHANGED <<spiegel, delivers, repo, served, aktuell, syncs, mode, target, asking,
                   builds, desks, breaks>>

InUseByBuilds(a) == target = a
InUse(a) == target = a \/ \E i \in Spiegel : aktuell[i] = Fest(i, a)
Drop(a) ==
    /\ Careful => \A b \in builds : b[2] => b[1] # a
    /\ a \in HeldNames /\ ~InUse(a) /\ Takes("drop", a)
    /\ UNCHANGED <<spiegel, aptlyVars, metaVars, syncs, apiVars, desks, breaks>>

\* Without -force: what is published, or was merged into another that exists, stays.
Refused(s) ==
    \/ \E i \in Spiegel : delivers[i] = s
    \/ \E m \in merged : m[2] = s /\ m[1] \in snapshots
DropPart ==
    /\ job.kind = "drop"
    /\ \/ /\ job.at <= OwnPart /\ shown' = shown \ {<<job.of, job.at>>}
          /\ LET s == Fest(job.at, job.of)
                 gone == IF Refused(s) THEN {} ELSE {s}
             IN /\ snapshots' = snapshots \ gone
                /\ merged' = {m \in merged : m[1] \notin gone}
          /\ NextPart /\ UNCHANGED <<held, cache>>
       \/ /\ job.at > OwnPart /\ held' = {h \in held : h[1] # job.of} /\ job' = NoTask
          /\ NothingAsked /\ Forgets /\ UNCHANGED <<snapshots, merged, shown>>
    /\ UNCHANGED <<spiegel, delivers, repo, served, aktuell, syncs, mode, target, asking,
                   builds, desks, breaks>>

\* zurueckdrehen: booked when all mirrors are turned back
Back(a) ==
    /\ a \in HeldNames /\ Takes("back", a)
    /\ UNCHANGED <<spiegel, aptlyVars, metaVars, syncs, apiVars, desks, breaks>>

Booking == job.aktuell
BackMirror ==
    /\ job.kind = "back"
    /\ \/ /\ Doing("back", "make") /\ job.at <= Mirrors /\ job.at \notin PartsOf(job.of)
          /\ NextPart /\ UNCHANGED <<snapshots, delivers, aktuell, cache>>
       \/ /\ Doing("back", "make") /\ job.at <= Mirrors /\ job.at \in PartsOf(job.of)
          /\ delivers' = [delivers EXCEPT ![job.at] = Fest(job.at, job.of)]
          /\ job' = [job EXCEPT !.step = "sweep",
                                !.aktuell = [@ EXCEPT ![job.at] = Fest(job.at, job.of)]]
          /\ UNCHANGED <<snapshots, aktuell, cache>>
       \/ /\ Doing("back", "sweep") /\ snapshots' = snapshots \ Swept(job.at) /\ NextPart
          /\ UNCHANGED <<delivers, aktuell, cache>>
       \/ /\ Doing("back", "make") /\ job.at > Mirrors /\ aktuell' = Booking /\ Finishes
          /\ Forgets /\ UNCHANGED <<snapshots, delivers>>
    /\ UNCHANGED <<spiegel, merged, shown, repo, served, held, syncs, mode, target, asking,
                   builds, desks, breaks>>

----------------------------------------------------------------------------
(* Own packages.  The same version is refused while the repository has it. *)

Upload(d) ==
    /\ d \notin repo /\ Takes("add", d)
    /\ UNCHANGED <<spiegel, aptlyVars, metaVars, syncs, apiVars, desks, breaks>>
Delete(d) ==
    /\ Takes("remove", d)
    /\ UNCHANGED <<spiegel, aptlyVars, metaVars, syncs, apiVars, desks, breaks>>

ChangeOwn ==
    /\ \/ Doing("add", "make") /\ repo' = repo \cup {job.of} /\ Steps("publish")
          /\ UNCHANGED served
       \/ Doing("remove", "make") /\ repo' = repo \ {job.of} /\ Steps("publish")
          /\ UNCHANGED served
       \/ /\ job.kind \in {"add", "remove"} /\ job.step = "publish"
          /\ served' = repo /\ job' = NoTask /\ UNCHANGED repo
    /\ UNCHANGED <<spiegel, snapshots, merged, delivers, shown, metaVars, syncs, apiVars,
                   desks, breaks>>

\* A call of aptly fails and ends the job, or the service crashes in the midst of it.
JobFails ==
    /\ breaks < MaxBreaks /\ ~Unlocked
    /\ "crash" \in Failing \/ (job.kind \in Failing /\ job.step \in {"make", "publish"})
    /\ breaks' = breaks + 1 /\ job' = NoTask
    /\ UNCHANGED <<spiegel, aptlyVars, metaVars, syncs, apiVars, desks>>

----------------------------------------------------------------------------
(* The API: settings, its memory of /quellen, and builds. *)

Quellen == [mirrors |-> {i \in Spiegel : spiegel /\ delivers[i] # None},
            states |-> {a \in Names : <<a, OwnPart>> \in shown}]

Asks == \* fuer_container, when nothing is remembered or it is a minute old
    /\ asking = {} /\ asking' = {Quellen}
    /\ UNCHANGED <<spiegel, aptlyVars, metaVars, job, syncs, mode, target, cache, builds,
                   desks, breaks>>
Answered ==
    /\ asking # {} /\ cache' = asking /\ asking' = {}
    /\ UNCHANGED <<spiegel, aptlyVars, metaVars, job, syncs, mode, target, builds, desks,
                   breaks>>

\* What is to be built against is stored as it is sent: the page sends what it has read once.
Sets(m, a) ==
    /\ m = "nur" => spiegel
    /\ Careful => /\ (m = "nur") => \E i \in Spiegel : delivers[i] # None
                  /\ ~(job.kind = "drop" /\ job.of = a)
    /\ NothingAsked
    /\ mode' = m /\ target' = a /\ Forgets
    /\ UNCHANGED <<spiegel, aptlyVars, metaVars, job, syncs, asking, builds, desks, breaks>>

StartBuild == \* with what is remembered; an empty target means the sources of the image
    /\ target # "" /\ cache # {}
    /\ \E q \in cache : builds' = builds \cup {<<target, target \in q.states>>}
    /\ UNCHANGED <<spiegel, aptlyVars, metaVars, job, syncs, mode, target, cache, asking,
                   desks, breaks>>
BuildEnds ==
    /\ builds # {} /\ builds' = {}
    /\ UNCHANGED <<spiegel, aptlyVars, metaVars, job, syncs, mode, target, cache, asking,
                   desks, breaks>>

\* The operator turns mirroring on or off; both services start anew and set up again.
Deploy ==
    /\ Unlocked /\ NothingAsked /\ spiegel' = ~spiegel /\ cache' = {} /\ asking' = {}
    /\ UNCHANGED <<aptlyVars, metaVars, job, syncs, mode, target, builds, desks, breaks>>

----------------------------------------------------------------------------
(* The apt sources of a desk: the script of the agent at a start or a resume. *)

ModeOfSettings == mode
\* The mode the API sends.  Without mirrors "nur" would leave a desk nothing.
ModeSent == IF mode = "aus" \/ ~spiegel THEN "eigen" ELSE mode

PutsBack(d) == \* it begins with what a former "nur" has put aside
    /\ desks' = [desks EXCEPT ![d] = [image |-> TRUE, own |-> "", mirrors |-> {}]]
    /\ UNCHANGED <<spiegel, aptlyVars, metaVars, job, syncs, apiVars, breaks>>
WritesSources(d) ==
    /\ cache # {}
    /\ \E q \in cache :
         desks' = [desks EXCEPT ![d] =
             [image |-> ModeSent # "nur", own |-> ModeSent,
              mirrors |-> IF ModeSent = "eigen" THEN {} ELSE q.mirrors]]
    /\ UNCHANGED <<spiegel, aptlyVars, metaVars, job, syncs, apiVars, breaks>>

PackNext ==
    \/ Sync \/ SyncMirror \/ HoldPart \/ DropPart \/ BackMirror \/ ChangeOwn \/ JobFails
    \/ \E a \in Names : Hold(a) \/ Drop(a) \/ Back(a)
    \/ \E d \in Debs : Upload(d) \/ Delete(d)
    \/ Asks \/ Answered \/ StartBuild \/ BuildEnds \/ Deploy
    \/ \E m \in {"aus", "zuerst", "nur"}, a \in Names \cup {""} : Sets(m, a)
    \/ \E d \in Desks : PutsBack(d) \/ WritesSources(d)

PackSpec == PackInit /\ [][PackNext]_packageVars

----------------------------------------------------------------------------
\* A name that is not held can be held: nothing of a former state of that name is left in
\* aptly, which would refuse it for ever (snapshot_anlegen, snapshot_loeschen).
FreeNames ==
    Unlocked => \A a \in Names \ HeldNames, i \in Parts : Fest(i, a) \notin snapshots

\* Between jobs the notes say what is delivered, which the next state held is made of; so
\* the state held is the state delivered (_abgleich, zurueckdrehen, snapshot_anlegen).
HeldAsDelivered == Unlocked => aktuell = delivers /\ repo = served

StatesKept == FreeNames /\ HeldAsDelivered

\* A state that a build was told stays as long as it is built; and the state chosen is told to
\* the next build whenever it is held.  One that is not, or no longer, is chosen in vain: the
\* build draws from the sources of its image (einstellungen, fuer_container).
BuildsFromHeld ==
    /\ \A b \in builds : b[2] => <<b[1], OwnPart>> \in shown
    /\ target \in HeldNames => \A q \in cache : target \in q.states

\* A desk whose image's sources are put aside has mirrors in their place.
SourcesRemain == \A d \in Desks : ~desks[d].image => desks[d].mirrors # {}

\* Both: what a build and a desk were told to draw from is there.
SourcesHold == BuildsFromHeld /\ SourcesRemain
=============================================================================
