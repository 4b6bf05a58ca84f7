------------------------------- MODULE AiTools -------------------------------
(***************************************************************************)
(* IDE-AI (Continue in the editors) and opencode in one container.  Every  *)
(* start and every resumption of it writes the configurations at once; a   *)
(* thread of the agent for each tool fetches its package, installs it and, *)
(* for IDE-AI, links it and writes the configuration again.  The user may  *)
(* have IDE-AI repaired, which waits for that thread.                      *)
(***************************************************************************)
EXTENDS Integers

CONSTANTS
    Ide, Code,      \* IDE-AI and opencode
    Repair,         \* neu_einrichten
    Settings,       \* versions of the configuration, from 1; 0 means off or not for this user
    Releases,       \* versions of the packages, from 1; 0 means there is none
    HaltsWait,      \* the container is halted only when no thread works in it
    MaxChanges,     \* changes by administrators and the user
    MaxMistakes

AiToolsAssumption ==
    /\ Ide # Code /\ Repair \notin {Ide, Code}
    /\ Settings \subseteq Nat \ {0} /\ Releases \subseteq Nat \ {0}
    /\ HaltsWait \in BOOLEAN /\ {MaxChanges, MaxMistakes} \subseteq Nat

VARIABLES
    told,           \* what fuer_sitzung answers for each tool
    newest,         \* version of each package in the repository
    config,         \* of each tool in the container
    installed,      \* version of each package in it
    linked,         \* the editors' links to IDE-AI
    place,          \* the container and the request that starts it
    helpers,        \* the threads and the repair
    lock,           \* _dpkg_sperren of the container
    apt,            \* the user runs apt or dpkg in it
    last,           \* history: what the latest start or repair has told the container
    changes, mistakes \* count what the bounds limit

toolVars == <<told, newest, config, installed, linked, place, helpers, lock, apt, last, changes, mistakes>>

Tools == {Ide, Code}
Workers == Tools \cup {Repair}
ToolOf(w) == IF w = Repair THEN Ide ELSE w
Own == -1 \* a configuration of the user (IDE-AI) or of the image (opencode)
NoHelp == [pc |-> "idle", told |-> 0, soll |-> 0]
Nothing == [t \in Tools |-> 0]

ToolTypeOK ==
    /\ told \in [Tools -> Settings \cup {0}]
    /\ last \in [Tools -> [told : Settings \cup {0}, soll : Releases \cup {0}]]
    /\ newest \in [Tools -> Releases \cup {0}] /\ installed \in [Tools -> Releases \cup {0}]
    /\ config \in [Tools -> Settings \cup {0, Own}]
    /\ linked \in BOOLEAN /\ apt \in BOOLEAN
    /\ place \in [pc : {"down", "ide", "code", "up"}, told : [Tools -> Settings \cup {0}],
                  soll : [Tools -> Releases \cup {0}]]
    /\ helpers \in [Workers ->
          [pc : {"idle", "wait", "clear", "look", "fetch", "lock", "dpkg", "again"},
           told : Settings \cup {0}, soll : Releases \cup {0}]]
    /\ lock \in Workers \cup {"free"}
    /\ changes \in 0 .. MaxChanges /\ mistakes \in 0 .. MaxMistakes

ToolInit ==
    /\ told \in [Tools -> Settings \cup {0}]
    /\ newest \in [Tools -> Releases \cup {0}]
    /\ config \in {[Nothing EXCEPT ![Code] = c] : c \in {0, Own}} /\ installed = Nothing /\ linked = FALSE
    /\ place = [pc |-> "down", told |-> Nothing, soll |-> Nothing]
    /\ helpers = [w \in Workers |-> NoHelp]
    /\ lock = "free" /\ apt = FALSE
    /\ last = [t \in Tools |-> [told |-> 0, soll |-> 0]]
    /\ changes = 0 /\ mistakes = 0

Change == changes < MaxChanges /\ changes' = changes + 1
Mistake == mistakes < MaxMistakes /\ mistakes' = mistakes + 1
Up == place.pc # "down"
AtWork(t) == \E w \in Workers : ToolOf(w) = t /\ helpers[w].pc \notin {"idle", "wait"} \* _laufend
Helps(w, r) == helpers' = [helpers EXCEPT ![w] = r]
HelpGoes(w, pc) == Helps(w, [helpers[w] EXCEPT !.pc = pc])

\* _KONFIG and _DATEIEN: what is not OTA's stays; the links exist with the package only.
Configured(t, what) ==
    /\ config' = [config EXCEPT ![t] = IF @ = Own THEN Own ELSE what]
    /\ linked' = IF t = Ide THEN what # 0 /\ installed[Ide] # 0 ELSE linked

(* Settings, repository and the user.                                       *)

Save(t, what) == \* or the user enters or leaves a group of the tool
    /\ Change
    /\ what # told[t]
    /\ told' = [told EXCEPT ![t] = what]
    /\ UNCHANGED <<newest, config, installed, linked, place, helpers, lock, apt, last, mistakes>>

Deliver(t, r) ==
    /\ Change
    /\ r # newest[t]
    /\ newest' = [newest EXCEPT ![t] = r]
    /\ UNCHANGED <<told, config, installed, linked, place, helpers, lock, apt, last, mistakes>>

TakeOver == \* the user deletes OTA's first line
    /\ Change
    /\ place.pc = "up" /\ config[Ide] \in Settings
    /\ config' = [config EXCEPT ![Ide] = Own]
    /\ UNCHANGED <<told, newest, installed, linked, place, helpers, lock, apt, last, mistakes>>

UseApt ==
    /\ place.pc = "up"
    /\ apt \/ \A w \in Workers : helpers[w].pc # "dpkg"
    /\ IF apt THEN UNCHANGED changes ELSE Change
    /\ apt' = ~apt
    /\ UNCHANGED <<told, newest, config, installed, linked, place, helpers, lock, last, mistakes>>

(* Start and resumption.                                                    *)

Resume == \* fuer_sitzung of both, the container runs
    /\ place.pc = "down"
    /\ place' = [pc |-> "ide", told |-> told, soll |-> newest]
    /\ UNCHANGED <<told, newest, config, installed, linked, helpers, lock, apt, last, changes, mistakes>>

Equip(t, pc, next) == \* im_container: no second thread for the same container
    /\ place.pc = pc
    /\ Configured(t, place.told[t])
    /\ last' = [last EXCEPT ![t] = [told |-> place.told[t], soll |-> place.soll[t]]]
    /\ IF place.told[t] = 0 \/ AtWork(t) THEN UNCHANGED helpers
       ELSE Helps(t, [pc |-> "look", told |-> place.told[t], soll |-> place.soll[t]])
    /\ place' = [place EXCEPT !.pc = next]
    /\ UNCHANGED <<told, newest, installed, lock, apt, changes, mistakes>>

Halt ==
    /\ place.pc = "up"
    /\ HaltsWait => \A w \in Workers : helpers[w].pc = "idle"
    /\ place' = [place EXCEPT !.pc = "down"]
    /\ apt' = FALSE
    /\ UNCHANGED <<told, newest, config, installed, linked, helpers, lock, last, changes, mistakes>>

(* The threads.                                                             *)

\* A newer version stays, unless the repair forces ours.
Due(w) ==
    LET soll == helpers[w].soll  ist == installed[ToolOf(w)] IN
    soll # 0 /\ (w = Repair \/ ist < soll)

Look(w) ==
    /\ helpers[w].pc = "look" /\ Up
    /\ IF Due(w) THEN HelpGoes(w, "fetch") ELSE IF w = Repair THEN HelpGoes(w, "again") ELSE Helps(w, NoHelp)
    /\ UNCHANGED <<told, newest, config, installed, linked, place, lock, apt, last, changes, mistakes>>

Leaves(w) == IF w = Repair THEN HelpGoes(w, "again") ELSE Helps(w, NoHelp) \* without a new package

Fetch(w) == \* _datei and _hinein
    /\ helpers[w].pc = "fetch" /\ Up
    /\ HelpGoes(w, "lock")
    /\ UNCHANGED <<told, newest, config, installed, linked, place, lock, apt, last, changes, mistakes>>

FetchFails(w) ==
    /\ helpers[w].pc = "fetch" /\ Mistake
    /\ Leaves(w)
    /\ UNCHANGED <<told, newest, config, installed, linked, place, lock, apt, last, changes>>

Enter(w) ==
    /\ helpers[w].pc = "lock" /\ lock = "free"
    /\ lock' = w
    /\ HelpGoes(w, "dpkg")
    /\ UNCHANGED <<told, newest, config, installed, linked, place, apt, last, changes, mistakes>>

Install(w) == \* waits as long as the user's apt runs
    /\ helpers[w].pc = "dpkg" /\ Up /\ ~apt
    /\ installed' = [installed EXCEPT ![ToolOf(w)] = helpers[w].soll]
    /\ lock' = "free"
    /\ HelpGoes(w, "again")
    /\ UNCHANGED <<told, newest, config, linked, place, apt, last, changes, mistakes>>

InstallFails(w) == \* dpkg refuses, or the user's apt runs for more than five minutes
    /\ helpers[w].pc = "dpkg" /\ Up /\ Mistake
    /\ lock' = "free"
    /\ Leaves(w)
    /\ UNCHANGED <<told, newest, config, installed, linked, place, apt, last, changes>>

\* The repair counts as the latest the container was told.
Says(w) == IF w = Repair
           THEN [last EXCEPT ![Ide] = [told |-> helpers[w].told, soll |-> helpers[w].soll]] ELSE last

AgainIfRepair(w) == \* a thread leaves the links to the next start
    /\ helpers[w].pc = "again" /\ Up
    /\ Helps(w, NoHelp)
    /\ IF w # Repair THEN UNCHANGED <<config, linked>> ELSE Configured(Ide, helpers[w].told)
    /\ last' = Says(w)
    /\ UNCHANGED <<told, newest, installed, place, lock, apt, changes, mistakes>>

\* Only now is there something to link: once more what this thread was told.
Again(w) ==
    /\ helpers[w].pc = "again" /\ Up
    /\ Helps(w, NoHelp)
    /\ IF w = Code THEN UNCHANGED <<config, linked>> ELSE Configured(Ide, helpers[w].told)
    /\ last' = Says(w)
    /\ UNCHANGED <<told, newest, installed, place, lock, apt, changes, mistakes>>

Ends(w) == \* a call into a container that does not run ends the thread
    /\ helpers[w].pc \in {"clear", "look", "fetch", "dpkg", "again"} /\ ~Up
    /\ lock' = IF lock = w THEN "free" ELSE lock
    /\ Helps(w, NoHelp)
    /\ UNCHANGED <<told, newest, config, installed, linked, place, apt, last, changes, mistakes>>

(* The repair.                                                              *)

Ask ==
    /\ place.pc = "up" /\ helpers[Repair].pc = "idle"
    /\ told[Ide] # 0
    /\ Helps(Repair, [pc |-> "wait", told |-> told[Ide], soll |-> newest[Ide]])
    /\ UNCHANGED <<told, newest, config, installed, linked, place, lock, apt, last, changes, mistakes>>

Begin == \* once the thread has ended, or not at all (Beschaeftigt)
    /\ helpers[Repair].pc = "wait"
    /\ IF AtWork(Ide) THEN Helps(Repair, NoHelp) ELSE HelpGoes(Repair, "clear")
    /\ UNCHANGED <<told, newest, config, installed, linked, place, lock, apt, last, changes, mistakes>>

Clear == \* _REPARIEREN: the user's configuration is put aside
    /\ helpers[Repair].pc = "clear" /\ Up
    /\ config' = [config EXCEPT ![Ide] = IF @ = Own THEN 0 ELSE @]
    /\ linked' = FALSE
    /\ HelpGoes(Repair, "look")
    /\ UNCHANGED <<told, newest, installed, place, lock, apt, last, changes, mistakes>>

Restart == \* of the agent: its threads and locks are gone
    /\ Mistake
    /\ place.pc \in {"down", "up"}
    /\ helpers' = [w \in Workers |-> NoHelp]
    /\ lock' = "free"
    /\ UNCHANGED <<told, newest, config, installed, linked, place, apt, last, changes>>

ToolNext ==
    \/ \E t \in Tools : \E what \in Settings \cup {0} : Save(t, what)
    \/ \E t \in Tools : \E r \in Releases \cup {0} : Deliver(t, r)
    \/ TakeOver \/ UseApt
    \/ Resume \/ Equip(Ide, "ide", "code") \/ Equip(Code, "code", "up") \/ Halt
    \/ \E w \in Workers : \/ Look(w) \/ Fetch(w) \/ FetchFails(w) \/ Enter(w)
                          \/ Install(w) \/ InstallFails(w) \/ Again(w) \/ Ends(w)
    \/ Ask \/ Begin \/ Clear
    \/ Restart

ToolSpec == ToolInit /\ [][ToolNext]_toolVars

(* What the tools are when nothing works in the container any more.         *)

Quiet == place.pc = "up" /\ \A w \in Workers : helpers[w].pc = "idle"

\* The container holds what its latest start or repair was told, nothing when the tool is off
\* ("Dann verschwinden die Verknüpfungen"), or what is the user's or the image's.  Both tools
\* have come, whatever the other has installed meanwhile, and are linked, unless a fetch, an
\* installation or the agent has failed.
Settled ==
    Quiet =>
        /\ \A t \in Tools : config[t] \in {last[t].told, 0, Own}
        /\ mistakes = 0 =>
              /\ \A t \in Tools : /\ config[t] \in {last[t].told, Own}
                                 /\ last[t].told # 0 => installed[t] >= last[t].soll
              /\ linked = (last[Ide].told # 0 /\ installed[Ide] # 0)
==============================================================================
