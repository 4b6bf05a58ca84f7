------------------------------ MODULE Skeletons ------------------------------
(***************************************************************************)
(* What a home begins with.  Each template has a tree of files at the      *)
(* agent.  A start that finds the home empty brings the whole tree, every  *)
(* other start only the enforced paths.  Each application has a tree of    *)
(* its own, brought once, before its first start in this home.  One home,  *)
(* one template and one application; administrators edit the trees at any  *)
(* time, the user and the container write into the home.                   *)
(***************************************************************************)
EXTENDS Integers, FiniteSets

CONSTANTS
    Files,
    Folders,        \* at the top of the home
    Top,            \* the home itself
    FolderOf,       \* of each file
    EtcSkel,        \* files of /etc/skel in the image
    Writes,         \* what the container writes into a new home by itself
    Root,           \* a root workspace, which is halted and resumed
    MaxEdits,       \* edits by administrators and the user
    MaxSlips       \* starts that fail and copies that fail

SkeletonsAssumption ==
    /\ Top \notin Files \cup Folders /\ Files \cap Folders = {}
    /\ FolderOf \in [Files -> Folders \cup {Top}]
    /\ EtcSkel \subseteq {f \in Files : FolderOf[f] = Top} /\ Writes \subseteq Files
    /\ Root \in BOOLEAN /\ {MaxEdits, MaxSlips} \subseteq Nat

VARIABLES
    tree,           \* files and folders of the template's skeleton
    subtree,        \* files of the application's
    enforce,        \* skeleton_enforce of the template
    heim,           \* content of each file, kind of each folder
    marker,         \* ~/.ota/app-skeleton/<app>
    desk,           \* the start of the container and what it is about to copy
    app,            \* the start of the application
    used,           \* history: the user has had this home, the application its tree
    edits, slips \* count what the bounds limit

skeletonVars == <<tree, subtree, enforce, heim, marker, desk, app, used, edits, slips>>

Entries == Files \cup Folders
Inside(d) == {f \in Files : FolderOf[f] = d}
TopOf(e) == IF e \in Folders \/ FolderOf[e] = Top THEN e ELSE FolderOf[e]
\* "skeleton" is the present content of the skeleton, "old" an earlier one; a folder may
\* have become a file.
EmptyHome == [e \in Entries |-> "none"]
Off == [pc |-> "off", fresh |-> FALSE, list |-> {}, todo |-> {}, due |-> {}]
NoAppStart == [pc |-> "idle", todo |-> {}, came |-> FALSE]

SkeletonTypeOK ==
    /\ tree \subseteq Entries /\ \A f \in tree \cap Files : FolderOf[f] \in tree \cup {Top}
    /\ subtree \subseteq Files
    /\ enforce \subseteq Entries
    /\ heim \in [Entries -> {"none", "image", "own", "skeleton", "old", "app", "folder", "file"}]
    /\ \A f \in Files : heim[f] \in {"none", "image", "own", "skeleton", "old", "app"}
    /\ \A d \in Folders : /\ heim[d] \in {"none", "folder", "file"}
                          /\ heim[d] # "folder" => \A f \in Inside(d) : heim[f] = "none"
    /\ marker \in BOOLEAN
    /\ desk \in [pc : {"off", "asked", "made", "copying", "on", "halted"}, fresh : BOOLEAN,
                 list : SUBSET Entries, todo : SUBSET Entries, due : SUBSET Files]
    /\ app \in [pc : {"idle", "copying"}, todo : SUBSET Entries, came : BOOLEAN]
    /\ used \in [home : BOOLEAN, app : BOOLEAN]
    /\ edits \in 0 .. MaxEdits /\ slips \in 0 .. MaxSlips

SkeletonInit ==
    /\ tree \in {t \in SUBSET Entries : \A f \in t \cap Files : FolderOf[f] \in t \cup {Top}}
    /\ subtree = {}
    /\ enforce \in SUBSET tree
    /\ heim = EmptyHome
    /\ marker = FALSE
    /\ desk = Off
    /\ app = NoAppStart
    /\ used = [home |-> FALSE, app |-> FALSE]
    /\ edits = 0 /\ slips = 0

Edit == edits < MaxEdits /\ edits' = edits + 1
Trouble == slips < MaxSlips /\ slips' = slips + 1
Trees == <<tree, subtree, enforce>>
\* A file of the skeleton changes: what a home has of it is no longer its present content.
Aged(h, f) == [h EXCEPT ![f] = IF @ = "skeleton" THEN "old" ELSE @]

(* The administration of the skeleton.                                      *)

SaveFile(f) ==
    /\ Edit
    /\ FolderOf[f] \in tree \cup {Top}
    /\ tree' = tree \cup {f}
    /\ heim' = Aged(heim, f)
    /\ desk' = [desk EXCEPT !.due = @ \ {f}]
    /\ UNCHANGED <<subtree, enforce, marker, app, used, slips>>

MakeFolder(d) ==
    /\ Edit
    /\ tree' = tree \cup {d}
    /\ UNCHANGED <<subtree, enforce, heim, marker, desk, app, used, slips>>

RemoveEntry(e) == \* and what was enforced of it
    LET gone == {e} \cup (IF e \in Folders THEN Inside(e) ELSE {}) IN
    /\ Edit
    /\ e \in tree
    /\ tree' = tree \ gone
    /\ enforce' = enforce \ gone
    /\ desk' = [desk EXCEPT !.due = @ \ gone]
    /\ UNCHANGED <<subtree, heim, marker, app, used, slips>>

SaveForApp(f) ==
    /\ Edit
    /\ f \notin subtree
    /\ subtree' = subtree \cup {f}
    /\ UNCHANGED <<tree, enforce, heim, marker, desk, app, used, slips>>

Enforce(list) == \* update_template takes the list as it is, however old the form
    /\ Edit
    /\ enforce' = list
    /\ UNCHANGED <<tree, subtree, heim, marker, desk, app, used, slips>>

(* Into the home.                                                           *)

\* What the container and /etc/skel put where nothing is.
Filled(h, files) ==
    LET news == {f \in files : h[f] = "none" /\ (FolderOf[f] # Top => h[FolderOf[f]] # "file")} IN
    [e \in Entries |-> IF e \in news THEN "image"
                       ELSE IF e \in Folders /\ \E f \in news : FolderOf[f] = e THEN "folder"
                       ELSE h[e]]

Bring(h, files, what) == [e \in Entries |-> IF e \in files THEN what ELSE h[e]]

\* docker cp of an entry to the folder it lies in.  Of a file whose folder is missing there
\* docker makes a file with the folder's name; a folder does not replace a file.
Copied(h, e, source, what) ==
    CASE e \in Folders /\ h[e] = "file" -> h
      [] e \in Folders /\ h[e] # "file" -> Bring([h EXCEPT ![e] = "folder"], source \cap Inside(e), what)
      [] e \in Files /\ TopOf(e) # e /\ h[TopOf(e)] # "folder" -> [h EXCEPT ![TopOf(e)] = "file"]
      [] OTHER -> Bring(h, {e}, what)

(* The start of a container.                                                *)

StartAsked == \* the API sends skeleton_enforce along
    /\ desk.pc = "off"
    /\ desk' = [Off EXCEPT !.pc = "asked", !.list = enforce]
    /\ UNCHANGED <<Trees, heim, marker, app, used, edits, slips>>

UnusedLate(before, after, marked) == after = EmptyHome /\ ~marked \* asks once the container runs
Unused(before, after, marked) == before = EmptyHome /\ ~marked

StartMakes ==
    LET after == Filled(heim, Writes) IN
    /\ desk.pc = "asked"
    /\ heim' = after
    /\ desk' = [desk EXCEPT !.pc = "made", !.fresh = Unused(heim, after, marker)]
    /\ UNCHANGED <<Trees, marker, app, used, edits, slips>>

Sources(fresh, list) == IF fresh THEN {e \in tree : TopOf(e) = e} ELSE list \cap tree

StartEquips ==
    /\ desk.pc = "made"
    /\ heim' = Filled(heim, EtcSkel)
    /\ desk' = [desk EXCEPT !.pc = "copying", !.todo = Sources(desk.fresh, desk.list),
                            !.due = tree \cap Files]
    /\ UNCHANGED <<Trees, marker, app, used, edits, slips>>

StartCopies(e) == \* what has been removed meanwhile is passed over
    /\ desk.pc = "copying" /\ e \in desk.todo
    /\ heim' = IF e \in tree THEN Copied(heim, e, tree, "skeleton") ELSE heim
    /\ desk' = [desk EXCEPT !.todo = @ \ {e}]
    /\ UNCHANGED <<Trees, marker, app, used, edits, slips>>

CopyFails(e) == \* and the start goes on
    /\ Trouble
    /\ desk.pc = "copying" /\ e \in desk.todo
    /\ desk' = [desk EXCEPT !.todo = @ \ {e}]
    /\ UNCHANGED <<Trees, heim, marker, app, used, edits>>

StartEnds ==
    /\ desk.pc = "copying" /\ desk.todo = {}
    /\ desk' = [desk EXCEPT !.pc = "on"]
    /\ used' = [used EXCEPT !.home = TRUE]
    /\ UNCHANGED <<Trees, heim, marker, app, edits, slips>>

StartBreaks == \* the container goes, its home stays
    /\ Trouble
    /\ desk.pc \in {"made", "copying"}
    /\ desk' = Off
    /\ UNCHANGED <<Trees, heim, marker, app, used, edits>>

HaltDesk == \* in the middle of an application's start, too
    /\ desk.pc = "on"
    /\ desk' = IF Root THEN [desk EXCEPT !.pc = "halted"] ELSE Off
    /\ app' = NoAppStart
    /\ UNCHANGED <<Trees, heim, marker, used, edits, slips>>

ResumeDesk == \* fortsetzen: only what is missing of /etc/skel
    /\ desk.pc = "halted"
    /\ heim' = Filled(heim, EtcSkel)
    /\ desk' = [desk EXCEPT !.pc = "on"]
    /\ UNCHANGED <<Trees, marker, app, used, edits, slips>>

Discard == \* the halted container is deleted or set up anew
    /\ desk.pc = "halted"
    /\ desk' = Off
    /\ UNCHANGED <<Trees, heim, marker, app, used, edits, slips>>

HomeGoes == \* deleted, or restored to nothing
    /\ Edit
    /\ desk.pc = "off"
    /\ heim' = EmptyHome /\ marker' = FALSE
    /\ used' = [home |-> FALSE, app |-> FALSE]
    /\ UNCHANGED <<Trees, desk, app, slips>>

(* The start of an application.                                             *)
Comes(marked) == subtree # {} /\ ~marked

AppStarts(marked) ==
    /\ desk.pc = "on" /\ app.pc = "idle"
    /\ Comes(marked)
    /\ app' = [NoAppStart EXCEPT !.pc = "copying", !.todo = {TopOf(f) : f \in subtree}]
    /\ UNCHANGED <<Trees, heim, marker, desk, used, edits, slips>>

AppCopies(e) ==
    LET after == Copied(heim, e, subtree, "app") IN
    /\ app.pc = "copying" /\ e \in app.todo
    /\ heim' = after
    /\ app' = [app EXCEPT !.todo = @ \ {e}, !.came = @ \/ e \in Files \/ after[e] = "folder"]
    /\ UNCHANGED <<Trees, marker, desk, used, edits, slips>>

AppEnds(marked) == \* the marker, unless nothing came or writing it fails
    /\ app.pc = "copying" /\ app.todo = {}
    /\ marker' = (marker \/ marked)
    /\ IF marked = app.came THEN UNCHANGED slips ELSE app.came /\ Trouble
    /\ used' = [used EXCEPT !.app = @ \/ app.came]
    /\ app' = NoAppStart
    /\ UNCHANGED <<Trees, heim, desk, edits>>

(* The user.                                                                *)

UserWrites(f) ==
    /\ Edit
    /\ desk.pc = "on"
    /\ FolderOf[f] # Top => heim[FolderOf[f]] # "file"
    /\ heim' = Bring(IF FolderOf[f] = Top THEN heim ELSE [heim EXCEPT ![FolderOf[f]] = "folder"], {f}, "own")
    /\ UNCHANGED <<Trees, marker, desk, app, used, slips>>

UserRemoves(e) ==
    /\ Edit
    /\ desk.pc = "on"
    /\ heim[e] # "none"
    /\ heim' = Bring(heim, {e} \cup (IF e \in Folders THEN Inside(e) ELSE {}), "none")
    /\ UNCHANGED <<Trees, marker, desk, app, used, slips>>

SkeletonNext ==
    \/ \E f \in Files : SaveFile(f) \/ SaveForApp(f) \/ UserWrites(f)
    \/ \E d \in Folders : MakeFolder(d)
    \/ \E e \in Entries : RemoveEntry(e) \/ StartCopies(e) \/ CopyFails(e) \/ AppCopies(e) \/ UserRemoves(e)
    \/ \E list \in SUBSET Entries : Enforce(list)
    \/ StartAsked \/ StartMakes \/ StartEquips \/ StartEnds \/ StartBreaks
    \/ HaltDesk \/ ResumeDesk \/ Discard \/ HomeGoes
    \/ AppStarts(marker) \/ \E marked \in BOOLEAN : AppEnds(marked)

SkeletonSpec == SkeletonInit /\ [][SkeletonNext]_skeletonVars

(* What a user may rely on.                                                 *)

StartIsOver == desk.pc = "copying" /\ desk'.pc = "on"
Listed(f) == f \in desk.list \/ FolderOf[f] \in desk.list

\* Nobody begins with a bare desktop: at the first desktop a user gets, the home holds the
\* skeleton as it was when the start looked at it, but for what was edited since (apply).
AllThere == StartIsOver /\ ~used.home => \A f \in desk.due : heim[f] = "skeleton"

\* An enforced path is there as the skeleton has it after every start, if the home has its folder:
\* docker cp makes a file of the folder's name otherwise (_kopiere).
Arrives == StartIsOver => \A f \in desk.due : Listed(f) =>
    heim[f] = "skeleton" \/ (FolderOf[f] # Top /\ heim[FolderOf[f]] # "folder")

\* A home belongs to its user: what he has written is replaced by an enforced path only, or by
\* the application's tree the one time it comes (unless its marker could not be written).
OwnKept ==
    \A f \in Files : heim[f] = "own" /\ heim'[f] \in {"image", "skeleton", "app"} =>
        \/ desk.pc = "copying" /\ Listed(f)
        \/ app.pc = "copying" /\ (used.app => slips > 0)

\* Over all starts, halts, failures and edits of the trees: the user's own files are kept, and
\* while no copy and no start has failed the first start brings all and each start the enforced.
Kept == OwnKept /\ (slips = 0 => AllThere /\ Arrives)
BeginsRight == [][Kept]_skeletonVars
==============================================================================
