-------------------------------- MODULE MCDesk --------------------------------
(* Small instances of what a desk consists of, side by side: its image, its      *)
(* applications, its clipboard, its scripts and its subnet.  focus says which of *)
(* them moves, the others stay as they begin.  Applications, clipboard, scripts  *)
(* and subnet are the components themselves, with their own properties, and move  *)
(* when focus is "app", "clipboard", "script" and "net".                          *)
EXTENDS NetLeases, OnceScripts, Clipboard, AppStreams

VARIABLES
    focus,
    rows, templates, images, jobs, watched, actors, runs, faults

buildVars == <<rows, templates, images, jobs, watched, actors, runs, faults>>
vars == <<focus, buildVars, appVars, clipVars, onceVars, leaseVars>>

NoneFixed == [a \in {"a", "b"} |-> 0]

Image == INSTANCE Builds WITH Templates <- {"A"}, First <- "A", Versions <- {1, 2}, Keep <- 1,
    Threads <- {"x"}, Loop <- "loop", Serial <- FALSE, Calm <- TRUE, Cleans <- FALSE, MaxRuns <- 2, MaxFaults <- 1
\* The bridge with displays that are opened later.
Opening == INSTANCE Clipboard WITH Displays <- {1, 2, 3}, First <- {1}, Late <- FALSE,
    MaxCopies <- 2, MaxInstalls <- 1

ASSUME Image!BuildsAssumption /\ AppStreamsAssumption
ASSUME ClipboardAssumption /\ Opening!ClipboardAssumption
ASSUME OnceScriptsAssumption /\ NetLeasesAssumption

Init ==
    /\ focus \in {"image", "app", "clipboard", "opening", "script", "net"}
    /\ Image!BuildsInit /\ AppInit /\ OnceInit /\ LeaseInit
    /\ IF focus = "opening" THEN Opening!ClipInit ELSE ClipInit

Next ==
    \/ /\ focus = "image" /\ Image!BuildsNext
       /\ UNCHANGED <<focus, appVars, clipVars, onceVars, leaseVars>>
    \/ /\ focus = "app" /\ AppNext
       /\ UNCHANGED <<focus, buildVars, clipVars, onceVars, leaseVars>>
    \/ /\ focus = "clipboard" /\ ClipNext
       /\ UNCHANGED <<focus, buildVars, appVars, onceVars, leaseVars>>
    \/ /\ focus = "opening" /\ Opening!ClipNext
       /\ UNCHANGED <<focus, buildVars, appVars, onceVars, leaseVars>>
    \/ /\ focus = "script" /\ OnceNext
       /\ UNCHANGED <<focus, buildVars, appVars, clipVars, leaseVars>>
    \/ /\ focus = "net" /\ LeaseNext
       /\ UNCHANGED <<focus, buildVars, appVars, clipVars, onceVars>>

Moves == focus = "clipboard" /\ Loop
Spec ==
    /\ Init /\ [][Next]_vars
    /\ Image!BuildsFairness /\ AppFairness
    /\ WF_clipVars(Moves) /\ \A w \in {1, 2, 3} \X (1 .. 3) : WF_clipVars(Written(w))

\* The types of the component that moves.
TypeOK ==
    /\ focus = "image" => Image!BuildsTypeOK
    /\ AppTypeOK
    /\ focus \in {"clipboard", "opening"} => ClipTypeOK
    /\ focus = "script" => OnceTypeOK
    /\ focus = "net" => LeaseTypeOK

\* Builds: a build or freeze that is booked as running ends.
BuildsEnd == (focus = "image" /\ Image!Underway) ~> (~Image!Underway \/ faults > 0)

\* Clipboard: in the end all displays hold the same, when they are open from the beginning.
OneClipboard == focus = "clipboard" => Mirrored
=============================================================================
