------------------------------ MODULE Clipboard ------------------------------
(***************************************************************************)
(* The clipboard bridge: a loop in the container that mirrors what is      *)
(* copied on one display of a desk to the others.  The n-th copy of the    *)
(* user stands for its content, 0 for an empty clipboard.                  *)
(***************************************************************************)
EXTENDS Integers, FiniteSets

CONSTANTS
    Displays,       \* in the order in which the loop looks at them
    First,          \* the displays that are open when the model starts
    Late,           \* a write to a display may still be under way in the next round
    MaxCopies, MaxInstalls

ClipboardAssumption ==
    /\ Displays \subseteq Nat \ {0} /\ First \subseteq Displays /\ First # {}
    /\ Late \in BOOLEAN /\ {MaxCopies, MaxInstalls} \subseteq Nat

VARIABLES
    open,           \* displays with a socket
    contents,       \* the clipboard of each display
    writes,         \* xclip processes that have not taken the selection yet
    bridge,         \* the loop: what it has yet to look at, the content it found, last_hash
    copies,         \* copies made
    crowded,        \* a copy was made before the one before it had arrived everywhere
    installs        \* how often the bridge was installed again

clipVars == <<open, contents, writes, bridge, copies, crowded, installs>>

Unknown == -1       \* last_hash of a new bridge
Fresh == [pc |-> "wait", all |-> {}, left |-> {}, source |-> 0, last |-> Unknown]

ClipTypeOK ==
    /\ open \subseteq Displays
    /\ contents \in [Displays -> 0 .. MaxCopies]
    /\ writes \subseteq Displays \X (1 .. MaxCopies)
    /\ bridge \in [pc : {"wait", "scan", "spread"}, all : SUBSET Displays,
                   left : SUBSET Displays, source : 0 .. MaxCopies, last : -1 .. MaxCopies]
    /\ copies \in 0 .. MaxCopies /\ crowded \in BOOLEAN /\ installs \in 0 .. MaxInstalls

ClipInit ==
    /\ open = First
    /\ contents = [d \in Displays |-> 0]
    /\ writes = {} /\ bridge = Fresh
    /\ copies = 0 /\ crowded = FALSE /\ installs = 0

InStep == writes = {} /\ \A d \in open : contents[d] = copies

\* The user copies something on a display.
Copy(d) ==
    /\ d \in open /\ copies < MaxCopies
    /\ copies' = copies + 1
    /\ contents' = [contents EXCEPT ![d] = copies + 1]
    /\ crowded' = (crowded \/ ~InStep)
    /\ UNCHANGED <<open, writes, bridge, installs>>

Open(d) == \* a display that an application gets has an empty clipboard
    /\ d \notin open
    /\ open' = open \cup {d}
    /\ UNCHANGED <<contents, writes, bridge, copies, crowded, installs>>

(* The loop.                                                                *)

Begin ==
    /\ bridge.pc = "wait"
    /\ Late \/ writes = {}
    /\ bridge' = [bridge EXCEPT !.pc = "scan", !.all = open, !.left = open]
    /\ UNCHANGED <<open, contents, writes, copies, crowded, installs>>

\* The first display whose clipboard is not what was spread last is the source; an empty one
\* is passed over.
LookOnwards(d) == \* as if only the displays after the source were written
    /\ bridge.pc = "scan" /\ d \in bridge.left /\ \A e \in bridge.left : d <= e
    /\ bridge' = IF contents[d] \in {0, bridge.last} THEN [bridge EXCEPT !.left = @ \ {d}]
                 ELSE [bridge EXCEPT !.pc = "spread", !.left = @ \ {d}, !.source = contents[d],
                                     !.last = contents[d]]
    /\ UNCHANGED <<open, contents, writes, copies, crowded, installs>>
Look(d) ==
    /\ bridge.pc = "scan" /\ d \in bridge.left /\ \A e \in bridge.left : d <= e
    /\ bridge' = IF contents[d] \in {0, bridge.last} THEN [bridge EXCEPT !.left = @ \ {d}]
                 ELSE [bridge EXCEPT !.pc = "spread", !.left = bridge.all \ {d}, !.source = contents[d],
                                     !.last = contents[d]]
    /\ UNCHANGED <<open, contents, writes, copies, crowded, installs>>

NothingNew ==
    /\ bridge.pc = "scan" /\ bridge.left = {}
    /\ bridge' = [bridge EXCEPT !.pc = "wait", !.all = {}]
    /\ UNCHANGED <<open, contents, writes, copies, crowded, installs>>

Spread == \* write_clip on every other display, in the background
    /\ bridge.pc = "spread"
    /\ writes' = writes \cup {<<d, bridge.source>> : d \in bridge.left}
    /\ bridge' = [bridge EXCEPT !.pc = "wait", !.all = {}, !.left = {}, !.source = 0]
    /\ UNCHANGED <<open, contents, copies, crowded, installs>>

Written(w) ==
    /\ w \in writes
    /\ writes' = writes \ {w}
    /\ contents' = [contents EXCEPT ![w[1]] = w[2]]
    /\ UNCHANGED <<open, bridge, copies, crowded, installs>>

\* Every start of an application installs the bridge again; the new one knows nothing.
Install ==
    /\ installs < MaxInstalls
    /\ installs' = installs + 1
    /\ bridge' = Fresh
    /\ UNCHANGED <<open, contents, writes, copies, crowded>>

ClipNext ==
    \/ \E d \in Displays : Copy(d) \/ Open(d) \/ Look(d)
    \/ Begin \/ NothingNew \/ Spread \/ Install
    \/ \E w \in Displays \X (1 .. MaxCopies) : Written(w)

Loop == Begin \/ (\E d \in Displays : Look(d)) \/ NothingNew \/ Spread
ClipFairness ==
    /\ WF_clipVars(Loop)
    /\ \A w \in Displays \X (1 .. MaxCopies) : WF_clipVars(Written(w))

ClipSpec == ClipInit /\ [][ClipNext]_clipVars
ClipFairSpec == ClipSpec /\ ClipFairness

\* The bridge never puts an older copy over a newer one, unless the user copied again before
\* the copy before had arrived, or the bridge was installed again in between (the comment
\* above last_hash).
WritesNewer == \A d \in Displays : contents'[d] >= contents[d] \/ crowded' \/ installs > 0
NoOlderCopy == [][WritesNewer]_clipVars

\* In the end all open displays hold the same ("Die Bruecke spiegelt die CLIPBOARD-Auswahl
\* zwischen allen offenen Displays").
Mirrored == <>[](\A d, e \in open : contents[d] = contents[e])
=============================================================================
