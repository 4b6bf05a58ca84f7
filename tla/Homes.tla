-------------------------------- MODULE Homes --------------------------------
(***************************************************************************)
(* What _starten promises about a home directory: it is made for one       *)
(* machine.  A session moves into a home that is empty, and a home is      *)
(* handed on only after the session that lived there has left.             *)
(***************************************************************************)
CONSTANTS Homes, Users

VARIABLE users    \* users[h]: the live sessions that write to home h

Init == users = [h \in Homes |-> {}]

MoveIn(h, s) ==
    /\ users[h] = {}
    /\ users' = [users EXCEPT ![h] = {s}]

\* The reaper closes several sessions in one commit.
MoveOut(H) == users' = [h \in Homes |-> IF h \in H THEN {} ELSE users[h]]

Next == \/ \E h \in Homes, s \in Users : MoveIn(h, s)
        \/ \E H \in SUBSET Homes : MoveOut(H)

Spec == Init /\ [][Next]_users

TypeOK == users \in [Homes -> SUBSET Users]

\* No home has two sessions ("Zwei laufende Container auf einem Zuhause
\* vertragen sich nicht", _starten).
OneUserPerHome == \A h \in Homes : \A r, s \in users[h] : r = s
=============================================================================
