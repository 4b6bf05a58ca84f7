------------------------------ MODULE MCSessions ------------------------------
(* Small instances of Sessions: one user; "desk" and "code" are standard       *)
(* templates that share the user's home, "lab" is a root template.             *)
EXTENDS SessionsHomes, TLC

CONSTANTS s1, s2, s3, c1, c2, c3, t1, t2

TwoPlaces == {"desk", "code"}
OneDesk == {"desk"}
RootPlace == {"lab"}
RootAndDesk == {"desk", "lab"}

ClassOf == [p \in Places |-> IF p = "lab" THEN "root" ELSE "standard"]
OwnerOf == [p \in Places |-> "anna"]
HomeOf == [p \in Places |-> IF p = "lab" THEN "home of lab" ELSE "home of anna"]
Stops == [p \in Places |-> "stop"]
Deletes == [p \in Places |-> "delete"]

Symmetry == Permutations(Sessions) \cup Permutations(Containers)
            \cup Permutations(Threads)
=============================================================================
