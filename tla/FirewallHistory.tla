--------------------------- MODULE FirewallHistory ---------------------------
(* FirewallSync with a history variable: the push that has been alone since it   *)
(* read what it pushes, with no change and no fault in between.                   *)
EXTENDS FirewallSync

VARIABLE solo       \* the thread that pushes alone, or None

hvars == <<vars, solo>>

Alone(t) == \A a \in Actors \ {t} : actors[a].pc = "idle"
Undisturbed(t) ==
    /\ UNCHANGED <<forwards, rows, docker, faults>>
    /\ \A a \in Actors \ {t} : actors'[a] = actors[a]

Record ==
    solo' = IF \E t \in Threads : ReadWanted(t) /\ Alone(t)
            THEN CHOOSE t \in Threads : ReadWanted(t)
            ELSE IF solo # None /\ Undisturbed(solo) /\ actors'[solo].pc # "idle"
            THEN solo
            ELSE None

HInit == Init /\ solo = None
HNext == Next /\ Record
HSpec == HInit /\ [][HNext]_hvars
HFairSpec == HSpec /\ Fairness

Reachable(s) == docker[s].subnet # None /\ docker[s].container = "running"

\* The rules are those of the forwards that are open and of the sessions that run.
RulesRight(R) ==
    /\ \A r \in R :
         /\ Open(r.port)
         /\ \E s \in RunningIn(forwards[r.port].place) :
              Reachable(s) /\ docker[s].subnet = r.subnet
    /\ \A p \in Ports :
         /\ Open(p)
         /\ RunningIn(forwards[p].place) # {}
         /\ \A s \in RunningIn(forwards[p].place) : Reachable(s)
         => \E r \in R : r.port = p

\* What is in force is what the database and Docker say.
Agrees ==
    /\ router.inForce # Lost
    /\ router.inForce.nets = UsedSubnets
    /\ RulesRight(router.inForce.rules)

\* Whatever was lost, reordered, overwritten or forgotten before: the next push
\* that gets through by itself makes rules and reality agree (firewall/otafw/main.py:
\* a lost call heals itself the next time, because the whole state is sent).
HealsNextTime ==
    [][\A t \in Threads : Enforce(t) /\ solo = t => Agrees']_hvars
=============================================================================
