------------------------------ MODULE NetLeases ------------------------------
(***************************************************************************)
(* The subnet of a desk.  A user keeps one number for each template: table *)
(* net_leases.  A new lease is flushed in the transaction of the start and *)
(* committed when the container runs; the agent makes the network.         *)
(***************************************************************************)
EXTENDS Integers, FiniteSets

CONSTANTS
    Pairs,          \* a user and a template
    Pool,           \* number of subnets
    MaxLosses       \* networks that stay when a start fails or a container ends

NetLeasesAssumption ==
    /\ Pool \in Nat \ {0} /\ MaxLosses \in Nat
    /\ IsFiniteSet(Pairs) /\ "orphan" \notin Pairs

VARIABLES
    leases,         \* table net_leases, as committed
    opening,        \* starts: the number they have read or inserted
    networks,       \* subnets of the networks of Docker
    lastNumber,     \* the number a pair had the last time
    losses

leaseVars == <<leases, opening, networks, lastNumber, losses>>

Numbers == 0 .. Pool - 1
None == -1
Closed == [pc |-> "idle", number |-> None, new |-> FALSE]

LeaseTypeOK ==
    /\ leases \in [Pairs -> Numbers \cup {None}]
    /\ opening \in [Pairs -> [pc : {"idle", "flush", "network", "commit", "running", "refused"},
                              number : Numbers \cup {None}, new : BOOLEAN]]
    /\ networks \in [Numbers -> SUBSET (Pairs \cup {"orphan"})]
    /\ lastNumber \in [Pairs -> Numbers \cup {None}]
    /\ losses \in 0 .. MaxLosses

LeaseInit ==
    /\ leases = [p \in Pairs |-> None]
    /\ opening = [p \in Pairs |-> Closed]
    /\ networks = [n \in Numbers |-> {}]
    /\ lastNumber = [p \in Pairs |-> None]
    /\ losses = 0

Turn(p, r) == opening' = [opening EXCEPT ![p] = r]
Goto(p, pc) == Turn(p, [opening[p] EXCEPT !.pc = pc])
Smallest(S) == CHOOSE n \in S : \A m \in S : n <= m
FreeNumbers == Numbers \ {leases[p] : p \in Pairs}
FreeNets == {n \in Numbers : networks[n] = {}}

\* _subnetz: the lease, or the smallest number that no committed lease has.
Lease(p) ==
    /\ opening[p].pc = "idle"
    /\ Turn(p, IF leases[p] # None THEN [pc |-> "network", number |-> leases[p], new |-> FALSE]
               ELSE IF FreeNumbers = {} THEN [pc |-> "network", number |-> None, new |-> FALSE]
               ELSE [pc |-> "flush", number |-> Smallest(FreeNumbers), new |-> TRUE])
    /\ UNCHANGED <<leases, networks, lastNumber, losses>>

Holds(q, n) == opening[q].new /\ opening[q].number = n /\ opening[q].pc \in {"network", "commit"}

\* The insert waits for a transaction that has inserted the same number, and fails when it
\* was committed: the start ends with an error.
Flush(p) ==
    LET n == opening[p].number IN
    /\ opening[p].pc = "flush"
    /\ \A q \in Pairs \ {p} : ~Holds(q, n)
    /\ Goto(p, IF \E q \in Pairs : leases[q] = n THEN "refused" ELSE "network")
    /\ UNCHANGED <<leases, networks, lastNumber, losses>>

Refused(p) ==
    /\ opening[p].pc = "refused"
    /\ Turn(p, Closed)
    /\ UNCHANGED <<leases, networks, lastNumber, losses>>

\* netz_anlegen: the number wished for or, when its subnet is in use, the first free one.
MakeNetwork(p) ==
    LET wish == opening[p].number IN
    /\ opening[p].pc = "network"
    /\ FreeNets # {}
    /\ LET n == IF wish \in FreeNets THEN wish ELSE Smallest(FreeNets) IN
       networks' = [networks EXCEPT ![n] = {p}]
    /\ Goto(p, "commit")
    /\ UNCHANGED <<leases, lastNumber, losses>>

CommitFirstFree(p) == \* as if the lease were not committed
    /\ opening[p].pc = "commit"
    /\ lastNumber' = [lastNumber EXCEPT ![p] = CHOOSE n \in Numbers : p \in networks[n]]
    /\ Goto(p, "running")
    /\ UNCHANGED <<leases, networks, losses>>
Commit(p) ==
    /\ opening[p].pc = "commit"
    /\ leases' = IF opening[p].new THEN [leases EXCEPT ![p] = opening[p].number] ELSE leases
    /\ lastNumber' = [lastNumber EXCEPT ![p] = CHOOSE n \in Numbers : p \in networks[n]]
    /\ Goto(p, "running")
    /\ UNCHANGED <<networks, losses>>

\* The agent fails: the row of the session and with it the lease are committed, a network
\* that was made stays.
AgentFails(p) ==
    /\ opening[p].pc \in {"network", "commit"}
    /\ IF opening[p].pc = "network" THEN UNCHANGED <<networks, losses>> ELSE
          /\ losses < MaxLosses /\ losses' = losses + 1
          /\ networks' = [n \in Numbers |-> IF p \in networks[n] THEN {"orphan"} ELSE networks[n]]
    /\ leases' = IF opening[p].new THEN [leases EXCEPT ![p] = opening[p].number] ELSE leases
    /\ Turn(p, Closed)
    /\ UNCHANGED lastNumber

End(p, lost) == \* the network goes with the container, or stays behind
    /\ opening[p].pc = "running"
    /\ lost => losses < MaxLosses
    /\ losses' = IF lost THEN losses + 1 ELSE losses
    /\ networks' = [n \in Numbers |-> IF p \in networks[n] THEN (IF lost THEN {"orphan"} ELSE {})
                                      ELSE networks[n]]
    /\ Turn(p, Closed)
    /\ UNCHANGED <<leases, lastNumber>>

Sweep(n) == \* waisen_aufraeumen
    /\ "orphan" \in networks[n]
    /\ networks' = [networks EXCEPT ![n] = {}]
    /\ UNCHANGED <<leases, opening, lastNumber, losses>>

LeaseNext ==
    \/ \E p \in Pairs : \/ Lease(p) \/ Flush(p) \/ Refused(p) \/ MakeNetwork(p) \/ Commit(p)
                        \/ AgentFails(p) \/ \E lost \in BOOLEAN : End(p, lost)
    \/ \E n \in Numbers : Sweep(n)

LeaseSpec == LeaseInit /\ [][LeaseNext]_leaseVars

\* As long as every pair has a number and no network is left behind, a desk has the same
\* subnet at every start, whatever starts and ends at the same time (NetLease: "dauerhaft").
SameSubnet ==
    Cardinality(Pairs) <= Pool /\ losses = 0 =>
        \A p \in Pairs : opening[p].pc \in {"commit", "running"} =>
            /\ p \in networks[opening[p].number]
            /\ lastNumber[p] \in {None, opening[p].number}
=============================================================================
