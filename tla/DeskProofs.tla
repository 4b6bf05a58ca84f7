------------------------------ MODULE DeskProofs ------------------------------
(* Theorems about what a desk consists of, for instances of every size: its      *)
(* subnet (NetLeases), its scripts (OnceScripts), its clipboard (Clipboard), its  *)
(* applications (AppStreams) and what its home begins with (Skeletons).          *)
EXTENDS NetLeases, OnceScripts, Clipboard, AppStreams, Skeletons, FiniteSetTheorems,
        WellFoundedInduction, TLAPS

(* The subnet: a desk keeps it, whatever starts and ends at the same time.       *)

Starting == {"network", "commit"}

\* A start knows its number from the lease, or has one that no lease has.
KnowsNumber ==
    \A p \in Pairs :
        /\ opening[p].pc = "flush" => opening[p].new /\ leases[p] = None
        /\ opening[p].pc \in Starting \cup {"running"} =>
              IF opening[p].new /\ opening[p].pc # "running"
              THEN leases[p] = None ELSE opening[p].number = leases[p]

\* Nobody else has the number of a lease or of an insert that is not committed.
OwnNumber ==
    /\ \A p, q \in Pairs : leases[p] = leases[q] => p = q \/ leases[p] = None
    /\ \A p \in Pairs, n \in Numbers :
          Holds(p, n) => \A q \in Pairs : leases[q] # n /\ (Holds(q, n) => p = q)

\* There is a number for every pair.
HasNumber ==
    Cardinality(Pairs) <= Pool =>
        \A p \in Pairs : opening[p].pc \in Starting \cup {"flush", "running"} =>
            opening[p].number \in Numbers

Desks == {"commit", "running"}

\* A subnet has one network, and a desk has one somewhere.
OneEach ==
    /\ \A n \in Numbers : \A x, y \in networks[n] : x = y
    /\ \A p \in Pairs : opening[p].pc \in Desks => \E n \in Numbers : p \in networks[n]

\* Unless a network was left behind, each network is that of a desk and in the subnet of
\* its number, and a pair had its lease the last time.
InPlace ==
    Cardinality(Pairs) <= Pool /\ losses = 0 =>
        /\ \A n \in Numbers : \A x \in networks[n] :
              x \in Pairs /\ opening[x].pc \in Desks /\ opening[x].number = n
        /\ \A p \in Pairs : lastNumber[p] \in {None, leases[p]}

LeaseInv == LeaseTypeOK /\ KnowsNumber /\ OwnNumber /\ HasNumber /\ OneEach /\ InPlace

-----------------------------------------------------------------------------
(* Facts about the operators.                                                  *)

NumberSet == Numbers \cup {None}
Openings == [pc : {"idle", "flush", "network", "commit", "running", "refused"},
           number : NumberSet, new : BOOLEAN]

LEMMA TurnTaken ==
    ASSUME LeaseTypeOK, NEW p \in Pairs, NEW r \in Openings, Turn(p, r)
    PROVE  /\ opening' \in [Pairs -> Openings] /\ opening'[p] = r
           /\ \A q \in Pairs \ {p} : opening'[q] = opening[q]
BY DEF LeaseTypeOK, Turn, Openings, NumberSet

LEMMA GotoTaken ==
    ASSUME LeaseTypeOK, NEW p \in Pairs, NEW pc \in {"network", "commit", "running", "refused"},
           Goto(p, pc)
    PROVE  /\ opening' \in [Pairs -> Openings]
           /\ opening'[p] = [pc |-> pc, number |-> opening[p].number, new |-> opening[p].new]
           /\ \A q \in Pairs \ {p} : opening'[q] = opening[q]
<1> DEFINE r == [pc |-> pc, number |-> opening[p].number, new |-> opening[p].new]
<1>1. [opening[p] EXCEPT !.pc = pc] = r /\ r \in Openings
  BY DEF LeaseTypeOK, Openings, NumberSet
<1> HIDE DEF r
<1>2. Turn(p, r)
  BY <1>1 DEF Goto
<1>3. /\ opening' \in [Pairs -> Openings] /\ opening'[p] = r
      /\ \A q \in Pairs \ {p} : opening'[q] = opening[q]
  BY <1>1, <1>2, TurnTaken
<1> QED BY <1>3 DEF r

LEMMA SmallestIsOne ==
    ASSUME NEW S \in SUBSET Nat, S # {}
    PROVE  Smallest(S) \in S
<1> DEFINE R == {s \in Nat \X Nat : s[1] < s[2]}
<1>1. IsWellFoundedOn(R, Nat)
  BY NatLessThanWellFounded, Zenon DEF OpToRel
<1>2. PICK n \in S : \A m \in S : ~ (<<m, n>> \in R)
  <2> HIDE DEF R
  <2> QED BY <1>1, WFMin
<1>3. ASSUME NEW m \in S PROVE n <= m
  <2>1. m \in Nat /\ n \in Nat /\ ~ (<<m, n>> \in R)
    BY <1>2
  <2>2. ~ (m < n)
    BY <2>1
  <2> QED BY <2>1, <2>2
<1> QED BY <1>3 DEF Smallest

\* Were there as many subnets as pairs, a pair without a lease finds a number.
LEMMA OneIsFree ==
    ASSUME NetLeasesAssumption, LeaseTypeOK, Cardinality(Pairs) <= Pool,
           NEW p \in Pairs, leases[p] = None
    PROVE  FreeNumbers # {}
<1> DEFINE Others == Pairs \ {p}
           Leased == {leases[q] : q \in Others}
<1>1. SUFFICES ASSUME FreeNumbers = {} PROVE FALSE
  OBVIOUS
<1>2. IsFiniteSet(Others) /\ Cardinality(Others) = Cardinality(Pairs) - 1 /\ Cardinality(Pairs) \in Nat
  BY FS_RemoveElement, FS_CardinalityType DEF NetLeasesAssumption
<1>3. IsFiniteSet(Leased) /\ Cardinality(Leased) <= Cardinality(Others)
  <2> DEFINE f == [q \in Others |-> leases[q]]
  <2>1. f \in Surjection(Others, Leased)
    BY DEF Surjection
  <2> HIDE DEF f, Others, Leased
  <2> QED BY <1>2, <2>1, FS_Surjection
<1>4. Numbers \subseteq Leased
  <2>1. ASSUME NEW n \in Numbers PROVE n \in Leased
    <3>1. PICK q \in Pairs : leases[q] = n
      BY <1>1 DEF FreeNumbers
    <3>2. n # None
      BY DEF Numbers, None, NetLeasesAssumption
    <3> QED BY <3>1, <3>2
  <2> QED BY <2>1
<1>5. Cardinality(Numbers) = Pool /\ IsFiniteSet(Numbers)
  BY FS_Interval DEF Numbers, NetLeasesAssumption
<1>6. Cardinality(Numbers) <= Cardinality(Leased)
  <2> HIDE DEF Leased
  <2> QED BY <1>3, <1>4, FS_Subset
<1>7. Cardinality(Leased) \in Nat
  <2> HIDE DEF Leased
  <2> QED BY <1>3, FS_CardinalityType
<1> QED BY <1>2, <1>3, <1>5, <1>6, <1>7 DEF NetLeasesAssumption

-----------------------------------------------------------------------------
(* The steps.                                                                  *)

LEMMA InitLease == ASSUME NetLeasesAssumption, LeaseInit PROVE LeaseInv
<1>1. LeaseTypeOK
  BY DEF LeaseInit, LeaseTypeOK, Closed, NetLeasesAssumption
<1>2. KnowsNumber /\ OwnNumber /\ HasNumber
  BY DEF LeaseInit, KnowsNumber, OwnNumber, HasNumber, Holds, Closed, Starting
<1>3. OneEach /\ InPlace
  BY DEF LeaseInit, OneEach, InPlace, Closed, Desks
<1> QED BY <1>1, <1>2, <1>3 DEF LeaseInv

LEMMA LeaseStep ==
    ASSUME NetLeasesAssumption, LeaseInv, NEW p \in Pairs, Lease(p)
    PROVE  LeaseInv'
<1>0. LeaseTypeOK /\ KnowsNumber /\ OwnNumber /\ HasNumber /\ OneEach /\ InPlace
  BY DEF LeaseInv
<1>1. PICK r \in Openings :
         /\ Turn(p, r)
         /\ \/ r = [pc |-> "network", number |-> leases[p], new |-> FALSE] /\ leases[p] # None
            \/ /\ r = [pc |-> "network", number |-> None, new |-> FALSE]
               /\ leases[p] = None /\ FreeNumbers = {}
            \/ /\ r.pc = "flush" /\ r.new /\ r.number \in Numbers
               /\ leases[p] = None
  <2>1. CASE leases[p] # None
    <3>1. [pc |-> "network", number |-> leases[p], new |-> FALSE] \in Openings
      BY <1>0 DEF LeaseTypeOK, Openings, NumberSet
    <3> QED BY <2>1, <3>1 DEF Lease
  <2>2. CASE leases[p] = None /\ FreeNumbers = {}
    <3>1. [pc |-> "network", number |-> None, new |-> FALSE] \in Openings
      BY DEF Openings, NumberSet
    <3> QED BY <2>2, <3>1 DEF Lease
  <2>3. CASE leases[p] = None /\ FreeNumbers # {}
    <3> DEFINE r == [pc |-> "flush", number |-> Smallest(FreeNumbers), new |-> TRUE]
    <3>1. FreeNumbers \subseteq Numbers /\ FreeNumbers \subseteq Nat
      BY DEF FreeNumbers, Numbers
    <3>2. Smallest(FreeNumbers) \in Numbers
      BY <2>3, <3>1, SmallestIsOne
    <3>3. r \in Openings
      BY <3>2 DEF Openings, NumberSet
    <3>4. Turn(p, r)
      BY <2>3 DEF Lease
    <3> QED BY <2>3, <3>2, <3>3, <3>4
  <2> QED BY <2>1, <2>2, <2>3
<1>2. /\ opening' \in [Pairs -> Openings] /\ opening'[p] = r
      /\ \A q \in Pairs \ {p} : opening'[q] = opening[q]
  BY <1>0, <1>1, TurnTaken
<1>3. UNCHANGED <<leases, networks, lastNumber, losses>> /\ opening[p].pc = "idle"
  BY DEF Lease
<1>4. LeaseTypeOK'
  BY <1>0, <1>2, <1>3 DEF LeaseTypeOK, Openings, NumberSet
<1>5. KnowsNumber'
  BY <1>0, <1>1, <1>2, <1>3 DEF KnowsNumber, Starting
<1>6. OwnNumber'
  <2>1. \A q \in Pairs, n \in Numbers : Holds(q, n)' => Holds(q, n)
    BY <1>1, <1>2 DEF Holds
  <2> QED BY <1>0, <1>3, <2>1 DEF OwnNumber
<1>7. HasNumber'
  <2>1. Cardinality(Pairs) <= Pool => leases[p] # None \/ FreeNumbers # {}
    BY <1>0, OneIsFree
  <2>2. leases[p] # None => leases[p] \in Numbers
    BY <1>0 DEF LeaseTypeOK
  <2> QED BY <1>0, <1>1, <1>2, <1>3, <2>1, <2>2 DEF HasNumber, Starting
<1>8. OneEach' /\ InPlace'
  BY <1>0, <1>1, <1>2, <1>3 DEF OneEach, InPlace, Desks
<1> QED BY <1>4, <1>5, <1>6, <1>7, <1>8 DEF LeaseInv

LEMMA FlushStep ==
    ASSUME LeaseInv, NEW p \in Pairs, Flush(p)
    PROVE  LeaseInv'
<1>0. LeaseTypeOK /\ KnowsNumber /\ OwnNumber /\ HasNumber /\ OneEach /\ InPlace
  BY DEF LeaseInv
<1>1. PICK pc \in {"refused", "network"} :
         /\ Goto(p, pc)
         /\ pc = "network" => \A q \in Pairs : leases[q] # opening[p].number
  BY DEF Flush
<1>2. /\ opening' \in [Pairs -> Openings]
      /\ opening'[p] = [pc |-> pc, number |-> opening[p].number, new |-> opening[p].new]
      /\ \A q \in Pairs \ {p} : opening'[q] = opening[q]
  BY <1>0, <1>1, GotoTaken
<1>3. /\ UNCHANGED <<leases, networks, lastNumber, losses>> /\ opening[p].pc = "flush"
      /\ \A q \in Pairs \ {p} : ~Holds(q, opening[p].number)
  BY DEF Flush
<1>4. LeaseTypeOK'
  BY <1>0, <1>2, <1>3 DEF LeaseTypeOK, Openings, NumberSet
<1>5. KnowsNumber'
  BY <1>0, <1>1, <1>2, <1>3 DEF KnowsNumber, Starting
<1>6. OwnNumber'
  <2>1. \A q \in Pairs \ {p}, n \in Numbers : Holds(q, n)' <=> Holds(q, n)
    BY <1>2 DEF Holds
  <2>2. \A n \in Numbers : Holds(p, n)' => n = opening[p].number /\ pc = "network"
    BY <1>2 DEF Holds
  <2> QED BY <1>0, <1>1, <1>3, <2>1, <2>2 DEF OwnNumber
<1>7. HasNumber'
  BY <1>0, <1>2, <1>3 DEF HasNumber, Starting
<1>8. OneEach' /\ InPlace'
  BY <1>0, <1>1, <1>2, <1>3 DEF OneEach, InPlace, Desks
<1> QED BY <1>4, <1>5, <1>6, <1>7, <1>8 DEF LeaseInv

LEMMA RefusedStep ==
    ASSUME LeaseInv, NEW p \in Pairs, Refused(p)
    PROVE  LeaseInv'
<1>0. LeaseTypeOK /\ KnowsNumber /\ OwnNumber /\ HasNumber /\ OneEach /\ InPlace
  BY DEF LeaseInv
<1>1. Closed \in Openings
  BY DEF Closed, Openings, NumberSet
<1>2. /\ opening' \in [Pairs -> Openings] /\ opening'[p] = Closed
      /\ \A q \in Pairs \ {p} : opening'[q] = opening[q]
  BY <1>0, <1>1, TurnTaken DEF Refused
<1>3. UNCHANGED <<leases, networks, lastNumber, losses>> /\ opening[p].pc = "refused"
  BY DEF Refused
<1>4. LeaseTypeOK'
  BY <1>0, <1>2, <1>3 DEF LeaseTypeOK, Openings, NumberSet
<1>5. KnowsNumber' /\ HasNumber'
  BY <1>0, <1>2, <1>3 DEF KnowsNumber, HasNumber, Starting, Closed
<1>6. OwnNumber'
  <2>1. \A q \in Pairs, n \in Numbers : Holds(q, n)' => Holds(q, n)
    BY <1>2 DEF Holds, Closed
  <2> QED BY <1>0, <1>3, <2>1 DEF OwnNumber
<1>7. OneEach' /\ InPlace'
  BY <1>0, <1>2, <1>3 DEF OneEach, InPlace, Desks, Closed
<1> QED BY <1>4, <1>5, <1>6, <1>7 DEF LeaseInv

\* The subnet of the number that a start has is free.
LEMMA WishIsFree ==
    ASSUME LeaseInv, Cardinality(Pairs) <= Pool, losses = 0,
           NEW p \in Pairs, opening[p].pc = "network"
    PROVE  opening[p].number \in FreeNets
<1> DEFINE n == opening[p].number
<1>1. n \in Numbers
  BY DEF LeaseInv, HasNumber, Starting
<1>2. leases[p] = n \/ Holds(p, n)
  BY DEF LeaseInv, KnowsNumber, Starting, Holds
<1>3. ASSUME NEW x \in networks[n] PROVE FALSE
  <2>1. x \in Pairs /\ opening[x].pc \in Desks /\ opening[x].number = n
    BY <1>1 DEF LeaseInv, InPlace
  <2>2. x # p
    BY <2>1 DEF Desks
  <2>3. leases[x] = n \/ Holds(x, n)
    BY <2>1 DEF LeaseInv, KnowsNumber, LeaseTypeOK, Starting, Desks, Holds
  <2>4. n # None
    BY <1>1 DEF Numbers, None
  <2> QED BY <1>1, <1>2, <2>1, <2>2, <2>3, <2>4 DEF LeaseInv, OwnNumber
<1> QED BY <1>1, <1>3 DEF FreeNets

LEMMA NetworkStep ==
    ASSUME NetLeasesAssumption, LeaseInv, NEW p \in Pairs, MakeNetwork(p)
    PROVE  LeaseInv'
<1>0. LeaseTypeOK /\ KnowsNumber /\ OwnNumber /\ HasNumber /\ OneEach /\ InPlace
  BY DEF LeaseInv
<1>1. PICK n \in FreeNets :
         /\ networks' = [networks EXCEPT ![n] = {p}]
         /\ opening[p].number \in FreeNets => n = opening[p].number
  <2>1. FreeNets # {} /\ FreeNets \subseteq Nat
    BY DEF MakeNetwork, FreeNets, Numbers
  <2>2. Smallest(FreeNets) \in FreeNets
    BY <2>1, SmallestIsOne
  <2> QED BY <2>2 DEF MakeNetwork
<1>2. /\ opening' \in [Pairs -> Openings]
      /\ opening'[p] = [pc |-> "commit", number |-> opening[p].number, new |-> opening[p].new]
      /\ \A q \in Pairs \ {p} : opening'[q] = opening[q]
  BY <1>0, GotoTaken DEF MakeNetwork
<1>3. UNCHANGED <<leases, lastNumber, losses>> /\ opening[p].pc = "network"
  BY DEF MakeNetwork
<1>4. /\ n \in Numbers /\ networks[n] = {} /\ networks'[n] = {p}
      /\ \A m \in Numbers \ {n} : networks'[m] = networks[m]
      /\ networks' \in [Numbers -> SUBSET (Pairs \cup {"orphan"})]
  BY <1>0, <1>1 DEF FreeNets, LeaseTypeOK
<1>5. LeaseTypeOK'
  BY <1>0, <1>2, <1>3, <1>4 DEF LeaseTypeOK, Openings, NumberSet
<1>6. KnowsNumber' /\ HasNumber'
  BY <1>0, <1>2, <1>3 DEF KnowsNumber, HasNumber, Starting
<1>7. OwnNumber'
  <2>1. \A q \in Pairs, m \in Numbers : Holds(q, m)' <=> Holds(q, m)
    BY <1>2, <1>3 DEF Holds
  <2> QED BY <1>0, <1>3, <2>1 DEF OwnNumber
<1>8. OneEach'
  <2>1. \A m \in Numbers : \A x, y \in networks'[m] : x = y
    BY <1>0, <1>4 DEF OneEach
  <2>2. ASSUME NEW q \in Pairs, opening'[q].pc \in Desks PROVE \E m \in Numbers : q \in networks'[m]
    BY <1>0, <1>2, <1>4, <2>2 DEF OneEach
  <2> QED BY <2>1, <2>2 DEF OneEach
<1>9. InPlace'
  <2>1. SUFFICES ASSUME Cardinality(Pairs) <= Pool, losses = 0 PROVE InPlace'
    BY <1>3 DEF InPlace
  <2>2. n = opening[p].number
    BY <1>1, <1>3, <2>1, WishIsFree
  <2> QED BY <1>0, <1>2, <1>3, <1>4, <2>1, <2>2 DEF InPlace, Desks
<1> QED BY <1>5, <1>6, <1>7, <1>8, <1>9 DEF LeaseInv

\* The lease of a start is committed: another one that has read its number is refused.
LEMMA LeaseCommitted ==
    ASSUME LeaseInv, NEW p \in Pairs, opening[p].pc \in Starting,
           leases' = IF opening[p].new THEN [leases EXCEPT ![p] = opening[p].number] ELSE leases
    PROVE  /\ leases' \in [Pairs -> NumberSet]
           /\ \A q \in Pairs : leases'[q] = IF q = p THEN opening[p].number ELSE leases[q]
           /\ \A q, r \in Pairs : leases'[q] = leases'[r] => q = r \/ leases'[q] = None
           /\ \A q \in Pairs \ {p}, n \in Numbers : Holds(q, n) =>
                 \A r \in Pairs : leases'[r] # n
           /\ leases[p] = None \/ leases[p] = leases'[p]
<1>0. LeaseTypeOK /\ KnowsNumber /\ OwnNumber
  BY DEF LeaseInv
<1>1. \A q \in Pairs : leases'[q] = IF q = p THEN opening[p].number ELSE leases[q]
  BY <1>0 DEF LeaseTypeOK, KnowsNumber, Starting
<1>2. leases' \in [Pairs -> NumberSet]
  BY <1>0 DEF LeaseTypeOK, NumberSet
<1>3. opening[p].number \in Numbers => leases[p] = opening[p].number \/ Holds(p, opening[p].number)
  BY <1>0 DEF KnowsNumber, Starting, Holds
<1>4. opening[p].number \in NumberSet
  BY <1>0 DEF LeaseTypeOK, NumberSet
<1>5. \A q, r \in Pairs : leases'[q] = leases'[r] => q = r \/ leases'[q] = None
  BY <1>0, <1>1, <1>3, <1>4 DEF OwnNumber, NumberSet
<1>6. \A q \in Pairs \ {p}, n \in Numbers : Holds(q, n) => \A r \in Pairs : leases'[r] # n
  BY <1>0, <1>1, <1>3 DEF OwnNumber
<1>7. leases[p] = None \/ leases[p] = leases'[p]
  BY <1>0, <1>1 DEF KnowsNumber, Starting, LeaseTypeOK
<1> QED BY <1>1, <1>2, <1>5, <1>6, <1>7

LEMMA CommitStep ==
    ASSUME LeaseInv, NEW p \in Pairs, Commit(p)
    PROVE  LeaseInv'
<1>0. LeaseTypeOK /\ KnowsNumber /\ OwnNumber /\ HasNumber /\ OneEach /\ InPlace
  BY DEF LeaseInv
<1>1. /\ opening' \in [Pairs -> Openings]
      /\ opening'[p] = [pc |-> "running", number |-> opening[p].number, new |-> opening[p].new]
      /\ \A q \in Pairs \ {p} : opening'[q] = opening[q]
  BY <1>0, GotoTaken DEF Commit
<1>2. UNCHANGED <<networks, losses>> /\ opening[p].pc = "commit"
  BY DEF Commit
<1>3. /\ leases' \in [Pairs -> NumberSet]
      /\ \A q \in Pairs : leases'[q] = IF q = p THEN opening[p].number ELSE leases[q]
      /\ \A q, r \in Pairs : leases'[q] = leases'[r] => q = r \/ leases'[q] = None
      /\ \A q \in Pairs \ {p}, n \in Numbers : Holds(q, n) => \A r \in Pairs : leases'[r] # n
      /\ leases[p] = None \/ leases[p] = leases'[p]
  BY <1>2, LeaseCommitted DEF Commit, Starting
<1>4. PICK n \in Numbers : /\ p \in networks[n]
                           /\ lastNumber' = [lastNumber EXCEPT ![p] = n]
  <2>1. \E n \in Numbers : p \in networks[n]
    BY <1>0, <1>2 DEF OneEach, Desks
  <2> QED BY <2>1 DEF Commit
<1>5. LeaseTypeOK'
  BY <1>0, <1>1, <1>2, <1>3, <1>4 DEF LeaseTypeOK, Openings, NumberSet
<1>6. KnowsNumber' /\ HasNumber'
  BY <1>0, <1>1, <1>2, <1>3 DEF KnowsNumber, HasNumber, Starting
<1>7. OwnNumber'
  <2>1. \A q \in Pairs, m \in Numbers : Holds(q, m)' => q # p /\ Holds(q, m)
    BY <1>1 DEF Holds
  <2> QED BY <1>0, <1>3, <2>1 DEF OwnNumber
<1>8. OneEach'
  BY <1>0, <1>1, <1>2 DEF OneEach, Desks
<1>9. InPlace'
  <2>1. SUFFICES ASSUME Cardinality(Pairs) <= Pool, losses = 0 PROVE InPlace'
    BY <1>2 DEF InPlace
  <2>2. n = opening[p].number
    BY <1>0, <1>4, <2>1 DEF InPlace
  <2>3. \A q \in Pairs : lastNumber'[q] = IF q = p THEN n ELSE lastNumber[q]
    BY <1>0, <1>4 DEF LeaseTypeOK
  <2>4. \A q \in Pairs : lastNumber'[q] \in {None, leases'[q]}
    BY <1>0, <1>3, <2>1, <2>2, <2>3 DEF InPlace
  <2> QED BY <1>0, <1>1, <1>2, <2>1, <2>4 DEF InPlace, Desks
<1> QED BY <1>5, <1>6, <1>7, <1>8, <1>9 DEF LeaseInv

\* The network of a desk goes, or stays behind as an orphan.
LEMMA NetworkGone ==
    ASSUME LeaseInv, NEW p \in Pairs, NEW left \in {{}, {"orphan"}},
           \A n \in Numbers : networks'[n] = IF p \in networks[n] THEN left ELSE networks[n]
    PROVE  /\ \A n \in Numbers : \A x, y \in networks'[n] : x = y
           /\ \A n \in Numbers : \A q \in Pairs \ {p} : q \in networks[n] => q \in networks'[n]
           /\ left = {} => \A n \in Numbers :
                 networks'[n] \subseteq networks[n] /\ p \notin networks'[n]
BY DEF LeaseInv, OneEach

LEMMA FailsStep ==
    ASSUME NetLeasesAssumption, LeaseInv, NEW p \in Pairs, AgentFails(p)
    PROVE  LeaseInv'
<1>0. LeaseTypeOK /\ KnowsNumber /\ OwnNumber /\ HasNumber /\ OneEach /\ InPlace
  BY DEF LeaseInv
<1>1. Closed \in Openings
  BY DEF Closed, Openings, NumberSet
<1>2. /\ opening' \in [Pairs -> Openings] /\ opening'[p] = Closed
      /\ \A q \in Pairs \ {p} : opening'[q] = opening[q]
  BY <1>0, <1>1, TurnTaken DEF AgentFails
<1>3. /\ leases' \in [Pairs -> NumberSet]
      /\ \A q \in Pairs : leases'[q] = IF q = p THEN opening[p].number ELSE leases[q]
      /\ \A q, r \in Pairs : leases'[q] = leases'[r] => q = r \/ leases'[q] = None
      /\ \A q \in Pairs \ {p}, n \in Numbers : Holds(q, n) => \A r \in Pairs : leases'[r] # n
      /\ leases[p] = None \/ leases[p] = leases'[p]
  BY LeaseCommitted DEF AgentFails, Starting
<1>4. /\ UNCHANGED lastNumber
      /\ \/ opening[p].pc = "network" /\ UNCHANGED <<networks, losses>>
         \/ /\ losses < MaxLosses /\ losses' = losses + 1
            /\ networks' = [n \in Numbers |-> IF p \in networks[n] THEN {"orphan"} ELSE networks[n]]
  BY DEF AgentFails
<1>5. /\ networks' \in [Numbers -> SUBSET (Pairs \cup {"orphan"})]
      /\ \A n \in Numbers : \A x, y \in networks'[n] : x = y
      /\ \A n \in Numbers : \A q \in Pairs \ {p} : q \in networks[n] => q \in networks'[n]
  <2>1. CASE UNCHANGED networks
    BY <1>0, <2>1 DEF LeaseTypeOK, OneEach
  <2>2. CASE networks' = [n \in Numbers |-> IF p \in networks[n] THEN {"orphan"} ELSE networks[n]]
    <3>1. networks' \in [Numbers -> SUBSET (Pairs \cup {"orphan"})]
      BY <1>0, <2>2 DEF LeaseTypeOK
    <3>2. \A n \in Numbers : networks'[n] = IF p \in networks[n] THEN {"orphan"} ELSE networks[n]
      BY <2>2
    <3> QED BY <3>1, <3>2, NetworkGone
  <2> QED BY <1>4, <2>1, <2>2
<1>6. losses' \in 0 .. MaxLosses
  BY <1>0, <1>4 DEF LeaseTypeOK, NetLeasesAssumption
<1>7. LeaseTypeOK'
  BY <1>0, <1>2, <1>3, <1>4, <1>5, <1>6 DEF LeaseTypeOK, Openings, NumberSet
<1>8. KnowsNumber' /\ HasNumber'
  BY <1>0, <1>2, <1>3 DEF KnowsNumber, HasNumber, Starting, Closed
<1>9. OwnNumber'
  <2>1. \A q \in Pairs, m \in Numbers : Holds(q, m)' => q # p /\ Holds(q, m)
    BY <1>2 DEF Holds, Closed
  <2> QED BY <1>0, <1>3, <2>1 DEF OwnNumber
<1>10. OneEach'
  BY <1>0, <1>2, <1>5 DEF OneEach, Desks, Closed
<1>11. InPlace'
  <2>1. CASE opening[p].pc = "network" /\ UNCHANGED <<networks, losses>>
    BY <1>0, <1>2, <1>3, <1>4, <2>1 DEF InPlace, Desks
  <2>2. CASE losses' = losses + 1
    <3>1. losses' # 0
      BY <1>0, <2>2 DEF LeaseTypeOK
    <3> QED BY <3>1 DEF InPlace
  <2> QED BY <1>4, <2>1, <2>2
<1> QED BY <1>7, <1>8, <1>9, <1>10, <1>11 DEF LeaseInv

LEMMA EndStep ==
    ASSUME NetLeasesAssumption, LeaseInv, NEW p \in Pairs, NEW lost \in BOOLEAN, End(p, lost)
    PROVE  LeaseInv'
<1>0. LeaseTypeOK /\ KnowsNumber /\ OwnNumber /\ HasNumber /\ OneEach /\ InPlace
  BY DEF LeaseInv
<1>1. Closed \in Openings
  BY DEF Closed, Openings, NumberSet
<1>2. /\ opening' \in [Pairs -> Openings] /\ opening'[p] = Closed
      /\ \A q \in Pairs \ {p} : opening'[q] = opening[q]
  BY <1>0, <1>1, TurnTaken DEF End
<1>3. UNCHANGED <<leases, lastNumber>> /\ opening[p].pc = "running"
  BY DEF End
<1>4. PICK left \in {{}, {"orphan"}} :
         /\ networks' = [n \in Numbers |-> IF p \in networks[n] THEN left ELSE networks[n]]
         /\ \/ left = {} /\ losses' = losses
            \/ losses < MaxLosses /\ losses' = losses + 1
  BY DEF End
<1>5. /\ networks' \in [Numbers -> SUBSET (Pairs \cup {"orphan"})]
      /\ \A n \in Numbers : \A x, y \in networks'[n] : x = y
      /\ \A n \in Numbers : \A q \in Pairs \ {p} : q \in networks[n] => q \in networks'[n]
      /\ left = {} => \A n \in Numbers :
            networks'[n] \subseteq networks[n] /\ p \notin networks'[n]
  <2>1. networks' \in [Numbers -> SUBSET (Pairs \cup {"orphan"})]
    BY <1>0, <1>4 DEF LeaseTypeOK
  <2>2. \A n \in Numbers : networks'[n] = IF p \in networks[n] THEN left ELSE networks[n]
    BY <1>4
  <2> QED BY <2>1, <2>2, NetworkGone
<1>6. losses' \in 0 .. MaxLosses
  BY <1>0, <1>4 DEF LeaseTypeOK, NetLeasesAssumption
<1>7. LeaseTypeOK'
  BY <1>0, <1>2, <1>3, <1>5, <1>6 DEF LeaseTypeOK, Openings, NumberSet
<1>8. KnowsNumber' /\ HasNumber'
  BY <1>0, <1>2, <1>3 DEF KnowsNumber, HasNumber, Starting, Closed
<1>9. OwnNumber'
  <2>1. \A q \in Pairs, m \in Numbers : Holds(q, m)' => Holds(q, m)
    BY <1>2 DEF Holds, Closed
  <2> QED BY <1>0, <1>3, <2>1 DEF OwnNumber
<1>10. OneEach'
  BY <1>0, <1>2, <1>5 DEF OneEach, Desks, Closed
<1>11. InPlace'
  <2>1. CASE left = {} /\ losses' = losses
    BY <1>0, <1>2, <1>3, <1>5, <2>1 DEF InPlace
  <2>2. CASE losses' = losses + 1
    <3>1. losses' # 0
      BY <1>0, <2>2 DEF LeaseTypeOK
    <3> QED BY <3>1 DEF InPlace
  <2> QED BY <1>4, <2>1, <2>2
<1> QED BY <1>7, <1>8, <1>9, <1>10, <1>11 DEF LeaseInv

LEMMA SweepStep ==
    ASSUME NetLeasesAssumption, LeaseInv, NEW n \in Numbers, Sweep(n)
    PROVE  LeaseInv'
<1>0. LeaseTypeOK /\ KnowsNumber /\ OwnNumber /\ HasNumber /\ OneEach /\ InPlace
  BY DEF LeaseInv
<1>1. /\ "orphan" \in networks[n] /\ networks' = [networks EXCEPT ![n] = {}]
      /\ UNCHANGED <<leases, opening, lastNumber, losses>>
  BY DEF Sweep
<1>2. LeaseTypeOK'
  BY <1>0, <1>1 DEF LeaseTypeOK
<1>3. KnowsNumber' /\ HasNumber' /\ OwnNumber'
  BY <1>0, <1>1 DEF KnowsNumber, HasNumber, OwnNumber, Holds
<1>4. \A m \in Numbers : networks'[m] = IF m = n THEN {} ELSE networks[m]
  BY <1>0, <1>1 DEF LeaseTypeOK
<1>5. \A p \in Pairs : p \notin networks[n]
  BY <1>0, <1>1 DEF OneEach, NetLeasesAssumption
<1>6. OneEach'
  BY <1>0, <1>1, <1>4, <1>5 DEF OneEach
<1>7. InPlace'
  BY <1>0, <1>1, <1>4 DEF InPlace
<1> QED BY <1>2, <1>3, <1>6, <1>7 DEF LeaseInv

LEMMA StepLease ==
    ASSUME NetLeasesAssumption, LeaseInv, [LeaseNext]_leaseVars
    PROVE  LeaseInv'
<1>1. CASE UNCHANGED leaseVars
  BY <1>1 DEF LeaseInv, leaseVars, LeaseTypeOK, KnowsNumber, OwnNumber, HasNumber, OneEach,
              InPlace, Holds
<1>2. CASE LeaseNext
  BY <1>2, LeaseStep, FlushStep, RefusedStep, NetworkStep, CommitStep, FailsStep, EndStep,
     SweepStep DEF LeaseNext
<1> QED BY <1>1, <1>2

-----------------------------------------------------------------------------
(* The theorems.                                                               *)

\* The tables, the starts and the networks have their types, for any number of pairs,
\* subnets and lost networks (_subnetz, netz_anlegen).
THEOREM LeaseTypes == ASSUME NetLeasesAssumption PROVE LeaseSpec => []LeaseTypeOK
<1>1. LeaseInit => LeaseInv
  BY InitLease
<1>2. LeaseInv /\ [LeaseNext]_leaseVars => LeaseInv'
  BY StepLease
<1>3. LeaseInv => LeaseTypeOK
  BY DEF LeaseInv
<1> QED BY <1>1, <1>2, <1>3, PTL DEF LeaseSpec

\* A desk has the same subnet at every start, for any number of users, templates and
\* subnets, whatever starts, fails and ends at the same time, as long as there is a number
\* for every pair and no network was left behind (NetLease, _subnetz, netz_anlegen).
THEOREM KeepsSubnet == ASSUME NetLeasesAssumption PROVE LeaseSpec => []SameSubnet
<1>1. LeaseInit => LeaseInv
  BY InitLease
<1>2. LeaseInv /\ [LeaseNext]_leaseVars => LeaseInv'
  BY StepLease
<1>3. LeaseInv => SameSubnet
  <2>1. SUFFICES ASSUME LeaseInv, Cardinality(Pairs) <= Pool, losses = 0,
                        NEW p \in Pairs, opening[p].pc \in Desks
                 PROVE  /\ p \in networks[opening[p].number]
                        /\ lastNumber[p] \in {None, opening[p].number}
    BY DEF SameSubnet, Desks
  <2>2. p \in networks[opening[p].number]
    BY <2>1 DEF LeaseInv, OneEach, InPlace
  <2>3. lastNumber[p] \in {None, leases[p]}
    BY <2>1 DEF LeaseInv, InPlace
  <2>4. leases[p] = None \/ opening[p].number = leases[p]
    BY <2>1 DEF LeaseInv, KnowsNumber, Starting, Desks
  <2> QED BY <2>2, <2>3, <2>4
<1> QED BY <1>1, <1>2, <1>3, PTL DEF LeaseSpec

-----------------------------------------------------------------------------
(* The scripts: a user gets each once, when he starts one desk at a time.        *)

\* A start that is under way is somebody's, and nobody has two of them.
OneStart ==
    /\ \A p \in Starts : IF starts[p].pc = "idle" THEN starts[p] = NoStart
                         ELSE \E u \in Users : starts[p].user = {u}
    /\ \A p, q \in Starts : p # q => starts[p].user \cap starts[q].user = {}

\* What a start has yet to run its user has not had, and what it has run is not booked.
YetToRun ==
    \A p \in Starts, s \in Scripts : \A u \in starts[p].user :
        s \in starts[p].todo \/ (\E x \in starts[p].results : x[1] = s) =>
            /\ booked[<<u, s>>] = "no" /\ scripts[s] # "gone"
            /\ s \in starts[p].todo => <<u, s>> \notin had

\* What a user has had is booked, or will be by the start that ran it.
WillBeBooked ==
    \A u \in Users, s \in Scripts : <<u, s>> \in had /\ booked[<<u, s>>] = "no" =>
        \E p \in Starts : u \in starts[p].user /\ \E x \in starts[p].results : x[1] = s

OnceInv == OnceTypeOK /\ OneStart /\ YetToRun /\ WillBeBooked

StartRecord == [pc : {"idle", "run", "book"}, user : SUBSET Users, todo : SUBSET Scripts,
                results : SUBSET Result]

LEMMA BecomesIt ==
    ASSUME OnceTypeOK, NEW p \in Starts, NEW r \in StartRecord, Becomes(p, r)
    PROVE  /\ starts' \in [Starts -> StartRecord] /\ starts'[p] = r
           /\ \A q \in Starts \ {p} : starts'[q] = starts[q]
BY DEF OnceTypeOK, StartRecord, Becomes

LEMMA ItsUser ==
    ASSUME OnceInv, NEW p \in Starts, starts[p].pc # "idle"
    PROVE  UserOf(p) \in Users /\ starts[p].user = {UserOf(p)}
BY DEF OnceInv, OneStart, UserOf

LEMMA NoStartFits ==
    /\ NoStart \in StartRecord /\ NoStart.user = {} /\ NoStart.todo = {} /\ NoStart.results = {}
    /\ NoStart.pc = "idle"
BY DEF NoStart, StartRecord

LEMMA InitOnce == OnceInit => OnceInv
BY NoStartFits DEF OnceInit, OnceInv, OnceTypeOK, StartRecord, OneStart, YetToRun, WillBeBooked, Runs

LEMMA ReadsOnce ==
    ASSUME OnceInv, Careful, NEW p \in Starts, NEW u \in Users, StartReads(p, u)
    PROVE  OnceInv'
<1> DEFINE r == [pc |-> "run", user |-> {u}, todo |-> Missing(u), results |-> {}]
<1>1. r \in StartRecord
  BY DEF StartRecord, Missing
<1>2. /\ r.pc = "run" /\ r.user = {u} /\ r.results = {}
      /\ \A s \in r.todo : s \in Scripts /\ scripts[s] = "on" /\ booked[<<u, s>>] = "no"
  BY DEF Missing
<1>3. /\ Becomes(p, r) /\ UNCHANGED <<scripts, booked, had>> /\ starts[p].pc = "idle"
      /\ \A q \in Starts : u \notin starts[q].user
  BY DEF StartReads
<1> HIDE DEF r
<1>4. /\ starts' \in [Starts -> StartRecord] /\ starts'[p] = r
      /\ \A q \in Starts \ {p} : starts'[q] = starts[q]
  BY <1>1, <1>3, BecomesIt DEF OnceInv
<1>5. OnceTypeOK'
  BY <1>3, <1>4 DEF OnceInv, OnceTypeOK, StartRecord
<1>6. OneStart'
  BY <1>2, <1>3, <1>4 DEF OnceInv, OneStart
<1>7. \A s \in r.todo : <<u, s>> \notin had
  BY <1>2, <1>3 DEF OnceInv, WillBeBooked
<1>8. YetToRun'
  BY <1>2, <1>3, <1>4, <1>7 DEF OnceInv, YetToRun
<1>9. WillBeBooked'
  <2>1. starts[p].user = {}
    BY <1>3, NoStartFits DEF OnceInv, OneStart
  <2> QED BY <1>3, <1>4, <2>1 DEF OnceInv, WillBeBooked
<1> QED BY <1>5, <1>6, <1>8, <1>9 DEF OnceInv

LEMMA RunsItOnce ==
    ASSUME OnceInv, NEW p \in Starts, NEW s \in Scripts, NEW o \in {"ok", "bad", "unreachable"},
           AgentRuns(p, s, o)
    PROVE  OnceInv' /\ RunsNew
<1> DEFINE r == IF o = "unreachable" THEN [starts[p] EXCEPT !.todo = @ \ {s}]
                ELSE [starts[p] EXCEPT !.todo = @ \ {s}, !.results = @ \cup {<<s, o>>}]
           u == UserOf(p)
<1>1. starts[p] \in StartRecord /\ starts[p].pc = "run" /\ s \in starts[p].todo
  BY DEF OnceInv, OnceTypeOK, StartRecord, AgentRuns
<1>2. r \in StartRecord
  <2>1. CASE o = "unreachable"
    BY <1>1, <2>1 DEF StartRecord
  <2>2. CASE o # "unreachable"
    <3>1. starts[p].results \cup {<<s, o>>} \in SUBSET Result
      BY <1>1, <2>2 DEF StartRecord, Result
    <3> QED BY <1>1, <2>2, <3>1 DEF StartRecord
  <2> QED BY <2>1, <2>2
<1>3. /\ r.pc = "run" /\ r.user = starts[p].user /\ r.todo = starts[p].todo \ {s}
      /\ r.results = starts[p].results \cup (IF o = "unreachable" THEN {} ELSE {<<s, o>>})
  BY <1>1 DEF StartRecord
<1>4. /\ Becomes(p, r) /\ UNCHANGED <<scripts, booked>>
      /\ had' = had \cup (IF o = "unreachable" THEN {} ELSE {<<u, s>>})
  BY DEF AgentRuns
<1> HIDE DEF r
<1>5. u \in Users /\ starts[p].user = {u}
  BY <1>1, ItsUser
<1> HIDE DEF u
<1>6. /\ starts' \in [Starts -> StartRecord] /\ starts'[p] = r
      /\ \A q \in Starts \ {p} : starts'[q] = starts[q]
  BY <1>2, <1>4, BecomesIt DEF OnceInv
<1>7. had' \subseteq Runs
  BY <1>4, <1>5 DEF OnceInv, OnceTypeOK, Runs
<1>8. OnceTypeOK'
  BY <1>4, <1>6, <1>7 DEF OnceInv, OnceTypeOK, StartRecord
<1>9. OneStart'
  BY <1>1, <1>3, <1>6 DEF OnceInv, OneStart
<1>10. booked[<<u, s>>] = "no" /\ scripts[s] # "gone" /\ <<u, s>> \notin had
  BY <1>1, <1>5 DEF OnceInv, YetToRun
<1>11. YetToRun'
  <2> SUFFICES ASSUME NEW q \in Starts, NEW t \in Scripts, NEW v \in starts'[q].user,
                      t \in starts'[q].todo \/ (\E x \in starts'[q].results : x[1] = t)
               PROVE  /\ booked'[<<v, t>>] = "no" /\ scripts'[t] # "gone"
                      /\ t \in starts'[q].todo => <<v, t>> \notin had'
    BY DEF YetToRun
  <2>1. CASE q = p
    <3>1. v = u /\ (t = s \/ t \in starts[p].todo \/ \E x \in starts[p].results : x[1] = t)
      BY <1>3, <1>5, <1>6, <2>1
    <3>2. t \in starts'[p].todo => t # s /\ t \in starts[p].todo
      BY <1>3, <1>6
    <3> QED BY <1>4, <1>5, <1>10, <2>1, <3>1, <3>2 DEF OnceInv, YetToRun
  <2>2. CASE q # p
    <3>1. v # u
      BY <1>5, <1>6, <2>2 DEF OnceInv, OneStart
    <3> QED BY <1>4, <1>6, <2>2, <3>1 DEF OnceInv, YetToRun
  <2> QED BY <2>1, <2>2
<1>12. WillBeBooked'
  <2> SUFFICES ASSUME NEW v \in Users, NEW t \in Scripts, <<v, t>> \in had', booked'[<<v, t>>] = "no"
               PROVE  \E q \in Starts : v \in starts'[q].user /\ \E x \in starts'[q].results : x[1] = t
    BY DEF WillBeBooked
  <2>1. CASE <<v, t>> \in had
    <3>1. PICK q \in Starts : v \in starts[q].user /\ \E x \in starts[q].results : x[1] = t
      BY <1>4, <2>1 DEF OnceInv, WillBeBooked
    <3> QED BY <1>3, <1>6, <3>1
  <2>2. CASE <<v, t>> \notin had
    <3>1. v = u /\ t = s /\ o # "unreachable"
      BY <1>4, <2>2
    <3>2. v \in starts'[p].user /\ <<s, o>> \in starts'[p].results /\ <<s, o>>[1] = t
      BY <1>3, <1>5, <1>6, <3>1
    <3> QED BY <3>2
  <2> QED BY <2>1, <2>2
<1>13. RunsNew
  BY <1>3, <1>6, <1>10 DEF RunsNew, u
<1> QED BY <1>8, <1>9, <1>11, <1>12, <1>13 DEF OnceInv

\* A start that ends and leaves nothing behind that was run and is not booked.
LEMMA EndsOnce ==
    ASSUME OnceInv, NEW p \in Starts, Becomes(p, NoStart), UNCHANGED <<scripts, had>>,
           booked' \in [Runs -> {"no", "ok", "bad"}],
           \A v \in Users, t \in Scripts : v \notin starts[p].user => booked'[<<v, t>>] = booked[<<v, t>>],
           \A v \in starts[p].user, t \in Scripts :
               IF \E x \in starts[p].results : x[1] = t THEN booked'[<<v, t>>] # "no"
               ELSE booked'[<<v, t>>] = booked[<<v, t>>]
    PROVE  OnceInv'
<1>1. /\ starts' \in [Starts -> StartRecord] /\ starts'[p] = NoStart
      /\ \A q \in Starts \ {p} : starts'[q] = starts[q]
  BY BecomesIt, NoStartFits DEF OnceInv
<1>2. OnceTypeOK'
  BY <1>1 DEF OnceInv, OnceTypeOK, StartRecord
<1>5. OneStart'
  BY <1>1, NoStartFits DEF OnceInv, OneStart
<1>3. YetToRun'
  <2> SUFFICES ASSUME NEW q \in Starts, NEW t \in Scripts, NEW v \in starts'[q].user,
                      t \in starts'[q].todo \/ (\E x \in starts'[q].results : x[1] = t)
               PROVE  /\ booked'[<<v, t>>] = "no" /\ scripts'[t] # "gone"
                      /\ t \in starts'[q].todo => <<v, t>> \notin had'
    BY DEF YetToRun
  <2>1. q # p /\ starts'[q] = starts[q]
    BY <1>1, NoStartFits
  <2>2. v \in Users /\ v \notin starts[p].user
    BY <2>1 DEF OnceInv, OneStart, OnceTypeOK
  <2>3. booked'[<<v, t>>] = booked[<<v, t>>]
    BY <2>2
  <2> QED BY <2>1, <2>3 DEF OnceInv, YetToRun
<1>4. WillBeBooked'
  <2> SUFFICES ASSUME NEW v \in Users, NEW t \in Scripts, <<v, t>> \in had', booked'[<<v, t>>] = "no"
               PROVE  \E q \in Starts : v \in starts'[q].user /\ \E x \in starts'[q].results : x[1] = t
    BY DEF WillBeBooked
  <2>1. booked[<<v, t>>] = "no"
    OBVIOUS
  <2>2. PICK q \in Starts : v \in starts[q].user /\ \E x \in starts[q].results : x[1] = t
    BY <2>1 DEF OnceInv, WillBeBooked
  <2>3. q # p
    BY <2>2
  <2> QED BY <1>1, <2>2, <2>3
<1> QED BY <1>2, <1>3, <1>4, <1>5 DEF OnceInv

LEMMA BooksOnce ==
    ASSUME OnceInv, NEW p \in Starts, Book(p)
    PROVE  OnceInv'
<1> DEFINE u == UserOf(p)
           results == starts[p].results
<1>1. u \in Users /\ starts[p].user = {u} /\ results \subseteq Result
  BY ItsUser DEF Book, OnceInv, OnceTypeOK
<1>2. \A x \in results : booked[<<u, x[1]>>] = "no" /\ scripts[x[1]] # "gone"
  BY <1>1 DEF OnceInv, YetToRun, Result
<1>3. booked' = [r \in Runs |-> CASE r[1] = u /\ <<r[2], "ok">> \in results -> "ok"
                                  [] r[1] = u /\ <<r[2], "bad">> \in results -> "bad"
                                  [] OTHER -> booked[r]]
  BY <1>2 DEF Book
<1> HIDE DEF u, results
<1>4. booked \in [Runs -> {"no", "ok", "bad"}]
  BY DEF OnceInv, OnceTypeOK
<1>5. ASSUME NEW v \in Users, NEW t \in Scripts
      PROVE  booked'[<<v, t>>] = CASE v = u /\ <<t, "ok">> \in results -> "ok"
                                   [] v = u /\ <<t, "bad">> \in results -> "bad"
                                   [] OTHER -> booked[<<v, t>>]
  BY <1>3 DEF Runs
<1>6. booked' \in [Runs -> {"no", "ok", "bad"}]
  BY <1>3, <1>4
<1>7. \A v \in Users, t \in Scripts : v \notin starts[p].user => booked'[<<v, t>>] = booked[<<v, t>>]
  BY <1>1, <1>5
<1>8. ASSUME NEW t \in Scripts
      PROVE  IF \E x \in results : x[1] = t THEN booked'[<<u, t>>] # "no"
             ELSE booked'[<<u, t>>] = booked[<<u, t>>]
  <2>1. CASE \E x \in results : x[1] = t
    <3>1. <<t, "ok">> \in results \/ <<t, "bad">> \in results
      BY <1>1, <2>1 DEF Result
    <3> QED BY <1>1, <1>5, <2>1, <3>1
  <2>2. CASE ~\E x \in results : x[1] = t
    <3>1. <<t, "ok">> \notin results /\ <<t, "bad">> \notin results
      BY <2>2
    <3> QED BY <1>1, <1>5, <2>2, <3>1
  <2> QED BY <2>1, <2>2
<1>9. Becomes(p, NoStart) /\ UNCHANGED <<scripts, had>>
  BY DEF Book
<1> QED BY <1>1, <1>6, <1>7, <1>8, <1>9, EndsOnce DEF results

LEMMA FailsOnce ==
    ASSUME OnceInv, Careful, NEW p \in Starts, StartFails(p)
    PROVE  OnceInv'
<1>1. Becomes(p, NoStart) /\ UNCHANGED <<scripts, had, booked>> /\ starts[p].results = {}
  BY DEF StartFails
<1>2. booked' \in [Runs -> {"no", "ok", "bad"}]
  BY <1>1 DEF OnceInv, OnceTypeOK
<1> QED BY <1>1, <1>2, EndsOnce

LEMMA AnswersOnce ==
    ASSUME OnceInv, NEW p \in Starts, AgentAnswers(p)
    PROVE  OnceInv'
<1> DEFINE r == [starts[p] EXCEPT !.pc = "book"]
<1>1. starts[p] \in StartRecord /\ starts[p].pc = "run"
  BY DEF OnceInv, OnceTypeOK, StartRecord, AgentAnswers
<1>2. /\ r \in StartRecord /\ r.pc = "book" /\ r.user = starts[p].user /\ r.todo = starts[p].todo
      /\ r.results = starts[p].results
  BY <1>1 DEF StartRecord
<1>3. Becomes(p, r) /\ UNCHANGED <<scripts, booked, had>>
  BY DEF AgentAnswers
<1> HIDE DEF r
<1>4. /\ starts' \in [Starts -> StartRecord] /\ starts'[p] = r
      /\ \A q \in Starts \ {p} : starts'[q] = starts[q]
  BY <1>2, <1>3, BecomesIt DEF OnceInv
<1>5. \A q \in Starts : /\ starts'[q].user = starts[q].user /\ starts'[q].todo = starts[q].todo
                        /\ starts'[q].results = starts[q].results
  BY <1>2, <1>4
<1>6. OnceTypeOK'
  BY <1>3, <1>4 DEF OnceInv, OnceTypeOK, StartRecord
<1>7. OneStart'
  BY <1>1, <1>2, <1>4, <1>5 DEF OnceInv, OneStart
<1>8. YetToRun'
  BY <1>3, <1>5 DEF OnceInv, YetToRun
<1>9. WillBeBooked'
  BY <1>3, <1>5 DEF OnceInv, WillBeBooked
<1> QED BY <1>6, <1>7, <1>8, <1>9 DEF OnceInv

LEMMA SavesOnce ==
    ASSUME OnceInv, NEW s \in Scripts, NEW state \in {"on", "off"}, Save(s, state)
    PROVE  OnceInv'
<1>1. /\ scripts' \in [Scripts -> {"none", "on", "off", "gone"}] /\ UNCHANGED <<booked, starts, had>>
      /\ \A t \in Scripts : scripts[t] # "gone" => scripts'[t] # "gone"
  BY DEF Save, OnceInv, OnceTypeOK
<1> QED BY <1>1 DEF OnceInv, OnceTypeOK, OneStart, YetToRun, WillBeBooked, NoStart

LEMMA DeletesOnce ==
    ASSUME OnceInv, Careful, NEW s \in Scripts, Delete(s)
    PROVE  OnceInv'
<1>1. \A p \in Starts : starts'[p].user = {} /\ starts' = starts
  BY NoStartFits DEF Delete
<1>2. /\ scripts' \in [Scripts -> {"none", "on", "off", "gone"}] /\ had' \subseteq Runs
      /\ booked' \in [Runs -> {"no", "ok", "bad"}] /\ UNCHANGED starts
  BY DEF Delete, OnceInv, OnceTypeOK
<1>3. ASSUME NEW u \in Users, NEW t \in Scripts, <<u, t>> \in had'
      PROVE  <<u, t>> \in had /\ booked'[<<u, t>>] = booked[<<u, t>>]
  <2>1. <<u, t>> \in had /\ t # s
    BY <1>3 DEF Delete
  <2>2. <<u, t>> \in Runs
    BY DEF Runs
  <2> QED BY <2>1, <2>2 DEF Delete
<1>4. OneStart' /\ YetToRun'
  BY <1>1, <1>2 DEF OnceInv, OneStart, YetToRun, NoStart
<1>5. WillBeBooked'
  BY <1>1, <1>3 DEF OnceInv, WillBeBooked
<1> QED BY <1>2, <1>4, <1>5 DEF OnceInv, OnceTypeOK

LEMMA AgainOnce ==
    ASSUME OnceInv, NEW s \in Scripts, NEW o \in BOOLEAN, Again(s, o)
    PROVE  OnceInv'
<1> DEFINE reset == {r \in Runs : r[2] = s /\ booked[r] \in IF o THEN {"bad"} ELSE {"ok", "bad"}}
<1>1. /\ booked' = [r \in Runs |-> IF r \in reset THEN "no" ELSE booked[r]]
      /\ had' = had \ reset /\ UNCHANGED <<scripts, starts>>
  BY DEF Again
<1>2. \A r \in reset : r \in Runs /\ booked[r] # "no"
  OBVIOUS
<1> HIDE DEF reset
<1>3. booked' \in [Runs -> {"no", "ok", "bad"}] /\ had' \subseteq Runs
  BY <1>1 DEF OnceInv, OnceTypeOK
<1>4. ASSUME NEW u \in Users, NEW t \in Scripts
      PROVE  /\ booked[<<u, t>>] = "no" => booked'[<<u, t>>] = "no"
             /\ <<u, t>> \in had' => <<u, t>> \in had /\ booked'[<<u, t>>] = booked[<<u, t>>]
  BY <1>1, <1>2 DEF Runs
<1>5. YetToRun'
  <2> SUFFICES ASSUME NEW p \in Starts, NEW t \in Scripts, NEW u \in starts[p].user,
                      t \in starts[p].todo \/ (\E x \in starts[p].results : x[1] = t)
               PROVE  /\ booked'[<<u, t>>] = "no" /\ scripts[t] # "gone"
                      /\ t \in starts[p].todo => <<u, t>> \notin had'
    BY <1>1 DEF YetToRun
  <2>1. u \in Users
    BY DEF OnceInv, OnceTypeOK
  <2>2. /\ booked[<<u, t>>] = "no" /\ scripts[t] # "gone"
        /\ t \in starts[p].todo => <<u, t>> \notin had
    BY DEF OnceInv, YetToRun
  <2> QED BY <1>4, <2>1, <2>2
<1>6. WillBeBooked'
  BY <1>1, <1>4 DEF OnceInv, WillBeBooked
<1> QED BY <1>1, <1>3, <1>5, <1>6 DEF OnceInv, OnceTypeOK, OneStart, NoStart

LEMMA StepOnce ==
    ASSUME OnceInv, Careful, [OnceNext]_onceVars
    PROVE  OnceInv' /\ [RunsNew]_onceVars
<1>1. CASE UNCHANGED onceVars
  <2>1. UNCHANGED <<scripts, booked, starts, had>>
    BY <1>1 DEF onceVars
  <2> QED BY <1>1, <2>1 DEF OnceInv, OnceTypeOK, OneStart, YetToRun, WillBeBooked, NoStart
<1>2. ASSUME NEW p \in Starts, NEW u \in Users, StartReads(p, u) PROVE OnceInv' /\ RunsNew
  <2>1. Becomes(p, [pc |-> "run", user |-> {u}, todo |-> Missing(u), results |-> {}])
    BY <1>2 DEF StartReads
  <2>2. \A q \in Starts : starts'[q].results \ starts[q].results = {}
    BY <2>1 DEF Becomes, OnceInv, OnceTypeOK
  <2> QED BY <1>2, <2>2, ReadsOnce DEF RunsNew
<1>3. ASSUME NEW p \in Starts, NEW s \in Scripts, NEW o \in {"ok", "bad", "unreachable"},
             AgentRuns(p, s, o)
      PROVE  OnceInv' /\ RunsNew
  BY <1>3, RunsItOnce
<1>4. ASSUME NEW p \in Starts, AgentAnswers(p) PROVE OnceInv' /\ RunsNew
  <2>1. \A q \in Starts : starts'[q].results \ starts[q].results = {}
    BY <1>4 DEF AgentAnswers, Becomes, OnceInv, OnceTypeOK
  <2> QED BY <1>4, <2>1, AnswersOnce DEF RunsNew
<1>5. ASSUME NEW p \in Starts, StartFails(p) \/ Book(p) PROVE OnceInv' /\ RunsNew
  <2>1. Becomes(p, NoStart)
    BY <1>5 DEF StartFails, Book
  <2>2. \A q \in Starts : starts'[q].results \ starts[q].results = {}
    BY <2>1, NoStartFits DEF Becomes, OnceInv, OnceTypeOK
  <2> QED BY <1>5, <2>2, FailsOnce, BooksOnce DEF RunsNew
<1>6. ASSUME NEW s \in Scripts,
             (\E state \in {"on", "off"} : Save(s, state)) \/ Delete(s) \/ (\E o \in BOOLEAN : Again(s, o))
      PROVE  OnceInv' /\ RunsNew
  <2>1. UNCHANGED starts
    BY <1>6 DEF Save, Delete, Again
  <2> QED BY <1>6, <2>1, SavesOnce, DeletesOnce, AgainOnce DEF RunsNew
<1> QED BY <1>1, <1>2, <1>3, <1>4, <1>5, <1>6 DEF OnceNext

\* As long as a user starts one desk at a time, answers arrive and no script is deleted under
\* a start, no user gets a script twice between two resets by an administrator, whatever the
\* scripts return and however many desks start beside one another (OnceScript, "je Nutzer
\* genau einmal").
THEOREM ScriptsRunOnce == ASSUME Careful PROVE OnceSpec => RunsOnce
<1>1. OnceInit => OnceInv
  BY InitOnce
<1>2. OnceInv /\ [OnceNext]_onceVars => OnceInv' /\ [RunsNew]_onceVars
  BY StepOnce
<1> QED BY <1>1, <1>2, PTL DEF OnceSpec, RunsOnce

\* A start that is under way is somebody's, whoever else starts.
StartsOwned == \A p \in Starts : starts[p].pc # "idle" => \E u \in Users : u \in starts[p].user

LEMMA OwnedStarts ==
    ASSUME OnceTypeOK, StartsOwned, NEW p \in Starts, NEW r \in StartRecord, Becomes(p, r),
           r.pc # "idle" => starts[p].pc # "idle" /\ r.user = starts[p].user,
           scripts' \in [Scripts -> {"none", "on", "off", "gone"}],
           booked' \in [Runs -> {"no", "ok", "bad"}], had' \subseteq Runs
    PROVE  (OnceTypeOK /\ StartsOwned)'
<1>1. starts' \in [Starts -> StartRecord] /\ starts'[p] = r /\ \A q \in Starts \ {p} : starts'[q] = starts[q]
  BY BecomesIt
<1>2. OnceTypeOK'
  BY <1>1 DEF OnceTypeOK, StartRecord
<1>3. ASSUME NEW q \in Starts, starts'[q].pc # "idle" PROVE \E u \in Users : u \in starts'[q].user
  <2>1. CASE q = p
    BY <1>1, <1>3, <2>1 DEF StartsOwned
  <2>2. CASE q # p
    BY <1>1, <1>3, <2>2 DEF StartsOwned
  <2> QED BY <2>1, <2>2
<1> QED BY <1>2, <1>3 DEF StartsOwned

LEMMA OnceStepTyped ==
    ASSUME OnceTypeOK, StartsOwned, OnceNext PROVE (OnceTypeOK /\ StartsOwned)'
<1>t. /\ scripts \in [Scripts -> {"none", "on", "off", "gone"}] /\ booked \in [Runs -> {"no", "ok", "bad"}]
      /\ had \subseteq Runs /\ \A p \in Starts : starts[p] \in StartRecord
  BY DEF OnceTypeOK, StartRecord
<1>u. \A p \in Starts : starts[p].pc # "idle" => UserOf(p) \in Users
  BY DEF StartsOwned, UserOf
<1>1. ASSUME NEW p \in Starts, NEW u \in Users, StartReads(p, u) PROVE (OnceTypeOK /\ StartsOwned)'
  <2> DEFINE r == [pc |-> "run", user |-> {u}, todo |-> Missing(u), results |-> {}]
  <2>1. r \in StartRecord
    BY DEF StartRecord, Missing
  <2>2. starts' \in [Starts -> StartRecord] /\ starts'[p] = r /\ \A q \in Starts \ {p} : starts'[q] = starts[q]
    BY <1>1, <2>1, BecomesIt DEF StartReads
  <2>3. OnceTypeOK'
    BY <1>1, <1>t, <2>2 DEF OnceTypeOK, StartRecord, StartReads
  <2>4. u \in starts'[p].user
    BY <2>2
  <2>5. \A q \in Starts : starts'[q].pc # "idle" => \E v \in Users : v \in starts'[q].user
    BY <2>2, <2>4 DEF StartsOwned
  <2> QED BY <2>3, <2>5 DEF StartsOwned
<1>2. ASSUME NEW p \in Starts, NEW s \in Scripts, NEW o \in {"ok", "bad", "unreachable"}, AgentRuns(p, s, o)
      PROVE  (OnceTypeOK /\ StartsOwned)'
  <2>1. CASE o = "unreachable"
    <3> DEFINE r == [starts[p] EXCEPT !.todo = @ \ {s}]
    <3>1. r \in StartRecord /\ r.user = starts[p].user
      BY <1>t DEF StartRecord
    <3>2. Becomes(p, r) /\ starts[p].pc # "idle"
      BY <1>2, <2>1 DEF AgentRuns
    <3> QED BY <1>2, <1>t, <2>1, <3>1, <3>2, OwnedStarts DEF AgentRuns
  <2>2. CASE o # "unreachable"
    <3> DEFINE r == [starts[p] EXCEPT !.todo = @ \ {s}, !.results = @ \cup {<<s, o>>}]
    <3>1. starts[p] \in StartRecord /\ <<s, o>> \in Result
      BY <1>t, <2>2 DEF Result
    <3>2. r \in StartRecord /\ r.user = starts[p].user
      BY <3>1 DEF StartRecord
    <3>3. Becomes(p, r) /\ starts[p].pc # "idle"
      BY <1>2, <2>2 DEF AgentRuns
    <3>4. had' \subseteq Runs
      BY <1>2, <1>t, <1>u, <2>2, <3>3 DEF AgentRuns, Runs
    <3> QED BY <1>2, <1>t, <3>2, <3>3, <3>4, OwnedStarts DEF AgentRuns
  <2> QED BY <2>1, <2>2
<1>3. ASSUME NEW p \in Starts, AgentAnswers(p) PROVE (OnceTypeOK /\ StartsOwned)'
  <2> DEFINE r == [starts[p] EXCEPT !.pc = "book"]
  <2>1. r \in StartRecord /\ r.user = starts[p].user
    BY <1>t DEF StartRecord
  <2> QED BY <1>3, <1>t, <2>1, OwnedStarts DEF AgentAnswers
<1>4. ASSUME NEW p \in Starts, StartFails(p) PROVE (OnceTypeOK /\ StartsOwned)'
  BY <1>4, <1>t, NoStartFits, OwnedStarts DEF StartFails
<1>5. ASSUME NEW p \in Starts, Book(p) PROVE (OnceTypeOK /\ StartsOwned)'
  <2>1. booked' \in [Runs -> {"no", "ok", "bad"}]
    BY <1>5, <1>t DEF Book
  <2> QED BY <1>5, <1>t, <2>1, NoStartFits, OwnedStarts DEF Book
<1>6. ASSUME NEW s \in Scripts,
             (\E state \in {"on", "off"} : Save(s, state)) \/ Delete(s) \/ (\E o \in BOOLEAN : Again(s, o))
      PROVE  (OnceTypeOK /\ StartsOwned)'
  BY <1>6, <1>t DEF Save, Delete, Again, OnceTypeOK, StartsOwned, Runs
<1> QED BY <1>1, <1>2, <1>3, <1>4, <1>5, <1>6 DEF OnceNext

\* The scripts, what is booked and what the starts carry stay well typed, also when answers are lost,
\* users start desks side by side and scripts are deleted meanwhile.
THEOREM OnceTypes == OnceSpec => []OnceTypeOK
<1>1. OnceInit => OnceTypeOK /\ StartsOwned
  BY NoStartFits DEF OnceInit, OnceTypeOK, StartsOwned, StartRecord, Runs
<1>2. OnceTypeOK /\ StartsOwned /\ [OnceNext]_onceVars => (OnceTypeOK /\ StartsOwned)'
  BY OnceStepTyped DEF OnceTypeOK, StartsOwned, onceVars
<1> QED BY <1>1, <1>2, PTL DEF OnceSpec

-----------------------------------------------------------------------------
(* The clipboard: while no copy and no new bridge comes in between, what is      *)
(* written is the newest copy.                                                   *)

Smooth == ~crowded /\ installs = 0

NoneAhead ==
    /\ \A d \in Displays : contents[d] <= copies /\ (d \notin open => contents[d] = 0)
    /\ \A w \in writes : w[1] \in open /\ w[2] <= copies
    /\ bridge.last <= copies /\ bridge.source <= copies
    /\ bridge.all \subseteq open /\ bridge.left \subseteq bridge.all
    /\ bridge.pc # "wait" => writes = {}
    /\ bridge.pc = "spread" => bridge.source > 0

\* The bridge has seen the newest copy: it is on its way to every display that has another.
Carried ==
    /\ \A w \in writes : w[2] = copies
    /\ bridge.pc = "spread" => bridge.source = copies /\ \A d \in bridge.left : contents[d] # copies
    /\ bridge.pc # "wait" => \A d \in open \ bridge.all : contents[d] = 0
    /\ \A d \in open : \/ contents[d] \in {0, copies}
                       \/ <<d, copies>> \in writes
                       \/ bridge.pc = "spread" /\ d \in bridge.left

\* The bridge has not seen it yet: only one display has it, the others what was spread last.
Ahead ==
    /\ writes = {}
    /\ bridge.pc = "spread" => bridge.left = {}
    /\ bridge.pc # "wait" => \A d \in open \ bridge.all : contents[d] \in {0, copies}
    /\ \A d \in open : contents[d] \in {0, copies, bridge.last}
    /\ \A d, e \in open : contents[d] = copies /\ contents[e] = copies /\ copies > 0 => d = e

ToSpread == Smooth => IF bridge.last = copies THEN Carried ELSE Ahead

ClipInv == ClipTypeOK /\ NoneAhead /\ ToSpread

Bridges == [pc : {"wait", "scan", "spread"}, all : SUBSET Displays, left : SUBSET Displays,
            source : 0 .. MaxCopies, last : -1 .. MaxCopies]

LEMMA ClipNumbers ==
    ASSUME ClipboardAssumption, ClipInv
    PROVE  /\ MaxCopies \in Nat /\ MaxInstalls \in Nat /\ open \subseteq Displays
           /\ copies \in Nat /\ copies <= MaxCopies /\ bridge \in Bridges
           /\ bridge.last \in Int /\ bridge.last <= copies
           /\ bridge.source \in Nat /\ bridge.source <= copies
           /\ \A d \in Displays : contents[d] \in Nat /\ contents[d] <= copies
           /\ \A w \in writes : w[1] \in Displays /\ w[2] \in Nat /\ w[2] <= copies /\ w[2] > 0
                                /\ w = <<w[1], w[2]>> /\ w[2] \in 1 .. MaxCopies
BY DEF ClipboardAssumption, ClipInv, ClipTypeOK, NoneAhead, Bridges

LEMMA InitClip == ASSUME ClipboardAssumption, ClipInit PROVE ClipInv
<1>1. Fresh \in Bridges /\ Fresh.pc = "wait" /\ Fresh.all = {} /\ Fresh.left = {}
      /\ Fresh.source = 0 /\ Fresh.last = -1
  BY DEF Fresh, Bridges, Unknown, ClipboardAssumption
<1>2. bridge = Fresh
  BY DEF ClipInit
<1>3. ClipTypeOK
  <2>1. 0 \in 0 .. MaxCopies /\ 0 \in 0 .. MaxInstalls
    BY DEF ClipboardAssumption
  <2> QED BY <1>1, <1>2, <2>1 DEF ClipboardAssumption, ClipInit, ClipTypeOK, Bridges
<1>4. NoneAhead /\ ToSpread
  BY <1>1, <1>2 DEF ClipboardAssumption, ClipInit, NoneAhead, ToSpread, Ahead
<1> QED BY <1>3, <1>4 DEF ClipInv

LEMMA CopyClip ==
    ASSUME ClipboardAssumption, ClipInv, NEW d \in Displays, Copy(d)
    PROVE  ClipInv' /\ WritesNewer
<1> USE ClipNumbers
<1>1. /\ d \in open /\ copies < MaxCopies /\ copies' = copies + 1
      /\ crowded' = (crowded \/ ~InStep)
      /\ UNCHANGED <<open, writes, bridge, installs>>
      /\ contents'[d] = copies + 1 /\ \A e \in Displays \ {d} : contents'[e] = contents[e]
      /\ contents' \in [Displays -> 0 .. MaxCopies]
  BY DEF Copy, ClipInv, ClipTypeOK
<1>2. crowded' \in BOOLEAN
  BY <1>1 DEF ClipInv, ClipTypeOK
<1>3. ClipTypeOK'
  BY <1>1, <1>2 DEF ClipInv, ClipTypeOK
<1>4. NoneAhead'
  BY <1>1 DEF ClipInv, NoneAhead
<1>5. ASSUME Smooth' PROVE bridge'.last # copies' /\ Ahead'
  <2>1. Smooth /\ writes = {} /\ \A e \in open : contents[e] = copies
    BY <1>1, <1>5 DEF Smooth, InStep
  <2>2. bridge'.last # copies'
    BY <1>1
  <2>3. CASE bridge.last = copies
    <3>1. Carried
      BY <2>1, <2>3 DEF ClipInv, ToSpread
    <3>2. bridge.pc = "spread" => bridge.left = {}
      BY <2>1, <3>1 DEF Carried, ClipInv, NoneAhead
    <3>3. bridge.pc # "wait" => \A e \in open \ bridge.all : contents'[e] \in {0, copies + 1}
      BY <1>1, <3>1 DEF Carried
    <3>4. \A e \in open : contents'[e] \in {0, copies + 1, bridge.last}
      BY <1>1, <2>1, <2>3
    <3>5. \A e, f \in open : contents'[e] = copies + 1 /\ contents'[f] = copies + 1 => e = f
      BY <1>1
    <3> QED BY <1>1, <2>1, <2>2, <3>2, <3>3, <3>4, <3>5 DEF Ahead
  <2>4. CASE bridge.last # copies
    <3>1. Ahead
      BY <2>1, <2>4 DEF ClipInv, ToSpread
    <3>2. \A e \in open : contents'[e] \in {0, copies + 1}
      <4> SUFFICES ASSUME NEW e \in open, e # d PROVE contents[e] = 0
        BY <1>1
      <4>1. contents[e] = copies /\ contents[d] = copies
        BY <1>1, <2>1
      <4> QED BY <1>1, <3>1, <4>1 DEF Ahead
    <3>3. \A e, f \in open : contents'[e] = copies + 1 /\ contents'[f] = copies + 1 => e = f
      BY <1>1
    <3> QED BY <1>1, <2>2, <3>1, <3>2, <3>3 DEF Ahead
  <2> QED BY <2>3, <2>4
<1>6. ToSpread'
  BY <1>5 DEF ToSpread
<1>7. WritesNewer
  BY <1>1 DEF WritesNewer
<1> QED BY <1>3, <1>4, <1>6, <1>7 DEF ClipInv

LEMMA OpenClip ==
    ASSUME ClipboardAssumption, ClipInv, NEW d \in Displays, Open(d)
    PROVE  ClipInv' /\ WritesNewer
<1> USE ClipNumbers
<1>1. /\ d \notin open /\ open' = open \cup {d} /\ contents[d] = 0
      /\ UNCHANGED <<contents, writes, bridge, copies, crowded, installs>>
  BY DEF Open, ClipInv, NoneAhead
<1>2. ClipTypeOK' /\ NoneAhead'
  BY <1>1 DEF ClipInv, ClipTypeOK, NoneAhead
<1>3. Carried => Carried'
  BY <1>1 DEF Carried
<1>4. Ahead => Ahead'
  BY <1>1 DEF Ahead
<1>5. ToSpread'
  BY <1>1, <1>3, <1>4 DEF ClipInv, ToSpread, Smooth
<1> QED BY <1>1, <1>2, <1>5 DEF ClipInv, WritesNewer

\* Nothing but the bridge changes.
OnlyBridge == UNCHANGED <<open, contents, writes, copies, crowded, installs>>

LEMMA BridgeClip ==
    ASSUME ClipboardAssumption, ClipInv, OnlyBridge, bridge' \in Bridges,
           bridge'.last <= copies, bridge'.source <= copies,
           bridge'.all \subseteq open, bridge'.left \subseteq bridge'.all,
           bridge'.pc # "wait" => writes = {}, bridge'.pc = "spread" => bridge'.source > 0,
           Smooth => IF bridge'.last = copies THEN Carried' ELSE Ahead'
    PROVE  ClipInv' /\ WritesNewer
<1>1. ClipTypeOK'
  BY DEF OnlyBridge, ClipInv, ClipTypeOK, Bridges
<1>2. NoneAhead'
  BY DEF OnlyBridge, ClipInv, NoneAhead
<1>3. ToSpread'
  BY DEF OnlyBridge, ToSpread, Smooth
<1>4. WritesNewer
  BY ClipNumbers DEF OnlyBridge, WritesNewer
<1> QED BY <1>1, <1>2, <1>3, <1>4 DEF ClipInv

LEMMA BeginClip ==
    ASSUME ClipboardAssumption, ClipInv, ~Late, Begin
    PROVE  ClipInv' /\ WritesNewer
<1> USE ClipNumbers
<1>1. bridge' = [bridge EXCEPT !.pc = "scan", !.all = open, !.left = open] /\ OnlyBridge /\ writes = {}
  BY DEF Begin, OnlyBridge
<1>2. /\ bridge' \in Bridges /\ bridge'.pc = "scan" /\ bridge'.all = open /\ bridge'.left = open
      /\ bridge'.source = bridge.source /\ bridge'.last = bridge.last
  BY <1>1 DEF Bridges
<1>3. /\ Carried => Carried'
      /\ Ahead => Ahead'
  BY <1>1, <1>2 DEF Carried, Ahead, OnlyBridge, Begin
<1> QED BY <1>1, <1>2, <1>3, BridgeClip DEF ClipInv, ToSpread

LEMMA LookClip ==
    ASSUME ClipboardAssumption, ClipInv, NEW d \in Displays, Look(d)
    PROVE  ClipInv' /\ WritesNewer
<1> USE ClipNumbers
<1>1. OnlyBridge /\ bridge.pc = "scan" /\ d \in bridge.left /\ d \in bridge.all /\ d \in open /\ writes = {}
      /\ bridge.all \subseteq open /\ bridge.left \subseteq bridge.all
  BY DEF Look, OnlyBridge, ClipInv, NoneAhead
<1>2. CASE contents[d] \in {0, bridge.last}
  <2>1. bridge' = [bridge EXCEPT !.left = @ \ {d}]
    BY <1>2 DEF Look
  <2>2. /\ bridge' \in Bridges /\ bridge'.pc = bridge.pc /\ bridge'.all = bridge.all
        /\ bridge'.left = bridge.left \ {d}
        /\ bridge'.source = bridge.source /\ bridge'.last = bridge.last
    BY <2>1 DEF Bridges
  <2>3. /\ Carried => Carried'
        /\ Ahead => Ahead'
    BY <1>1, <2>2 DEF Carried, Ahead, OnlyBridge
  <2> QED BY <1>1, <2>2, <2>3, BridgeClip DEF ClipInv, ToSpread
<1>3. CASE contents[d] \notin {0, bridge.last}
  <2>1. bridge' = [bridge EXCEPT !.pc = "spread", !.left = bridge.all \ {d}, !.source = contents[d],
                                 !.last = contents[d]]
    BY <1>3 DEF Look
  <2>2. contents[d] \in 0 .. MaxCopies /\ contents[d] \in -1 .. MaxCopies
    BY DEF ClipInv, ClipTypeOK
  <2>3. /\ bridge' \in Bridges /\ bridge'.pc = "spread" /\ bridge'.all = bridge.all
        /\ bridge'.left = bridge.all \ {d}
        /\ bridge'.source = contents[d] /\ bridge'.last = contents[d]
    BY <1>1, <2>1, <2>2 DEF Bridges
  <2>4. ASSUME Smooth PROVE bridge'.last = copies /\ Carried'
    <3>1. ~Carried \/ bridge.last # copies
      BY <1>1, <1>3 DEF Carried
    <3>2. Ahead
      BY <2>4, <3>1 DEF ClipInv, ToSpread
    <3>3. contents[d] = copies /\ copies > 0
      BY <1>1, <1>3, <3>2 DEF Ahead
    <3>4. \A e \in open \ {d} : contents[e] # copies
      BY <1>1, <3>2, <3>3 DEF Ahead
    <3>5. \A e \in open \ bridge.all : contents[e] = 0
      BY <1>1, <3>2, <3>4 DEF Ahead
    <3>6. \A e \in open : contents[e] = copies \/ contents[e] = 0 \/ e \in bridge.all \ {d}
      BY <3>3, <3>5
    <3> QED BY <1>1, <2>3, <3>3, <3>4, <3>5, <3>6 DEF Carried, OnlyBridge
  <2>5. bridge'.source > 0 /\ bridge'.source <= copies
    BY <1>3, <2>3
  <2> QED BY <1>1, <2>3, <2>4, <2>5, BridgeClip
<1> QED BY <1>2, <1>3

LEMMA NothingClip ==
    ASSUME ClipboardAssumption, ClipInv, NothingNew
    PROVE  ClipInv' /\ WritesNewer
<1> USE ClipNumbers
<1>1. bridge' = [bridge EXCEPT !.pc = "wait", !.all = {}] /\ OnlyBridge /\ bridge.left = {} /\ bridge.pc = "scan"
  BY DEF NothingNew, OnlyBridge
<1>2. /\ bridge' \in Bridges /\ bridge'.pc = "wait" /\ bridge'.all = {} /\ bridge'.left = {}
      /\ bridge'.source = bridge.source /\ bridge'.last = bridge.last
  BY <1>1 DEF Bridges
<1>3. /\ Carried => Carried'
      /\ Ahead => Ahead'
  BY <1>1, <1>2 DEF Carried, Ahead, OnlyBridge
<1> QED BY <1>1, <1>2, <1>3, BridgeClip DEF ClipInv, ToSpread

LEMMA SpreadClip ==
    ASSUME ClipboardAssumption, ClipInv, Spread
    PROVE  ClipInv' /\ WritesNewer
<1> USE ClipNumbers
<1> DEFINE new == {<<d, bridge.source>> : d \in bridge.left}
<1>1. /\ bridge' = [bridge EXCEPT !.pc = "wait", !.all = {}, !.left = {}, !.source = 0]
      /\ writes' = writes \cup new /\ writes = {} /\ bridge.pc = "spread"
      /\ UNCHANGED <<open, contents, copies, crowded, installs>> /\ bridge.left \subseteq open
  BY DEF Spread, ClipInv, NoneAhead
<1>2. /\ bridge' \in Bridges /\ bridge'.pc = "wait" /\ bridge'.all = {} /\ bridge'.left = {}
      /\ bridge'.source = 0 /\ bridge'.last = bridge.last
  <2>1. 0 \in 0 .. MaxCopies
    OBVIOUS
  <2> QED BY <1>1, <2>1 DEF Bridges
<1>3. bridge.source > 0 /\ bridge.source \in 1 .. MaxCopies
  BY <1>1 DEF ClipInv, NoneAhead
<1>4. \A w \in writes' : \E d \in bridge.left : w = <<d, bridge.source>>
  BY <1>1
<1>5. writes' \subseteq Displays \X (1 .. MaxCopies)
  BY <1>1, <1>3
<1>6. ClipTypeOK'
  BY <1>1, <1>2, <1>5 DEF ClipInv, ClipTypeOK, Bridges
<1>7. NoneAhead'
  BY <1>1, <1>2, <1>4 DEF ClipInv, NoneAhead
<1>8. Carried => Carried'
  <2> SUFFICES ASSUME Carried PROVE Carried'
    OBVIOUS
  <2>1. bridge.source = copies
    BY <1>1 DEF Carried
  <2>2. \A d \in bridge.left : <<d, copies>> \in writes'
    BY <1>1, <2>1
  <2>3. \A w \in writes' : w[2] = copies
    BY <1>4, <2>1
  <2> QED BY <1>1, <1>2, <2>2, <2>3 DEF Carried
<1>9. Ahead => Ahead'
  <2> SUFFICES ASSUME Ahead PROVE Ahead'
    OBVIOUS
  <2>1. writes' = {}
    BY <1>1 DEF Ahead
  <2> QED BY <1>1, <1>2, <2>1 DEF Ahead
<1>10. ToSpread'
  BY <1>1, <1>2, <1>8, <1>9 DEF ClipInv, ToSpread, Smooth
<1>11. WritesNewer
  BY <1>1 DEF WritesNewer
<1> QED BY <1>6, <1>7, <1>10, <1>11 DEF ClipInv

LEMMA WrittenClip ==
    ASSUME ClipboardAssumption, ClipInv, NEW w \in Displays \X (1 .. MaxCopies), Written(w)
    PROVE  ClipInv' /\ WritesNewer
<1> USE ClipNumbers
<1>1. /\ w \in writes /\ writes' = writes \ {w} /\ w[1] \in open
      /\ contents' = [contents EXCEPT ![w[1]] = w[2]]
      /\ UNCHANGED <<open, bridge, copies, crowded, installs>>
  BY DEF Written, ClipInv, NoneAhead
<1>2. /\ contents'[w[1]] = w[2] /\ \A d \in Displays \ {w[1]} : contents'[d] = contents[d]
      /\ contents' \in [Displays -> 0 .. MaxCopies]
  BY <1>1 DEF ClipInv, ClipTypeOK
<1>3. ClipTypeOK'
  BY <1>1, <1>2 DEF ClipInv, ClipTypeOK
<1>4. NoneAhead' /\ bridge.pc = "wait"
  BY <1>1, <1>2 DEF ClipInv, NoneAhead
<1>5. ASSUME Smooth PROVE bridge.last = copies /\ Carried /\ w[2] = copies
  <2>1. ~Ahead
    BY <1>1 DEF Ahead
  <2>2. bridge.last = copies /\ Carried
    BY <1>5, <2>1 DEF ClipInv, ToSpread
  <2> QED BY <1>1, <2>2 DEF Carried
<1>6. ASSUME Smooth PROVE Carried'
  <2>1. \A d \in open : contents'[d] \in {0, copies} \/ <<d, copies>> \in writes'
    <3> SUFFICES ASSUME NEW d \in open, d # w[1]
                 PROVE  contents'[d] \in {0, copies} \/ <<d, copies>> \in writes'
      BY <1>1, <1>2, <1>5, <1>6
    <3>1. contents[d] \in {0, copies} \/ <<d, copies>> \in writes
      BY <1>4, <1>5, <1>6 DEF Carried
    <3>2. <<d, copies>> # w
      OBVIOUS
    <3> QED BY <1>1, <1>2, <3>1, <3>2
  <2> QED BY <1>1, <1>2, <1>4, <1>5, <1>6, <2>1 DEF Carried
<1>7. ToSpread'
  BY <1>1, <1>5, <1>6 DEF ToSpread, Smooth
<1>8. WritesNewer
  <2>1. installs \in Nat /\ crowded \in BOOLEAN
    BY DEF ClipInv, ClipTypeOK
  <2>2. Smooth => \A d \in Displays : contents'[d] >= contents[d]
    BY <1>1, <1>2, <1>5
  <2> QED BY <1>1, <2>1, <2>2 DEF WritesNewer, Smooth
<1> QED BY <1>3, <1>4, <1>7, <1>8 DEF ClipInv

LEMMA InstallClip ==
    ASSUME ClipboardAssumption, ClipInv, Install
    PROVE  ClipInv' /\ WritesNewer
<1> USE ClipNumbers
<1>1. /\ bridge' = Fresh /\ installs' = installs + 1 /\ installs < MaxInstalls
      /\ UNCHANGED <<open, contents, writes, copies, crowded>>
  BY DEF Install
<1>2. /\ Fresh \in Bridges /\ Fresh.pc = "wait" /\ Fresh.all = {} /\ Fresh.left = {}
      /\ Fresh.source = 0 /\ Fresh.last = -1
  BY DEF Fresh, Bridges, Unknown
<1>3. installs' \in 0 .. MaxInstalls /\ installs' > 0
  BY <1>1 DEF ClipInv, ClipTypeOK
<1>4. ClipTypeOK'
  BY <1>1, <1>2, <1>3 DEF ClipInv, ClipTypeOK, Bridges
<1>5. NoneAhead'
  BY <1>1, <1>2 DEF ClipInv, NoneAhead
<1>6. ToSpread'
  BY <1>3 DEF ToSpread, Smooth
<1>7. WritesNewer
  BY <1>1 DEF WritesNewer
<1> QED BY <1>4, <1>5, <1>6, <1>7 DEF ClipInv

LEMMA StepClip ==
    ASSUME ClipboardAssumption, ~Late, ClipInv, [ClipNext]_clipVars
    PROVE  ClipInv' /\ [WritesNewer]_clipVars
<1>1. CASE UNCHANGED clipVars
  <2>1. UNCHANGED <<open, contents, writes, bridge, copies, crowded, installs>>
    BY <1>1 DEF clipVars
  <2> QED BY <1>1, <2>1 DEF ClipInv, ClipTypeOK, NoneAhead, ToSpread, Smooth, Carried, Ahead
<1>2. CASE ClipNext
  BY <1>2, CopyClip, OpenClip, LookClip, BeginClip, NothingClip, SpreadClip, InstallClip, WrittenClip
     DEF ClipNext
<1> QED BY <1>1, <1>2

\* The bridge never puts an older copy over a newer one, for any number of displays, opened
\* at any time, unless the user copies again before the copy before has arrived everywhere,
\* or the bridge is installed again in between; writes end before the next round begins.
THEOREM CopiesGoForward ==
    ASSUME ClipboardAssumption, ~Late PROVE ClipSpec => []ClipTypeOK /\ NoOlderCopy
<1>1. ClipInit => ClipInv
  BY InitClip
<1>2. ClipInv /\ [ClipNext]_clipVars => ClipInv' /\ [WritesNewer]_clipVars
  BY StepClip
<1>3. ClipInv => ClipTypeOK
  BY DEF ClipInv
<1> QED BY <1>1, <1>2, <1>3, PTL DEF ClipSpec, NoOlderCopy

\* A bridge that spreads has something to spread.
SpreadsSome == bridge.pc = "spread" => bridge.source > 0

LEMMA ClipStepTyped ==
    ASSUME ClipboardAssumption, ClipTypeOK, SpreadsSome, ClipNext PROVE (ClipTypeOK /\ SpreadsSome)'
<1>t. /\ MaxCopies \in Nat /\ MaxInstalls \in Nat /\ open \subseteq Displays /\ copies \in 0 .. MaxCopies
      /\ bridge \in Bridges /\ bridge.source \in 0 .. MaxCopies /\ bridge.all \subseteq Displays
      /\ bridge.left \subseteq Displays /\ contents \in [Displays -> 0 .. MaxCopies]
      /\ writes \subseteq Displays \X (1 .. MaxCopies) /\ crowded \in BOOLEAN /\ installs \in 0 .. MaxInstalls
  BY DEF ClipboardAssumption, ClipTypeOK, Bridges
<1>b. ASSUME bridge' \in Bridges, bridge'.pc = "spread" => bridge'.source > 0,
             open' \subseteq Displays, writes' \subseteq Displays \X (1 .. MaxCopies),
             UNCHANGED <<contents, copies, crowded>>, installs' \in 0 .. MaxInstalls
      PROVE  (ClipTypeOK /\ SpreadsSome)'
  BY <1>b, <1>t DEF ClipTypeOK, SpreadsSome, Bridges
<1>1. ASSUME NEW d \in Displays, Copy(d) PROVE (ClipTypeOK /\ SpreadsSome)'
  BY <1>1, <1>t DEF Copy, ClipTypeOK, SpreadsSome
<1>2. ASSUME NEW d \in Displays, Open(d) PROVE (ClipTypeOK /\ SpreadsSome)'
  BY <1>2, <1>t DEF Open, ClipTypeOK, SpreadsSome
<1>3. ASSUME NEW d \in Displays, Look(d) PROVE (ClipTypeOK /\ SpreadsSome)'
  <2>1. CASE contents[d] \in {0, bridge.last}
    <3> DEFINE b == [bridge EXCEPT !.left = @ \ {d}]
    <3>1. b \in Bridges /\ b.pc = bridge.pc /\ b.source = bridge.source
      BY <1>t DEF Bridges
    <3>2. bridge' = b
      BY <1>3, <2>1 DEF Look
    <3> QED BY <1>3, <1>b, <1>t, <3>1, <3>2 DEF Look, SpreadsSome
  <2>2. CASE contents[d] \notin {0, bridge.last}
    <3> DEFINE b == [bridge EXCEPT !.pc = "spread", !.left = bridge.all \ {d}, !.source = contents[d],
                                   !.last = contents[d]]
    <3>1. contents[d] \in 0 .. MaxCopies /\ contents[d] > 0 /\ contents[d] \in -1 .. MaxCopies
      BY <1>t, <2>2
    <3>2. b \in Bridges /\ b.source = contents[d]
      BY <1>t, <3>1 DEF Bridges
    <3>3. bridge' = b
      BY <1>3, <2>2 DEF Look
    <3> QED BY <1>3, <1>b, <1>t, <3>1, <3>2, <3>3 DEF Look
  <2> QED BY <2>1, <2>2
<1>4. CASE Begin
  <2> DEFINE b == [bridge EXCEPT !.pc = "scan", !.all = open, !.left = open]
  <2>1. b \in Bridges /\ b.pc = "scan"
    BY <1>t DEF Bridges
  <2> QED BY <1>4, <1>b, <1>t, <2>1 DEF Begin
<1>5. CASE NothingNew
  <2> DEFINE b == [bridge EXCEPT !.pc = "wait", !.all = {}]
  <2>1. b \in Bridges /\ b.pc = "wait"
    BY <1>t DEF Bridges
  <2> QED BY <1>5, <1>b, <1>t, <2>1 DEF NothingNew
<1>6. CASE Spread
  <2> DEFINE b == [bridge EXCEPT !.pc = "wait", !.all = {}, !.left = {}, !.source = 0]
  <2>0. {} \in SUBSET Displays /\ 0 \in 0 .. MaxCopies
    BY <1>t
  <2>1. b \in Bridges /\ b.pc = "wait"
    BY <1>t, <2>0, Zenon DEF Bridges
  <2>2. bridge.source \in 1 .. MaxCopies
    BY <1>6, <1>t DEF Spread, SpreadsSome
  <2>3. writes' \subseteq Displays \X (1 .. MaxCopies)
    BY <1>6, <1>t, <2>2 DEF Spread
  <2> QED BY <1>6, <1>b, <1>t, <2>1, <2>3 DEF Spread
<1>7. CASE Install
  <2>1. Fresh \in Bridges /\ Fresh.pc = "wait"
    BY <1>t DEF Fresh, Bridges, Unknown
  <2>2. installs' \in 0 .. MaxInstalls
    BY <1>7, <1>t DEF Install
  <2> QED BY <1>7, <1>b, <1>t, <2>1, <2>2 DEF Install
<1>8. ASSUME NEW w \in Displays \X (1 .. MaxCopies), Written(w) PROVE (ClipTypeOK /\ SpreadsSome)'
  <2>1. w[2] \in 0 .. MaxCopies /\ w[1] \in Displays
    BY <1>t
  <2>2. contents' \in [Displays -> 0 .. MaxCopies] /\ writes' \subseteq Displays \X (1 .. MaxCopies)
    BY <1>8, <1>t, <2>1 DEF Written
  <2> QED BY <1>8, <1>t, <2>2 DEF Written, ClipTypeOK, SpreadsSome
<1> QED BY <1>1, <1>2, <1>3, <1>4, <1>5, <1>6, <1>7, <1>8 DEF ClipNext

\* Clipboards, bridge and writes stay well typed, also when a write outlasts the round that began it.
THEOREM ClipTypesHold == ASSUME ClipboardAssumption PROVE ClipSpec => []ClipTypeOK
<1>1. ClipInit => ClipTypeOK /\ SpreadsSome
  <2> SUFFICES ASSUME ClipInit PROVE ClipTypeOK /\ SpreadsSome
    OBVIOUS
  <2>1. Fresh \in Bridges /\ Fresh.pc = "wait" /\ MaxCopies \in Nat /\ MaxInstalls \in Nat
    BY DEF Fresh, Bridges, Unknown, ClipboardAssumption
  <2>2. /\ open \subseteq Displays /\ contents \in [Displays -> 0 .. MaxCopies] /\ writes = {}
        /\ bridge = Fresh /\ copies \in 0 .. MaxCopies /\ crowded \in BOOLEAN /\ installs \in 0 .. MaxInstalls
    <3>1. 0 \in 0 .. MaxCopies /\ 0 \in 0 .. MaxInstalls
      BY <2>1
    <3>2. contents \in [Displays -> 0 .. MaxCopies]
      BY <3>1 DEF ClipInit
    <3> QED BY <3>1, <3>2 DEF ClipInit, ClipboardAssumption
  <2> QED BY <2>1, <2>2 DEF ClipTypeOK, SpreadsSome, Bridges
<1>2. ClipTypeOK /\ SpreadsSome /\ [ClipNext]_clipVars => (ClipTypeOK /\ SpreadsSome)'
  BY ClipStepTyped DEF ClipTypeOK, SpreadsSome, clipVars
<1> QED BY <1>1, <1>2, PTL DEF ClipSpec

-----------------------------------------------------------------------------
(* AppStreams: what its requests and rows are.                                 *)

Requests == [pc : {"idle", "open", "run", "book", "stop", "delete", "halt", "halted", "resume",
                   "resumed"},
             app : {s \in SUBSET Apps : Cardinality(s) <= 1},
             row : {0} \cup Rows, display : Screens \cup {0}]
Streams == [id : Rows, app : Apps, display : Screens, running : BOOLEAN]

\* One request at a time.
OneCall == \A s, t \in Threads : requests[s] = NoRequest \/ requests[t] = NoRequest \/ s = t

\* An application has one row, and a display one running application.
RowsApart(S) ==
    /\ \A s \in S : s.display \in Routed
    /\ \A r, s \in S : r.app = s.app => r = s
    /\ \A r, s \in S : r.running /\ s.running /\ r.display = s.display => r = s

Rowed(S) == {<<s.app, s.display>> : s \in {s \in S : s.running}}
Pending(r) == IF r.pc = "book" THEN {<<a, r.display>> : a \in r.app} ELSE {}
NoneRuns(S, sh, dogs) == sh = {} /\ dogs = {} /\ \A s \in S : ~s.running

\* What a start has found: a display that is nobody's, and nothing of the application.
Found(r, S, sc, sh, dogs) ==
    /\ r.display \in Routed
    /\ \A s \in S : s.running /\ s.app \notin r.app => s.display # r.display
    /\ r.row = 0 => \A s \in S : s.app \notin r.app
    /\ r.row # 0 => \E s \in S : s.id = r.row /\ s.app \in r.app
    /\ r.pc \in {"open", "run"} => \A w \in sh \cup dogs : w[1] \notin r.app /\ w[2] # r.display
    /\ r.pc = "book" => \A w \in sh \cup dogs : w[1] \in r.app => w[2] = r.display
    /\ r.pc # "open" => sc[r.display] = "alive"

\* How far the desk is, for each step of the request that is under way, if any.
Stage(r, st, on, S, sc, sh, dogs) ==
    /\ r.pc = "idle" => /\ r = NoRequest /\ st \in {"running", "halted"} /\ (st = "running" => on)
                        /\ st = "halted" => NoneRuns(S, sh, dogs)
    /\ r.pc \in {"open", "run", "book", "stop", "delete", "halt"} => st = "running" /\ on
    /\ r.pc \in {"open", "run", "book", "stop", "delete"} => \E a \in Apps : r.app = {a}
    /\ r.pc \in {"open", "run", "book"} => Found(r, S, sc, sh, dogs)
    /\ r.pc \in {"stop", "delete"} =>
          \E s \in S : s.id = r.row /\ s.display = r.display /\ s.running
    /\ r.pc = "delete" => sc[r.display] = "none"
    /\ r.pc = "halted" => sh = {} /\ dogs = {}
    /\ r.pc \in {"resume", "resumed"} => NoneRuns(S, sh, dogs)
    /\ r.pc = "resumed" => on

\* Windows and watchdogs are of rows, or of the row that is about to be booked.
Ordered(r, st, on, S, sc, sh, dogs, m) ==
    /\ RowsApart(S)
    /\ \A w \in sh : sc[w[2]] = "alive" /\ w \in Rowed(S) \cup Pending(r)
    /\ \A w \in dogs : sc[w[2]] = "none" \/ w \in Rowed(S) \cup Pending(r)
    /\ \A s \in S : s.running /\ m = 0 =>
          sc[s.display] = "alive" \/ r.pc = "halted" \/ (r.pc = "delete" /\ r.row = s.id)
    /\ Stage(r, st, on, S, sc, sh, dogs)

OrderedNow(r) == Ordered(r, session, up, streams, screens, shown, watchdogs, mishaps)
OrderedNext(r) == Ordered(r, session', up', streams', screens', shown', watchdogs', mishaps')

AppInv ==
    /\ AppTypeOK /\ OneCall
    /\ AppsQuiet => OrderedNow(NoRequest)
    /\ \A t \in Threads : requests[t] # NoRequest => OrderedNow(requests[t])

Req(pc, apps, row, display) == [pc |-> pc, app |-> apps, row |-> row, display |-> display]
AppTypes ==
    /\ session \in {"running", "starting", "halted"} /\ up \in BOOLEAN
    /\ streams \subseteq Streams /\ \A s, r \in streams : s.id = r.id => s = r
    /\ screens \in [Screens -> {"none", "alive", "stale"}]
    /\ shown \subseteq Apps \X Screens /\ pids \in [Apps -> Screens \cup {0}]
    /\ watchdogs \subseteq Apps \X Screens /\ requests \in [Threads -> Requests]
    /\ mishaps \in 0 .. MaxFaults

LEMMA AppTypesAlike == AppTypeOK <=> AppTypes
BY DEF AppTypeOK, AppTypes, Streams, Requests

LEMMA RequestsOf ==
    /\ NoRequest = Req("idle", {}, 0, 0) /\ NoRequest \in Requests
    /\ \A pc, apps, row, display :
          /\ pc \in {"idle", "open", "run", "book", "stop", "delete", "halt", "halted", "resume",
                     "resumed"}
          /\ row \in {0} \cup Rows /\ display \in Screens \cup {0}
          /\ apps = {} \/ \E a \in Apps : apps = {a}
          => Req(pc, apps, row, display) \in Requests
<1>1. {} \in {s \in SUBSET Apps : Cardinality(s) <= 1}
  BY FS_EmptySet
<1>2. ASSUME NEW a \in Apps PROVE {a} \in {s \in SUBSET Apps : Cardinality(s) <= 1}
  BY FS_Singleton
<1> DEFINE Few == {s \in SUBSET Apps : Cardinality(s) <= 1}
<1>3. NoRequest = Req("idle", {}, 0, 0)
  BY DEF NoRequest, Req
<1>4. Requests = [pc : {"idle", "open", "run", "book", "stop", "delete", "halt", "halted",
                        "resume", "resumed"},
                  app : Few, row : {0} \cup Rows, display : Screens \cup {0}]
  BY DEF Requests
<1> HIDE DEF Few
<1>5. \A pc, apps, row, display :
          /\ pc \in {"idle", "open", "run", "book", "stop", "delete", "halt", "halted", "resume",
                     "resumed"}
          /\ row \in {0} \cup Rows /\ display \in Screens \cup {0} /\ apps \in Few
          => Req(pc, apps, row, display) \in Requests
  BY <1>4 DEF Req
<1>6. {} \in Few /\ \A a \in Apps : {a} \in Few
  BY <1>1, <1>2 DEF Few
<1> QED BY <1>3, <1>5, <1>6

LEMMA ReqGoesOn ==
    ASSUME NEW t \in Threads, requests[t] \in Requests, NEW pc, GoOn(t, pc)
    PROVE  Turns(t, Req(pc, requests[t].app, requests[t].row, requests[t].display))
<1>1. [requests[t] EXCEPT !.pc = pc] =
          Req(pc, requests[t].app, requests[t].row, requests[t].display)
  BY DEF Requests, Req
<1> QED BY <1>1 DEF GoOn

\* When a request turns, the others rest.
LEMMA RequestTurned ==
    ASSUME AppInv, NEW t \in Threads, AppsQuiet \/ requests[t] # NoRequest,
           NEW q \in Requests, Turns(t, q), OrderedNext(q)
    PROVE  /\ requests' \in [Threads -> Requests] /\ OneCall'
           /\ (AppsQuiet => OrderedNow(NoRequest))'
           /\ (\A s \in Threads : requests[s] # NoRequest => OrderedNow(requests[s]))'
<1>1. requests \in [Threads -> Requests] /\ \A s \in Threads \ {t} : requests[s] = NoRequest
  BY AppTypesAlike DEF AppInv, AppTypes, AppsQuiet, OneCall
<1>2. /\ requests' \in [Threads -> Requests] /\ requests'[t] = q
      /\ \A s \in Threads \ {t} : requests'[s] = NoRequest
  BY <1>1 DEF Turns
<1>3. OneCall'
  BY <1>2 DEF OneCall
<1>4. AppsQuiet' => OrderedNext(NoRequest)
  BY <1>2 DEF AppsQuiet
<1>5. \A s \in Threads : requests'[s] # NoRequest => OrderedNext(requests'[s])
  BY <1>2
<1> QED BY <1>2, <1>3, <1>4, <1>5 DEF OrderedNow, OrderedNext

\* What a request finds when it begins, and when it goes on.
LEMMA AtRequest ==
    ASSUME AppInv, Patient, NEW t \in Threads
    PROVE  /\ AppTypes /\ requests[t] \in Requests
           /\ MayCall(t) => AppsQuiet /\ OrderedNow(NoRequest) /\ AppsSettled
           /\ requests[t].pc # "idle" => requests[t] # NoRequest /\ OrderedNow(requests[t])
BY AppTypesAlike DEF AppInv, AppTypes, MayCall, AppsSettled, NoRequest

\* So it is enough that what the desk has is in order for the request that moved.
LEMMA InvFrom ==
    ASSUME AppInv, NEW t \in Threads, AppsQuiet \/ requests[t] # NoRequest,
           NEW q \in Requests, Turns(t, q), OrderedNext(q),
           session' \in {"running", "starting", "halted"}, up' \in BOOLEAN,
           streams' \subseteq Streams, \A s, r \in streams' : s.id = r.id => s = r,
           screens' \in [Screens -> {"none", "alive", "stale"}],
           shown' \subseteq Apps \X Screens, pids' \in [Apps -> Screens \cup {0}],
           watchdogs' \subseteq Apps \X Screens, mishaps' \in 0 .. MaxFaults
    PROVE  AppInv'
<1>1. /\ requests' \in [Threads -> Requests] /\ OneCall'
      /\ (AppsQuiet => OrderedNow(NoRequest))'
      /\ (\A s \in Threads : requests[s] # NoRequest => OrderedNow(requests[s]))'
  BY RequestTurned
<1>2. AppTypes'
  BY <1>1 DEF AppTypes
<1>3. AppTypeOK'
  BY <1>2 DEF AppTypeOK, AppTypes, Streams, Requests
<1> QED BY <1>1, <1>3 DEF AppInv

-----------------------------------------------------------------------------
LEMMA FreeIsFree ==
    ASSUME AppStreamsAssumption, NEW a \in Apps, Routed \ Taken(a) # {}
    PROVE  FreeDisplay(a) \in Routed \ Taken(a)
<1>1. Routed \ Taken(a) \in SUBSET Nat
  BY DEF AppStreamsAssumption
<1>2. Smallest(Routed \ Taken(a)) \in Routed \ Taken(a)
  BY <1>1, SmallestIsOne
<1>3. Smallest(Routed \ Taken(a)) = FreeDisplay(a)
  BY DEF Smallest, FreeDisplay
<1> QED BY <1>2, <1>3

LEMMA StartReadKeeps ==
    ASSUME AppInv, Patient, AppStreamsAssumption, \A a \in Apps : Fixed[a] = 0,
           NEW t \in Threads, NEW a \in Apps, StartRead(t, a)
    PROVE  AppInv'
<1>1. /\ AppTypes /\ AppsQuiet /\ OrderedNow(NoRequest)
      /\ \A w \in watchdogs : screens[w[2]] # "none"
  BY AtRequest DEF StartRead, AppsSettled
<1>2. PICK row \in IF RowsOf(a) = {} THEN {0} ELSE {s.id : s \in RowsOf(a)} :
          /\ \A s \in RowsOf(a) : s.id = row => ~(s.running /\ Alive(s))
          /\ Routed \ Taken(a) # {}
          /\ Turns(t, Req("open", {a}, row, FreeDisplay(a)))
  BY DEF StartRead, Req
<1>3. session = "running" /\ up
      /\ UNCHANGED <<session, up, streams, screens, shown, pids, watchdogs, mishaps>>
  BY <1>1 DEF StartRead, inside, OrderedNow, Ordered, Stage, NoRequest
<1>4. FreeDisplay(a) \in Routed \ Taken(a)
  BY <1>2, FreeIsFree
<1>5. row \in {0} \cup Rows /\ FreeDisplay(a) \in Screens
      /\ (row = 0 => \A s \in streams : s.app # a)
      /\ (row # 0 => \E s \in streams : s.id = row /\ s.app = a)
  BY <1>1, <1>2, <1>4 DEF RowsOf, AppTypes, Streams, Screens, Rows
<1> DEFINE q == Req("open", {a}, row, FreeDisplay(a))
<1>6. q \in Requests
  BY <1>5, RequestsOf
<1>7. \A s \in streams : s.running /\ s.app = a => screens[s.display] = "none"
  <2> SUFFICES ASSUME NEW s \in streams, s.running, s.app = a
               PROVE  screens[s.display] = "none"
    OBVIOUS
  <2>1. s \in RowsOf(a) /\ s.id = row
    BY <1>1, <1>2 DEF RowsOf, OrderedNow, Ordered, RowsApart
  <2> QED BY <1>2, <1>3, <2>1 DEF Alive, Socket
<1>8. \A w \in shown \cup watchdogs : screens[w[2]] # "none" /\ w \in Rowed(streams)
  BY <1>1 DEF OrderedNow, Ordered, Pending, NoRequest
<1>9. \A w \in shown \cup watchdogs : w[1] # a /\ w[2] # FreeDisplay(a)
  <2> SUFFICES ASSUME NEW w \in shown \cup watchdogs PROVE w[1] # a /\ w[2] # FreeDisplay(a)
    OBVIOUS
  <2>1. PICK s \in streams : s.running /\ w = <<s.app, s.display>>
    BY <1>8 DEF Rowed
  <2>2. s.app # a
    BY <1>7, <1>8, <2>1
  <2>3. s.display # FreeDisplay(a)
    BY <1>4, <2>1, <2>2 DEF Taken
  <2> QED BY <2>1, <2>2, <2>3
<1>10. Found(q, streams, screens, shown, watchdogs)
  <2>1. \A s \in streams : s.running /\ s.app # a => s.display # FreeDisplay(a)
    BY <1>4 DEF Taken
  <2> QED BY <1>4, <1>5, <1>9, <2>1 DEF Found, Req
<1>11. OrderedNext(q)
  <2>1. Stage(q, session', up', streams', screens', shown', watchdogs')
    BY <1>3, <1>10 DEF Stage, Req
  <2> QED BY <1>1, <1>3, <1>8, <2>1 DEF OrderedNow, OrderedNext, Ordered, Req, NoRequest
<1> QED BY <1>1, <1>2, <1>3, <1>6, <1>11, InvFrom DEF AppTypes

LEMMA StartOpenKeeps ==
    ASSUME AppInv, Patient, Selkies, NEW t \in Threads, StartOpen(t)
    PROVE  AppInv'
<1> DEFINE r == requests[t]
           q == Req("run", r.app, r.row, r.display)
<1>1. r.pc = "open" /\ AppTypes /\ r \in Requests /\ r # NoRequest /\ OrderedNow(r)
  BY AtRequest DEF StartOpen
<1>2. /\ screens' = [screens EXCEPT ![r.display] = "alive"] /\ Turns(t, q)
      /\ UNCHANGED <<session, up, streams, shown, pids, watchdogs, mishaps>>
  BY <1>1, ReqGoesOn DEF StartOpen
<1>3. Found(r, streams, screens, shown, watchdogs) /\ \E a \in Apps : r.app = {a}
  BY <1>1 DEF OrderedNow, Ordered, Stage
<1>4. q \in Requests
  BY <1>1, <1>3, RequestsOf DEF Requests
<1>5. /\ screens' \in [Screens -> {"none", "alive", "stale"}] /\ screens'[r.display] = "alive"
      /\ \A d \in Screens \ {r.display} : screens'[d] = screens[d]
  BY <1>1, <1>2, <1>3 DEF AppTypes, Found, Screens
<1>6. Found(q, streams, screens', shown, watchdogs)
  BY <1>1, <1>3, <1>5 DEF Found, Req
<1>7. \A w \in shown \cup watchdogs : screens'[w[2]] = screens[w[2]]
  <2>1. \A w \in shown \cup watchdogs : w[2] \in Screens /\ w[2] # r.display
    BY <1>1, <1>3 DEF AppTypes, Found
  <2> QED BY <1>5, <2>1
<1>8. OrderedNext(q)
  <2>1. Stage(q, session', up', streams', screens', shown', watchdogs')
    BY <1>1, <1>2, <1>6 DEF OrderedNow, Ordered, Stage, Req
  <2>2. \A s \in streams : s.display \in Screens
    BY <1>1 DEF AppTypes, Streams
  <2>3. \A s \in streams : s.running /\ mishaps = 0 => screens'[s.display] = "alive"
    BY <1>1, <1>5, <2>2 DEF OrderedNow, Ordered
  <2>4. RowsApart(streams)
    BY <1>1 DEF OrderedNow, Ordered
  <2>5. \A w \in shown : screens'[w[2]] = "alive" /\ w \in Rowed(streams)
    BY <1>1, <1>7 DEF OrderedNow, Ordered, Pending
  <2>6. \A w \in watchdogs : screens'[w[2]] = "none" \/ w \in Rowed(streams)
    BY <1>1, <1>7 DEF OrderedNow, Ordered, Pending
  <2> QED BY <1>2, <2>1, <2>3, <2>4, <2>5, <2>6 DEF OrderedNext, Ordered
<1> QED BY <1>1, <1>2, <1>4, <1>5, <1>8, InvFrom DEF AppTypes

LEMMA StartRunKeeps ==
    ASSUME AppInv, Patient, NEW t \in Threads, StartRun(t)
    PROVE  AppInv'
<1> DEFINE r == requests[t]
           q == Req("book", r.app, r.row, r.display)
           d == r.display
<1>1. r.pc = "run" /\ AppTypes /\ r \in Requests /\ r # NoRequest /\ OrderedNow(r)
  BY AtRequest DEF StartRun
<1>2. Found(r, streams, screens, shown, watchdogs) /\ screens[d] = "alive"
  BY <1>1 DEF OrderedNow, Ordered, Stage, Found
<1>3. PICK a \in Apps : r.app = {a}
  BY <1>1 DEF OrderedNow, Ordered, Stage
<1>4. (CHOOSE b \in Apps : r.app = {b}) = a
  BY <1>3
<1>5. On(d) = {}
  BY <1>1, <1>2 DEF On, Found
<1>6. /\ shown' = shown \cup {<<a, d>>} /\ pids' = [pids EXCEPT ![a] = d]
      /\ watchdogs' = watchdogs \cup {<<a, d>>} /\ GoOn(t, "book")
      /\ UNCHANGED <<session, up, streams, screens, mishaps>>
  BY <1>2, <1>4, <1>5 DEF StartRun
<1>7. q \in Requests /\ Turns(t, q) /\ d \in Screens
  BY <1>1, <1>2, <1>3, <1>6, RequestsOf, ReqGoesOn DEF Requests, Found, Screens
<1>8. Pending(q) = {<<a, d>>} /\ Pending(r) = {}
  BY <1>1, <1>3 DEF Pending, Req
<1>9. Found(q, streams, screens, shown', watchdogs')
  BY <1>1, <1>2, <1>3, <1>6 DEF Found, Req
<1>10. OrderedNext(q)
  <2>1. Stage(q, session', up', streams', screens', shown', watchdogs')
    BY <1>1, <1>6, <1>9 DEF OrderedNow, Ordered, Stage, Req
  <2>2. \A w \in shown' : screens[w[2]] = "alive" /\ w \in Rowed(streams) \cup Pending(q)
    BY <1>1, <1>2, <1>6, <1>8 DEF OrderedNow, Ordered
  <2>3. \A w \in watchdogs' : screens[w[2]] = "none" \/ w \in Rowed(streams) \cup Pending(q)
    BY <1>1, <1>6, <1>8 DEF OrderedNow, Ordered
  <2>4. RowsApart(streams) /\ \A s \in streams : s.running /\ mishaps = 0 =>
            screens[s.display] = "alive"
    BY <1>1 DEF OrderedNow, Ordered
  <2> QED BY <1>6, <2>1, <2>2, <2>3, <2>4 DEF OrderedNext, Ordered
<1> QED BY <1>1, <1>3, <1>6, <1>7, <1>10, InvFrom DEF AppTypes

\* Of the fates of a start only a display that does not come up is left, before anything was done.
LEMMA StartMissesKeeps ==
    ASSUME AppInv, Patient, AppStreamsAssumption, NEW t \in Threads, StartMisses(t)
    PROVE  AppInv'
<1> DEFINE r == requests[t]
<1>1. r.pc \in {"open", "run", "book"} /\ AppTypes /\ r \in Requests /\ r # NoRequest /\ OrderedNow(r)
  BY AtRequest DEF StartMisses
<1>2. r.pc = "open" /\ session = "running" /\ up
  BY <1>1 DEF StartMisses, OrderedNow, Ordered, Stage
<1>3. /\ UNCHANGED <<session, up, streams, screens, shown, pids, watchdogs>>
      /\ Mishap /\ Turns(t, NoRequest)
  BY <1>2 DEF StartMisses, inside
<1>4. mishaps' \in 0 .. MaxFaults /\ mishaps' # 0
  <2>1. mishaps \in Nat /\ MaxFaults \in Nat
    BY <1>1 DEF AppTypes, AppStreamsAssumption
  <2>2. mishaps' = mishaps + 1 /\ mishaps < MaxFaults
    BY <1>3 DEF Mishap
  <2> QED BY <2>1, <2>2
<1>5. OrderedNext(NoRequest)
  <2>1. Stage(NoRequest, session', up', streams', screens', shown', watchdogs')
    BY <1>2, <1>3 DEF Stage, NoRequest
  <2>2. Pending(r) = {}
    BY <1>2 DEF Pending
  <2> QED BY <1>1, <1>3, <1>4, <2>1, <2>2 DEF OrderedNow, OrderedNext, Ordered
<1> QED BY <1>1, <1>3, <1>4, <1>5, RequestsOf, InvFrom DEF AppTypes

LEMMA StartBookKeeps ==
    ASSUME AppInv, Patient, NEW t \in Threads, StartBook(t)
    PROVE  AppInv'
<1> DEFINE r == requests[t]
           d == r.display
<1>1. r.pc = "book" /\ AppTypes /\ r \in Requests /\ r # NoRequest /\ OrderedNow(r)
  BY AtRequest DEF StartBook
<1>2. Found(r, streams, screens, shown, watchdogs) /\ screens[d] = "alive" /\ d \in Screens
  BY <1>1 DEF OrderedNow, Ordered, Stage, Found, Screens
<1>3. PICK a \in Apps : r.app = {a}
  BY <1>1 DEF OrderedNow, Ordered, Stage
<1>4. (CHOOSE b \in Apps : r.app = {b}) = a
  BY <1>3
<1> DEFINE new(id) == [id |-> id, app |-> a, display |-> d, running |-> TRUE]
<1>5. /\ Turns(t, NoRequest)
      /\ UNCHANGED <<session, up, screens, shown, pids, watchdogs, mishaps>>
  BY DEF StartBook, inside
<1>6. PICK i \in Rows :
          /\ streams' = {s \in streams : s.id # i} \cup {new(i)}
          /\ \A s \in streams : s.id # i <=> s.app # a
  <2>1. CASE r.row # 0
    <3>1. streams' = {IF s.id = r.row THEN new(s.id) ELSE s : s \in streams}
      BY <1>4, <2>1 DEF StartBook
    <3>2. PICK s \in streams : s.id = r.row /\ s.app = a
      BY <1>2, <1>3, <2>1 DEF Found
    <3>3. \A s2 \in streams : s2.id # r.row <=> s2.app # a
      BY <1>1, <3>2 DEF OrderedNow, Ordered, RowsApart, AppTypes
    <3>4. r.row \in Rows
      BY <1>1, <3>2 DEF AppTypes, Streams
    <3>5. streams' = {s2 \in streams : s2.id # r.row} \cup {new(r.row)}
      BY <3>1, <3>2
    <3> QED BY <3>3, <3>4, <3>5
  <2>2. CASE r.row = 0
    <3>1. PICK i \in Rows : /\ \A s \in streams : s.id # i
                            /\ streams' = streams \cup {new(i)}
      BY <1>4, <2>2 DEF StartBook
    <3>2. \A s \in streams : s.app # a
      BY <1>2, <1>3, <2>2 DEF Found
    <3> QED BY <3>1, <3>2
  <2> QED BY <2>1, <2>2
<1>a. PICK n \in Streams : n.id = i /\ n.app = a /\ n.display = d /\ n.running /\ n = new(i)
  <2>1. new(i) \in Streams
    BY <1>2 DEF Streams
  <2> QED BY <2>1
<1>b. streams' = {s \in streams : s.id # i} \cup {n}
  BY <1>6, <1>a
<1> HIDE DEF new
<1>7. streams' \subseteq Streams /\ \A s, s2 \in streams' : s.id = s2.id => s = s2
  BY <1>1, <1>a, <1>b DEF AppTypes
<1>8. \A s \in streams : s.running /\ s.app # a => s.display # d
  BY <1>2, <1>3 DEF Found
<1>9. RowsApart(streams')
  <2>1. RowsApart(streams) /\ d \in Routed
    BY <1>1, <1>2 DEF OrderedNow, Ordered, Found
  <2> QED BY <1>6, <1>8, <1>a, <1>b, <2>1 DEF RowsApart
<1>10. Rowed(streams) \cup Pending(r) \subseteq
           Rowed(streams') \cup {w \in Apps \X Screens : w[1] = a /\ w # <<a, d>>}
  <2>1. Pending(r) = {<<a, d>>}
    BY <1>1, <1>3 DEF Pending
  <2>2. <<a, d>> \in Rowed(streams')
    BY <1>a, <1>b DEF Rowed
  <2>3. ASSUME NEW s \in streams, s.running
        PROVE  \/ <<s.app, s.display>> \in Rowed(streams')
               \/ s.app = a /\ <<s.app, s.display>> \in Apps \X Screens
    <3>1. CASE s.id = i
      <4>1. s.app = a
        BY <1>6, <3>1
      <4> QED BY <1>1, <4>1 DEF AppTypes, Streams
    <3>2. CASE s.id # i
      BY <1>b, <2>3, <3>2 DEF Rowed
    <3> QED BY <3>1, <3>2
  <2> QED BY <2>1, <2>2, <2>3 DEF Rowed
<1>11. \A w \in shown \cup watchdogs : w[1] = a => w = <<a, d>>
  <2>1. \A w \in shown \cup watchdogs : w \in Apps \X Screens
    BY <1>1 DEF AppTypes
  <2> QED BY <1>1, <1>2, <1>3, <2>1 DEF Found
<1>12. OrderedNext(NoRequest)
  <2>1. \A w \in shown : screens[w[2]] = "alive" /\ w \in Rowed(streams')
    BY <1>1, <1>10, <1>11 DEF OrderedNow, Ordered
  <2>2. \A w \in watchdogs : screens[w[2]] = "none" \/ w \in Rowed(streams')
    BY <1>1, <1>10, <1>11 DEF OrderedNow, Ordered
  <2>3. \A s \in streams' : s.running /\ mishaps = 0 => screens[s.display] = "alive"
    BY <1>1, <1>2, <1>a, <1>b DEF OrderedNow, Ordered
  <2>4. Stage(NoRequest, session, up, streams', screens, shown, watchdogs)
    BY <1>1 DEF OrderedNow, Ordered, Stage, NoRequest
  <2> QED BY <1>5, <1>9, <2>1, <2>2, <2>3, <2>4 DEF OrderedNext, Ordered
<1> QED BY <1>1, <1>5, <1>7, <1>12, RequestsOf, InvFrom DEF AppTypes

-----------------------------------------------------------------------------
LEMMA StopReadKeeps ==
    ASSUME AppInv, Patient, NEW t \in Threads, NEW a \in Apps, StopRead(t, a)
    PROVE  AppInv'
<1>1. AppTypes /\ AppsQuiet /\ OrderedNow(NoRequest)
  BY AtRequest DEF StopRead
<1>2. PICK s \in RowsOf(a) : s.running /\ Turns(t, Req("stop", {a}, s.id, s.display))
  BY DEF StopRead, Req
<1>3. UNCHANGED <<session, up, streams, screens, shown, pids, watchdogs, mishaps>>
  BY DEF StopRead, inside
<1> DEFINE q == Req("stop", {a}, s.id, s.display)
<1>4. s \in streams /\ s \in Streams
  BY <1>1 DEF RowsOf, AppTypes
<1>5. q \in Requests
  BY <1>4, RequestsOf DEF Streams
<1>6. OrderedNext(q)
  <2>1. session = "running" /\ up
    BY <1>1, <1>2, <1>4 DEF OrderedNow, Ordered, Stage, NoRequest, NoneRuns
  <2>2. Stage(q, session', up', streams', screens', shown', watchdogs')
    BY <1>2, <1>3, <1>4, <2>1 DEF Stage, Req
  <2>3. Pending(q) = {} /\ Pending(NoRequest) = {}
    BY DEF Pending, Req, NoRequest
  <2> QED BY <1>1, <1>3, <2>2, <2>3 DEF OrderedNow, OrderedNext, Ordered, NoRequest
<1> QED BY <1>1, <1>2, <1>3, <1>5, <1>6, InvFrom DEF AppTypes

LEMMA StopDisplayKeeps ==
    ASSUME AppInv, Patient, AppStreamsAssumption, NEW t \in Threads, StopDisplay(t)
    PROVE  AppInv'
<1> DEFINE r == requests[t]
           q == Req("delete", r.app, r.row, r.display)
           d == r.display
<1>1. r.pc = "stop" /\ AppTypes /\ r \in Requests /\ r # NoRequest /\ OrderedNow(r)
  BY AtRequest DEF StopDisplay
<1>2. PICK s \in streams : s.id = r.row /\ s.display = d /\ s.running
  BY <1>1 DEF OrderedNow, Ordered, Stage
<1>3. d \in Routed /\ d # 1 /\ d \in Screens
  BY <1>1, <1>2 DEF OrderedNow, Ordered, RowsApart, AppStreamsAssumption, Screens
<1>4. /\ screens' = [screens EXCEPT ![d] = "none"] /\ shown' = shown \ On(d) /\ Turns(t, q)
      /\ UNCHANGED <<session, up, streams, pids, watchdogs, mishaps>>
  BY <1>1, <1>3, ReqGoesOn DEF StopDisplay
<1>5. q \in Requests
  <2>1. \E a \in Apps : r.app = {a}
    BY <1>1 DEF OrderedNow, Ordered, Stage
  <2> QED BY <1>1, <2>1, RequestsOf DEF Requests
<1>6. /\ screens' \in [Screens -> {"none", "alive", "stale"}] /\ screens'[d] = "none"
      /\ \A e \in Screens \ {d} : screens'[e] = screens[e]
  BY <1>1, <1>3, <1>4 DEF AppTypes
<1>7. \A w \in shown' : w \in shown /\ screens'[w[2]] = screens[w[2]]
  BY <1>1, <1>4, <1>6 DEF On, AppTypes
<1>8. OrderedNext(q)
  <2>1. Stage(q, session', up', streams', screens', shown', watchdogs')
    BY <1>1, <1>2, <1>4, <1>6 DEF OrderedNow, Ordered, Stage, Req
  <2>2. Pending(q) = {} /\ Pending(r) = {}
    BY <1>1 DEF Pending, Req
  <2>3. \A w \in watchdogs : screens'[w[2]] = "none" \/ w \in Rowed(streams)
    <3>1. \A w \in watchdogs : w[2] \in Screens
      BY <1>1 DEF AppTypes
    <3> QED BY <1>1, <1>6, <2>2, <3>1 DEF OrderedNow, Ordered
  <2>4. \A s2 \in streams : s2.running /\ mishaps = 0 =>
            screens'[s2.display] = "alive" \/ s2.id = q.row
    <3> SUFFICES ASSUME NEW s2 \in streams, s2.running, mishaps = 0, s2 # s
                 PROVE  screens'[s2.display] = "alive"
      BY <1>2 DEF Req
    <3>1. s2.display # d /\ s2.display \in Screens
      BY <1>1, <1>2 DEF OrderedNow, Ordered, RowsApart, AppTypes, Streams
    <3> QED BY <1>1, <1>6, <3>1 DEF OrderedNow, Ordered
  <2> QED BY <1>1, <1>4, <1>7, <2>1, <2>2, <2>3, <2>4 DEF OrderedNow, OrderedNext, Ordered, Req
<1> QED BY <1>1, <1>4, <1>5, <1>6, <1>7, <1>8, InvFrom DEF AppTypes

LEMMA StopFailsNot ==
    ASSUME AppInv, Patient, NEW t \in Threads PROVE ~StopFails(t)
<1>1. requests[t].pc = "stop" => up
  BY AtRequest DEF OrderedNow, Ordered, Stage
<1> QED BY <1>1 DEF StopFails

LEMMA StopDeleteKeeps ==
    ASSUME AppInv, Patient, NEW t \in Threads, StopDelete(t)
    PROVE  AppInv'
<1> DEFINE r == requests[t]
<1>1. r.pc = "delete" /\ AppTypes /\ r \in Requests /\ r # NoRequest /\ OrderedNow(r)
  BY AtRequest DEF StopDelete
<1>2. PICK s \in streams : s.id = r.row /\ s.display = r.display /\ s.running
  BY <1>1 DEF OrderedNow, Ordered, Stage
<1>3. /\ streams' = {x \in streams : x.id # r.row} /\ Turns(t, NoRequest)
      /\ UNCHANGED <<session, up, screens, shown, pids, watchdogs, mishaps>>
  BY DEF StopDelete, inside
<1>4. screens[r.display] = "none" /\ session = "running" /\ up /\ Pending(r) = {}
  BY <1>1 DEF OrderedNow, Ordered, Stage, Pending
<1>5. \A w \in Rowed(streams) : w \in Rowed(streams') \/ screens[w[2]] = "none"
  <2> SUFFICES ASSUME NEW x \in streams, x.running
               PROVE  \/ <<x.app, x.display>> \in Rowed(streams')
                      \/ screens[x.display] = "none"
    BY DEF Rowed
  <2>1. CASE x.id = r.row
    <3>1. x = s
      BY <1>1, <1>2, <2>1 DEF AppTypes
    <3> QED BY <1>2, <1>4, <3>1
  <2>2. CASE x.id # r.row
    BY <1>3, <2>2 DEF Rowed
  <2> QED BY <2>1, <2>2
<1>6. OrderedNext(NoRequest)
  <2>1. \A w \in shown : screens[w[2]] = "alive" /\ w \in Rowed(streams')
    BY <1>1, <1>4, <1>5 DEF OrderedNow, Ordered
  <2>2. \A w \in watchdogs : screens[w[2]] = "none" \/ w \in Rowed(streams')
    BY <1>1, <1>4, <1>5 DEF OrderedNow, Ordered
  <2>3. RowsApart(streams')
    BY <1>1, <1>3 DEF OrderedNow, Ordered, RowsApart
  <2>4. \A x \in streams' : x.running /\ mishaps = 0 => screens[x.display] = "alive"
    BY <1>1, <1>3 DEF OrderedNow, Ordered
  <2>5. Stage(NoRequest, session, up, streams', screens, shown, watchdogs)
    BY <1>4 DEF Stage, NoRequest
  <2> QED BY <1>3, <2>1, <2>2, <2>3, <2>4, <2>5 DEF OrderedNext, Ordered
<1> QED BY <1>1, <1>3, <1>6, RequestsOf, InvFrom DEF AppTypes

-----------------------------------------------------------------------------
LEMMA HaltReadKeeps ==
    ASSUME AppInv, Patient, NEW t \in Threads, HaltRead(t)
    PROVE  AppInv'
<1> DEFINE q == Req("halt", {}, 0, 0)
<1>1. AppTypes /\ AppsQuiet /\ OrderedNow(NoRequest) /\ session = "running"
  BY AtRequest DEF HaltRead
<1>2. UNCHANGED <<session, up, streams, screens, shown, pids, watchdogs, mishaps>>
  BY DEF HaltRead, inside
<1>3. Turns(t, q)
  <2>1. [NoRequest EXCEPT !.pc = "halt"] = q
    BY DEF NoRequest, Req
  <2> QED BY <2>1 DEF HaltRead
<1>4. q \in Requests
  BY RequestsOf
<1>5. OrderedNext(q)
  <2>1. Stage(q, session', up', streams', screens', shown', watchdogs')
    BY <1>1, <1>2 DEF OrderedNow, Ordered, Stage, Req, NoRequest
  <2> QED BY <1>1, <1>2, <2>1 DEF OrderedNow, OrderedNext, Ordered, Pending, Req, NoRequest
<1> QED BY <1>1, <1>2, <1>3, <1>4, <1>5, InvFrom DEF AppTypes

LEMMA AllStoppedApart ==
    ASSUME streams \subseteq Streams, \A s, r \in streams : s.id = r.id => s = r,
           RowsApart(streams)
    PROVE  /\ AllStopped \subseteq Streams /\ \A s, r \in AllStopped : s.id = r.id => s = r
           /\ RowsApart(AllStopped) /\ \A s \in AllStopped : ~s.running
<1>1. ASSUME NEW s \in Streams
      PROVE  [s EXCEPT !.running = FALSE] =
          [id |-> s.id, app |-> s.app, display |-> s.display, running |-> FALSE]
  <2>1. ASSUME NEW b
        PROVE  [s EXCEPT !.running = b] =
                   [id |-> s.id, app |-> s.app, display |-> s.display, running |-> b]
    BY DEF Streams
  <2> QED BY <2>1
<1>2. ASSUME NEW x \in AllStopped
      PROVE  /\ x \in Streams /\ ~x.running
             /\ \E s \in streams :
                   x = [id |-> s.id, app |-> s.app, display |-> s.display, running |-> FALSE]
  <2>1. PICK s \in streams : x = [s EXCEPT !.running = FALSE]
    BY DEF AllStopped
  <2>2. x = [id |-> s.id, app |-> s.app, display |-> s.display, running |-> FALSE]
    BY <1>1, <2>1
  <2> QED BY <2>2 DEF Streams
<1>3. ASSUME NEW x \in AllStopped, NEW y \in AllStopped, x.id = y.id \/ x.app = y.app
      PROVE  x = y
  <2>1. PICK s \in streams :
            x = [id |-> s.id, app |-> s.app, display |-> s.display, running |-> FALSE]
    BY <1>2
  <2>2. PICK r \in streams :
            y = [id |-> r.id, app |-> r.app, display |-> r.display, running |-> FALSE]
    BY <1>2
  <2>3. s = r
    BY <1>3, <2>1, <2>2 DEF RowsApart
  <2> QED BY <2>1, <2>2, <2>3
<1>4. \A x \in AllStopped : x.display \in Routed
  BY <1>2 DEF RowsApart
<1> QED BY <1>2, <1>3, <1>4 DEF RowsApart

LEMMA HaltContainerKeeps ==
    ASSUME AppInv, Patient, AppStreamsAssumption, NEW t \in Threads, HaltContainer(t)
    PROVE  AppInv'
<1> DEFINE r == requests[t]
<1>1. r.pc = "halt" /\ AppTypes /\ r \in Requests /\ r # NoRequest /\ OrderedNow(r)
  BY AtRequest DEF HaltContainer
<1>2. PICK q \in Requests : q.pc = "halted" /\ Turns(t, q)
  <2> DEFINE x == [r EXCEPT !.pc = "halted"]
  <2>1. x \in Requests /\ x.pc = "halted"
    BY <1>1 DEF Requests
  <2>2. Turns(t, x)
    BY DEF HaltContainer, GoOn
  <2> QED BY <2>1, <2>2
<1>3. /\ up' = FALSE /\ shown' = {} /\ watchdogs' = {} /\ pids' = [a \in Apps |-> 0]
      /\ screens' = [d \in Screens |-> IF Socket(d) THEN "stale" ELSE "none"]
      /\ UNCHANGED <<session, streams, mishaps>>
  BY DEF HaltContainer
<1>4. OrderedNext(q)
  <2>1. Stage(q, session', up', streams', screens', shown', watchdogs')
    BY <1>1, <1>2, <1>3 DEF OrderedNow, Ordered, Stage
  <2> QED BY <1>1, <1>2, <1>3, <2>1 DEF OrderedNow, OrderedNext, Ordered
<1>5. screens' \in [Screens -> {"none", "alive", "stale"}] /\ pids' \in [Apps -> Screens \cup {0}]
  BY <1>3
<1> QED BY <1>1, <1>2, <1>3, <1>4, <1>5, InvFrom DEF AppTypes

LEMMA AllStop ==
    ASSUME AppInv, Patient, NEW t \in Threads, HaltBook(t) \/ ResumeBook(t)
    PROVE  AppInv'
<1> DEFINE r == requests[t]
<1>1. r.pc \in {"halted", "resumed"} /\ AppTypes /\ r \in Requests /\ r # NoRequest /\ OrderedNow(r)
  BY AtRequest DEF HaltBook, ResumeBook
<1>2. /\ streams' = AllStopped /\ Turns(t, NoRequest)
      /\ UNCHANGED <<up, screens, shown, pids, watchdogs, mishaps>>
      /\ session' \in {"running", "halted"} /\ (session' = "running" => up)
  BY <1>1 DEF HaltBook, ResumeBook, inside, OrderedNow, Ordered, Stage
<1>3. shown = {} /\ watchdogs = {} /\ RowsApart(streams)
  BY <1>1 DEF OrderedNow, Ordered, Stage, NoneRuns
<1>4. /\ streams' \subseteq Streams /\ \A s, s2 \in streams' : s.id = s2.id => s = s2
      /\ RowsApart(streams') /\ \A s \in streams' : ~s.running
  BY <1>1, <1>2, <1>3, AllStoppedApart DEF AppTypes
<1>5. OrderedNext(NoRequest)
  <2>1. Stage(NoRequest, session', up', streams', screens', shown', watchdogs')
    BY <1>2, <1>3, <1>4 DEF Stage, NoRequest, NoneRuns
  <2> QED BY <1>2, <1>3, <1>4, <2>1 DEF OrderedNext, Ordered
<1> QED BY <1>1, <1>2, <1>4, <1>5, RequestsOf, InvFrom DEF AppTypes

LEMMA ResumeReadKeeps ==
    ASSUME AppInv, Patient, NEW t \in Threads, ResumeRead(t)
    PROVE  AppInv'
<1> DEFINE q == Req("resume", {}, 0, 0)
<1>1. AppTypes /\ AppsQuiet /\ OrderedNow(NoRequest) /\ session = "halted"
  BY AtRequest DEF ResumeRead
<1>2. session' = "starting" /\ UNCHANGED <<up, streams, screens, shown, pids, watchdogs, mishaps>>
  BY DEF ResumeRead, inside
<1>3. Turns(t, q)
  <2>1. [NoRequest EXCEPT !.pc = "resume"] = q
    BY DEF NoRequest, Req
  <2> QED BY <2>1 DEF ResumeRead
<1>4. q \in Requests
  BY RequestsOf
<1>5. OrderedNext(q)
  <2>1. NoneRuns(streams, shown, watchdogs) /\ RowsApart(streams)
    BY <1>1 DEF OrderedNow, Ordered, Stage, NoRequest
  <2>2. Stage(q, session', up', streams', screens', shown', watchdogs')
    BY <1>2, <2>1 DEF Stage, Req
  <2> QED BY <1>2, <2>1, <2>2 DEF OrderedNext, Ordered, NoneRuns
<1> QED BY <1>1, <1>2, <1>3, <1>4, <1>5, InvFrom DEF AppTypes

LEMMA ResumeContainerKeeps ==
    ASSUME AppInv, Patient, AppStreamsAssumption, NEW t \in Threads, ResumeContainer(t)
    PROVE  AppInv'
<1> DEFINE r == requests[t]
<1>1. r.pc = "resume" /\ AppTypes /\ r \in Requests /\ r # NoRequest /\ OrderedNow(r)
  BY AtRequest DEF ResumeContainer
<1>2. PICK q \in Requests : q.pc = "resumed" /\ Turns(t, q)
  <2> DEFINE x == [r EXCEPT !.pc = "resumed"]
  <2>1. x \in Requests /\ x.pc = "resumed"
    BY <1>1 DEF Requests
  <2>2. Turns(t, x)
    BY DEF ResumeContainer, GoOn
  <2> QED BY <2>1, <2>2
<1>3. /\ up' = TRUE /\ screens' = [screens EXCEPT ![1] = "alive"]
      /\ UNCHANGED <<session, streams, shown, pids, watchdogs, mishaps>>
  BY DEF ResumeContainer
<1>4. NoneRuns(streams, shown, watchdogs) /\ RowsApart(streams)
  BY <1>1 DEF OrderedNow, Ordered, Stage
<1>5. OrderedNext(q)
  <2>1. Stage(q, session', up', streams', screens', shown', watchdogs')
    BY <1>2, <1>3, <1>4 DEF Stage
  <2> QED BY <1>3, <1>4, <2>1 DEF OrderedNext, Ordered, NoneRuns
<1>6. screens' \in [Screens -> {"none", "alive", "stale"}]
  BY <1>1, <1>3 DEF AppTypes
<1> QED BY <1>1, <1>2, <1>3, <1>5, <1>6, InvFrom DEF AppTypes

-----------------------------------------------------------------------------
\* A step of the container: whatever request is under way, it finds things as ordered as before.
LEMMA StepsBeside ==
    ASSUME AppInv, UNCHANGED requests, AppTypes',
           AppsQuiet /\ OrderedNow(NoRequest) => OrderedNext(NoRequest),
           \A t \in Threads : requests[t] # NoRequest /\ OrderedNow(requests[t])
                              => OrderedNext(requests[t])
    PROVE  AppInv'
<1>1. OneCall' /\ (AppsQuiet' <=> AppsQuiet)
  BY DEF AppInv, OneCall, AppsQuiet
<1>2. AppTypeOK'
  BY DEF AppTypeOK, AppTypes, Streams, Requests
<1>3. AppsQuiet' => OrderedNext(NoRequest)
  BY <1>1 DEF AppInv
<1>4. \A t \in Threads : requests[t] # NoRequest => OrderedNext(requests[t])
  BY DEF AppInv
<1> QED BY <1>1, <1>2, <1>3, <1>4 DEF AppInv, OrderedNow, OrderedNext

LEMMA WatchKeeps ==
    ASSUME AppInv, NEW w \in Apps \X Screens, Watch(w)
    PROVE  AppInv'
<1>1. AppTypes
  BY AppTypesAlike DEF AppInv
<1>2. w \in watchdogs /\ UNCHANGED <<session, up, streams, screens, requests, mishaps>>
  BY DEF Watch
<1>3. CASE ~Socket(w[2]) /\ watchdogs' = watchdogs \ {w} /\ UNCHANGED <<shown, pids>>
  <2>1. \A r : OrderedNow(r) => OrderedNext(r)
    BY <1>2, <1>3 DEF OrderedNow, OrderedNext, Ordered, Stage, Found, NoneRuns
  <2>2. AppTypes'
    BY <1>1, <1>2, <1>3 DEF AppTypes
  <2> QED BY <1>2, <2>1, <2>2, StepsBeside
<1>4. CASE Restarts(w) /\ shown' = shown \cup {w} /\ pids' = [pids EXCEPT ![w[1]] = w[2]]
           /\ UNCHANGED watchdogs
  <2>1. screens[w[2]] = "alive"
    BY <1>4 DEF Restarts
  <2>2. ASSUME NEW r, OrderedNow(r) PROVE OrderedNext(r)
    <3>1. \A v \in shown' : screens[v[2]] = "alive" /\ v \in Rowed(streams) \cup Pending(r)
      BY <1>2, <1>4, <2>1, <2>2 DEF OrderedNow, Ordered
    <3>2. Found(r, streams, screens, shown, watchdogs) =>
              Found(r, streams, screens, shown', watchdogs)
      BY <1>2, <1>4 DEF Found
    <3>3. Stage(r, session, up, streams, screens, shown', watchdogs)
      BY <1>2, <2>2, <3>2 DEF OrderedNow, Ordered, Stage, NoneRuns
    <3> QED BY <1>2, <1>4, <2>2, <3>1, <3>3 DEF OrderedNow, OrderedNext, Ordered
  <2>3. AppTypes'
    BY <1>1, <1>2, <1>4 DEF AppTypes
  <2> QED BY <1>2, <2>2, <2>3, StepsBeside
<1> QED BY <1>3, <1>4 DEF Watch

LEMMA CloseKeeps ==
    ASSUME AppInv, NEW w \in Apps \X Screens, Close(w)
    PROVE  AppInv'
<1>1. AppTypes
  BY AppTypesAlike DEF AppInv
<1>2. /\ shown' = shown \ {w}
      /\ UNCHANGED <<session, up, streams, screens, pids, watchdogs, requests, mishaps>>
  BY DEF Close
<1>3. \A r : OrderedNow(r) => OrderedNext(r)
  BY <1>2 DEF OrderedNow, OrderedNext, Ordered, Stage, Found, NoneRuns
<1>4. AppTypes'
  BY <1>1, <1>2 DEF AppTypes
<1> QED BY <1>2, <1>3, <1>4, StepsBeside

LEMMA DisplayDiesKeeps ==
    ASSUME AppInv, Patient, AppStreamsAssumption, NEW d \in Routed,
           NEW socket \in {"none", "stale"}, DisplayDies(d, socket)
    PROVE  AppInv'
<1>1. AppTypes /\ AppsQuiet
  BY AppTypesAlike DEF AppInv, DisplayDies
<1>2. /\ screens[d] = "alive" /\ up /\ Mishap /\ screens' = [screens EXCEPT ![d] = "none"]
      /\ shown' = shown \ On(d)
      /\ UNCHANGED <<session, up, streams, pids, watchdogs, requests>>
  BY DEF DisplayDies
<1>3. mishaps' \in 0 .. MaxFaults /\ mishaps' # 0
  <2>1. mishaps \in Nat /\ MaxFaults \in Nat
    BY <1>1 DEF AppTypes, AppStreamsAssumption
  <2>2. mishaps' = mishaps + 1 /\ mishaps < MaxFaults
    BY <1>2 DEF Mishap
  <2> QED BY <2>1, <2>2
<1>4. /\ screens' \in [Screens -> {"none", "alive", "stale"}] /\ screens'[d] = "none"
      /\ \A e \in Screens \ {d} : screens'[e] = screens[e]
  BY <1>1, <1>2 DEF AppTypes, Screens
<1>5. ASSUME OrderedNow(NoRequest) PROVE OrderedNext(NoRequest)
  <2>1. \A w \in shown' : w \in shown /\ screens'[w[2]] = screens[w[2]]
    BY <1>1, <1>2, <1>4 DEF On, AppTypes
  <2>2. \A w \in watchdogs : screens'[w[2]] \in {"none", screens[w[2]]}
    BY <1>1, <1>4 DEF AppTypes
  <2>3. Stage(NoRequest, session', up', streams', screens', shown', watchdogs')
    BY <1>2, <1>5 DEF OrderedNow, Ordered, Stage, NoRequest, NoneRuns
  <2> QED BY <1>2, <1>3, <1>5, <2>1, <2>2, <2>3 DEF OrderedNow, OrderedNext, Ordered
<1>6. AppTypes'
  BY <1>1, <1>2, <1>3, <1>4 DEF AppTypes
<1>7. \A t \in Threads : requests[t] = NoRequest
  BY <1>1 DEF AppsQuiet
<1> QED BY <1>2, <1>5, <1>6, <1>7, StepsBeside

-----------------------------------------------------------------------------
LEMMA AppInit_Inv == AppStreamsAssumption /\ AppInit => AppInv
<1> SUFFICES ASSUME AppStreamsAssumption, AppInit PROVE AppInv
  OBVIOUS
<1>1. AppTypes
  <2>1. mishaps \in 0 .. MaxFaults
    <3>1. mishaps = 0 /\ MaxFaults \in Nat
      BY DEF AppInit, AppStreamsAssumption
    <3> QED BY <3>1
  <2>2. screens \in [Screens -> {"none", "alive", "stale"}] /\ pids \in [Apps -> Screens \cup {0}]
        /\ requests \in [Threads -> Requests]
    BY RequestsOf DEF AppInit
  <2> QED BY <2>1, <2>2 DEF AppInit, AppTypes
<1>2. \A t \in Threads : requests[t] = NoRequest
  BY DEF AppInit
<1>3. OrderedNow(NoRequest)
  <2>1. Stage(NoRequest, session, up, streams, screens, shown, watchdogs)
    BY DEF AppInit, Stage, NoRequest
  <2> QED BY <2>1 DEF AppInit, OrderedNow, Ordered, RowsApart
<1> QED BY <1>1, <1>2, <1>3, AppTypesAlike DEF AppInv, OneCall

LEMMA AppStep_Inv ==
    ASSUME AppStreamsAssumption, Patient, Selkies, \A a \in Apps : Fixed[a] = 0,
           AppInv, [AppNext]_appVars
    PROVE  AppInv'
<1>1. ASSUME NEW t \in Threads, Start(t) PROVE AppInv'
  BY <1>1, StartReadKeeps, StartOpenKeeps, StartRunKeeps, StartMissesKeeps, StartBookKeeps DEF Start
<1>2. ASSUME NEW t \in Threads, Stop(t) PROVE AppInv'
  BY <1>2, StopReadKeeps, StopDisplayKeeps, StopFailsNot, StopDeleteKeeps DEF Stop
<1>3. ASSUME NEW t \in Threads, HaltOrResume(t) PROVE AppInv'
  BY <1>3, HaltReadKeeps, HaltContainerKeeps, AllStop, ResumeReadKeeps, ResumeContainerKeeps
     DEF HaltOrResume
<1>4. ASSUME NEW w \in Apps \X Screens, Watch(w) \/ Close(w) PROVE AppInv'
  BY <1>4, WatchKeeps, CloseKeeps
<1>5. ASSUME NEW d \in Routed, NEW socket \in {"none", "stale"}, DisplayDies(d, socket)
      PROVE  AppInv'
  BY <1>5, DisplayDiesKeeps
<1>6. CASE UNCHANGED appVars
  BY <1>6 DEF appVars, AppInv, AppTypeOK, OneCall, AppsQuiet, OrderedNow
<1> QED BY <1>1, <1>2, <1>3, <1>4, <1>5, <1>6 DEF AppNext

LEMMA AppInv_OwnScreen == AppInv => OwnScreen
<1> SUFFICES ASSUME AppInv, AppsSettled
             PROVE  /\ \A r, s \in streams : r.running /\ s.running /\ r # s => r.display # s.display
                    /\ \A s \in streams : s.running /\ mishaps = 0 => screens[s.display] = "alive"
                    /\ \A w \in shown : \E s \in streams : s.running /\ w = <<s.app, s.display>>
  BY DEF OwnScreen
<1>1. OrderedNow(NoRequest)
  BY DEF AppInv, AppsSettled
<1>2. \A r, s \in streams : r.running /\ s.running /\ r # s => r.display # s.display
  BY <1>1 DEF OrderedNow, Ordered, RowsApart
<1>3. \A s \in streams : s.running /\ mishaps = 0 => screens[s.display] = "alive"
  BY <1>1 DEF OrderedNow, Ordered, NoRequest
<1>4. \A w \in shown : w \in Rowed(streams)
  BY <1>1 DEF OrderedNow, Ordered, Pending, NoRequest
<1> QED BY <1>2, <1>3, <1>4 DEF Rowed

\* Whatever is answered late or lost: a start or stop is of one application and on one display.
Aimed(q) ==
    q.pc \in {"open", "run", "book", "stop", "delete"} => q.display \in Screens /\ \E a \in Apps : q.app = {a}
AimedRequests == {q \in Requests : Aimed(q)}
AppRanges == AppTypes /\ requests \in [Threads -> AimedRequests]

LEMMA AimedTurns ==
    ASSUME AppRanges, NEW t \in Threads, NEW q \in AimedRequests, Turns(t, q)
    PROVE  requests' \in [Threads -> AimedRequests] /\ requests' \in [Threads -> Requests]
<1>1. requests' \in [Threads -> AimedRequests]
  BY DEF AppRanges, Turns
<1> QED BY <1>1 DEF AimedRequests

LEMMA AimedOf ==
    ASSUME AppRanges, NEW t \in Threads
    PROVE  /\ requests[t] \in Requests /\ Aimed(requests[t]) /\ NoRequest \in AimedRequests
           /\ requests[t].row \in {0} \cup Rows /\ requests[t].display \in Screens \cup {0}
<1>1. requests[t] \in Requests /\ Aimed(requests[t])
  BY DEF AppRanges, AimedRequests
<1>2. NoRequest \in AimedRequests
  BY RequestsOf DEF AimedRequests, Aimed, NoRequest
<1> QED BY <1>1, <1>2 DEF Requests

\* A request that goes on is aimed at what it was aimed at before.
LEMMA AimedGoesOn ==
    ASSUME AppRanges, NEW t \in Threads, NEW pc, GoOn(t, pc),
           \/ pc \in {"run", "book", "delete"} /\ requests[t].pc \in {"open", "run", "stop"}
           \/ pc \in {"halted", "resumed"}
    PROVE  requests' \in [Threads -> AimedRequests] /\ requests' \in [Threads -> Requests]
<1> DEFINE q == [requests[t] EXCEPT !.pc = pc]
<1>1. q \in Requests /\ q.pc = pc /\ q.display = requests[t].display /\ q.app = requests[t].app
  <2>1. \A r \in Requests : LET i == [r EXCEPT !.pc = pc]
                            IN  i \in Requests /\ i.pc = pc /\ i.display = r.display /\ i.app = r.app
    BY DEF Requests
  <2> QED BY <2>1, AimedOf
<1>2. Aimed(q)
  BY <1>1, AimedOf DEF Aimed
<1> QED BY <1>1, <1>2, AimedTurns DEF AimedRequests, GoOn

LEMMA StartRangesKept ==
    ASSUME AppStreamsAssumption, AppRanges, NEW t \in Threads, Start(t) PROVE AppRanges'
<1>t. /\ AppTypes /\ requests[t] \in Requests /\ Aimed(requests[t]) /\ NoRequest \in AimedRequests
      /\ requests[t].row \in {0} \cup Rows /\ MaxFaults \in Nat /\ mishaps \in 0 .. MaxFaults
  BY AimedOf DEF AppRanges, AppTypes, AppStreamsAssumption
<1>1. ASSUME NEW a \in Apps, StartRead(t, a) PROVE AppRanges'
  <2>1. PICK row \in IF RowsOf(a) = {} THEN {0} ELSE {s.id : s \in RowsOf(a)} :
          /\ Fixed[a] = 0 => Routed \ Taken(a) # {}
          /\ Turns(t, [pc |-> "open", app |-> {a}, row |-> row,
                      display |-> IF Fixed[a] # 0 THEN Fixed[a] ELSE FreeDisplay(a)])
    BY <1>1 DEF StartRead
  <2> DEFINE d == IF Fixed[a] # 0 THEN Fixed[a] ELSE FreeDisplay(a)
  <2>2. d \in Screens
    <3>1. CASE Fixed[a] # 0
      BY <3>1 DEF AppStreamsAssumption, Screens
    <3>2. CASE Fixed[a] = 0
      BY <2>1, <3>2, FreeIsFree DEF Screens
    <3> QED BY <3>1, <3>2
  <2>3. row \in {0} \cup Rows
    BY <1>t DEF RowsOf, AppTypes, Streams
  <2>4. Turns(t, Req("open", {a}, row, d))
    BY <2>1 DEF Req
  <2> HIDE DEF d
  <2>5. Req("open", {a}, row, d) \in Requests /\ Aimed(Req("open", {a}, row, d))
    BY <2>2, <2>3, RequestsOf DEF Aimed, Req
  <2>6. requests' \in [Threads -> AimedRequests] /\ requests' \in [Threads -> Requests]
    BY <2>4, <2>5, AimedTurns DEF AimedRequests
  <2> QED BY <1>1, <1>t, <2>6 DEF StartRead, AppRanges, AppTypes, inside
<1>2. CASE StartOpen(t)
  <2>1. requests' \in [Threads -> AimedRequests] /\ requests' \in [Threads -> Requests]
    BY <1>2, AimedGoesOn DEF StartOpen
  <2>2. screens' \in [Screens -> {"none", "alive", "stale"}]
    BY <1>2, <1>t DEF StartOpen, AppTypes
  <2> QED BY <1>2, <1>t, <2>1, <2>2 DEF StartOpen, AppRanges, AppTypes
<1>3. CASE StartRun(t)
  <2> DEFINE a == CHOOSE a \in Apps : requests[t].app = {a}
             d == requests[t].display
  <2>1. a \in Apps /\ d \in Screens
    BY <1>3, <1>t DEF StartRun, Aimed
  <2>2. requests' \in [Threads -> AimedRequests] /\ requests' \in [Threads -> Requests]
    BY <1>3, AimedGoesOn DEF StartRun
  <2>3. /\ shown' \in {shown, shown \cup {<<a, d>>}} /\ watchdogs' \in {watchdogs, watchdogs \cup {<<a, d>>}}
        /\ \/ pids' = pids
           \/ pids' = [pids EXCEPT ![a] = IF screens[d] = "alive" THEN d ELSE 0]
    BY <1>3 DEF StartRun
  <2> HIDE DEF a, d
  <2>4. /\ shown' \subseteq Apps \X Screens /\ watchdogs' \subseteq Apps \X Screens
        /\ pids' \in [Apps -> Screens \cup {0}]
    BY <1>t, <2>1, <2>3 DEF AppTypes
  <2> QED BY <1>3, <1>t, <2>2, <2>4 DEF StartRun, AppRanges, AppTypes
<1>4. CASE StartMisses(t)
  <2>1. requests' \in [Threads -> AimedRequests] /\ requests' \in [Threads -> Requests]
    BY <1>4, <1>t, AimedTurns DEF StartMisses
  <2>2. mishaps' \in 0 .. MaxFaults
    BY <1>4, <1>t DEF StartMisses, Mishap
  <2> QED BY <1>4, <1>t, <2>1, <2>2 DEF StartMisses, AppRanges, AppTypes, inside
<1>5. CASE StartBook(t)
  <2> DEFINE a == CHOOSE a \in Apps : requests[t].app = {a}
             d == requests[t].display
             new(id) == [id |-> id, app |-> a, display |-> d, running |-> TRUE]
  <2>1. a \in Apps /\ d \in Screens
    BY <1>5, <1>t DEF StartBook, Aimed
  <2>2. requests' \in [Threads -> AimedRequests] /\ requests' \in [Threads -> Requests]
    BY <1>5, <1>t, AimedTurns DEF StartBook
  <2>3. \A id \in Rows : new(id) \in Streams /\ new(id).id = id
    BY <2>1 DEF Streams
  <2>4. streams' \subseteq Streams /\ \A s, r \in streams' : s.id = r.id => s = r
    <3>1. CASE requests[t].row # 0
      <4>1. streams' = {IF s.id = requests[t].row THEN new(s.id) ELSE s : s \in streams}
        BY <1>5, <3>1 DEF StartBook
      <4> HIDE DEF new
      <4>2. \A s \in streams : s \in Streams /\ s.id \in Rows
        BY <1>t DEF AppTypes, Streams
      <4> QED BY <1>t, <2>3, <4>1, <4>2 DEF AppTypes
    <3>2. CASE requests[t].row = 0
      <4>1. PICK id \in Rows : (\A s \in streams : s.id # id) /\ streams' = streams \cup {new(id)}
        BY <1>5, <3>2 DEF StartBook
      <4> HIDE DEF new
      <4> QED BY <1>t, <2>3, <4>1 DEF AppTypes
    <3> QED BY <3>1, <3>2
  <2> QED BY <1>5, <1>t, <2>2, <2>4 DEF StartBook, AppRanges, AppTypes, inside
<1> QED BY <1>1, <1>2, <1>3, <1>4, <1>5 DEF Start

LEMMA StopRangesKept ==
    ASSUME AppStreamsAssumption, AppRanges, NEW t \in Threads, Stop(t) PROVE AppRanges'
<1>t. /\ AppTypes /\ requests[t] \in Requests /\ Aimed(requests[t]) /\ NoRequest \in AimedRequests
  BY AimedOf DEF AppRanges
<1>1. ASSUME NEW a \in Apps, StopRead(t, a) PROVE AppRanges'
  <2>1. PICK s \in RowsOf(a) : Turns(t, Req("stop", {a}, s.id, s.display))
    BY <1>1 DEF StopRead, Req
  <2>2. s.id \in Rows /\ s.display \in Screens
    BY <1>t DEF RowsOf, AppTypes, Streams
  <2>3. Req("stop", {a}, s.id, s.display) \in Requests /\ Aimed(Req("stop", {a}, s.id, s.display))
    BY <2>2, RequestsOf DEF Aimed, Req
  <2>4. requests' \in [Threads -> AimedRequests] /\ requests' \in [Threads -> Requests]
    BY <2>1, <2>3, AimedTurns DEF AimedRequests
  <2> QED BY <1>1, <1>t, <2>4 DEF StopRead, AppRanges, AppTypes, inside
<1>2. CASE StopDisplay(t)
  <2>1. requests' \in [Threads -> AimedRequests] /\ requests' \in [Threads -> Requests]
    BY <1>2, AimedGoesOn DEF StopDisplay
  <2>2. \/ UNCHANGED inside
        \/ /\ screens' = [screens EXCEPT ![requests[t].display] = "none"]
           /\ shown' = shown \ On(requests[t].display) /\ UNCHANGED <<pids, watchdogs>>
    BY <1>2 DEF StopDisplay
  <2>3. /\ screens' \in [Screens -> {"none", "alive", "stale"}] /\ shown' \subseteq Apps \X Screens
        /\ pids' = pids /\ watchdogs' = watchdogs
    BY <1>t, <2>2 DEF AppTypes, inside
  <2> QED BY <1>2, <1>t, <2>1, <2>3 DEF StopDisplay, AppRanges, AppTypes
<1>3. CASE StopFails(t)
  <2>1. requests' \in [Threads -> AimedRequests] /\ requests' \in [Threads -> Requests]
    BY <1>3, <1>t, AimedTurns DEF StopFails
  <2> QED BY <1>3, <1>t, <2>1 DEF StopFails, AppRanges, AppTypes, inside
<1>4. CASE StopDelete(t)
  <2>1. requests' \in [Threads -> AimedRequests] /\ requests' \in [Threads -> Requests]
    BY <1>4, <1>t, AimedTurns DEF StopDelete
  <2>2. streams' \subseteq streams
    BY <1>4 DEF StopDelete
  <2> QED BY <1>4, <1>t, <2>1, <2>2 DEF StopDelete, AppRanges, AppTypes, inside
<1> QED BY <1>1, <1>2, <1>3, <1>4 DEF Stop

LEMMA HaltRangesKept ==
    ASSUME AppStreamsAssumption, AppRanges, NEW t \in Threads, HaltOrResume(t) PROVE AppRanges'
<1>t. AppTypes /\ requests[t] \in Requests /\ NoRequest \in AimedRequests
  BY AimedOf DEF AppRanges
<1>s. AllStopped \subseteq Streams /\ \A s, r \in AllStopped : s.id = r.id => s = r
  <2>1. \A s \in streams : LET i == [s EXCEPT !.running = FALSE] IN i \in Streams /\ i.id = s.id
    BY <1>t DEF AppTypes, Streams
  <2> DEFINE still(s) == [s EXCEPT !.running = FALSE]
  <2>2. \A s \in streams : still(s) \in Streams /\ still(s).id = s.id
    BY <2>1
  <2>3. AllStopped = {still(s) : s \in streams}
    BY DEF AllStopped
  <2> HIDE DEF still
  <2>4. \A s, r \in streams : s.id = r.id => s = r
    BY <1>t DEF AppTypes
  <2> QED BY <2>2, <2>3, <2>4
<1>1. ASSUME NEW pc \in {"halt", "resume"}, Turns(t, [NoRequest EXCEPT !.pc = pc])
      PROVE  requests' \in [Threads -> AimedRequests] /\ requests' \in [Threads -> Requests]
  <2>1. [NoRequest EXCEPT !.pc = pc] = Req(pc, {}, 0, 0)
    BY DEF NoRequest, Req
  <2>2. Req(pc, {}, 0, 0) \in Requests /\ Aimed(Req(pc, {}, 0, 0))
    BY RequestsOf DEF Aimed, Req
  <2> QED BY <1>1, <2>1, <2>2, AimedTurns DEF AimedRequests
<1>2. CASE HaltRead(t)
  BY <1>1, <1>2, <1>t DEF HaltRead, AppRanges, AppTypes, inside
<1>3. CASE HaltContainer(t)
  <2>1. requests' \in [Threads -> AimedRequests] /\ requests' \in [Threads -> Requests]
    BY <1>3, AimedGoesOn DEF HaltContainer
  <2>2. screens' \in [Screens -> {"none", "alive", "stale"}] /\ pids' \in [Apps -> Screens \cup {0}]
    BY <1>3 DEF HaltContainer
  <2> QED BY <1>3, <1>t, <2>1, <2>2 DEF HaltContainer, AppRanges, AppTypes
<1>4. CASE HaltBook(t)
  <2>1. requests' \in [Threads -> AimedRequests] /\ requests' \in [Threads -> Requests]
    BY <1>4, <1>t, AimedTurns DEF HaltBook
  <2> QED BY <1>4, <1>s, <1>t, <2>1 DEF HaltBook, AppRanges, AppTypes, inside
<1>5. CASE ResumeRead(t)
  BY <1>1, <1>5, <1>t DEF ResumeRead, AppRanges, AppTypes, inside
<1>6. CASE ResumeContainer(t)
  <2>1. requests' \in [Threads -> AimedRequests] /\ requests' \in [Threads -> Requests]
    BY <1>6, AimedGoesOn DEF ResumeContainer
  <2>2. screens' \in [Screens -> {"none", "alive", "stale"}]
    BY <1>6, <1>t DEF ResumeContainer, AppTypes
  <2> QED BY <1>6, <1>t, <2>1, <2>2 DEF ResumeContainer, AppRanges, AppTypes
<1>7. CASE ResumeBook(t)
  <2>1. requests' \in [Threads -> AimedRequests] /\ requests' \in [Threads -> Requests]
    BY <1>7, <1>t, AimedTurns DEF ResumeBook
  <2> QED BY <1>7, <1>s, <1>t, <2>1 DEF ResumeBook, AppRanges, AppTypes, inside
<1> QED BY <1>2, <1>3, <1>4, <1>5, <1>6, <1>7 DEF HaltOrResume

LEMMA ContainerRangesKept ==
    ASSUME AppStreamsAssumption, AppRanges,
           \/ \E w \in Apps \X Screens : Watch(w) \/ Close(w)
           \/ \E d \in Routed, socket \in {"none", "stale"} : DisplayDies(d, socket)
    PROVE  AppRanges'
<1>1. ASSUME NEW w \in Apps \X Screens, Watch(w) PROVE AppRanges'
  <2>1. \/ watchdogs' = watchdogs \ {w} /\ UNCHANGED <<shown, pids>>
        \/ shown' = shown \cup {w} /\ pids' = [pids EXCEPT ![w[1]] = w[2]] /\ UNCHANGED watchdogs
    BY <1>1 DEF Watch
  <2>2. w[1] \in Apps /\ w[2] \in Screens
    OBVIOUS
  <2>3. /\ shown' \subseteq Apps \X Screens /\ watchdogs' \subseteq Apps \X Screens
        /\ pids' \in [Apps -> Screens \cup {0}]
    BY <2>1, <2>2 DEF AppRanges, AppTypes
  <2> QED BY <1>1, <2>3 DEF Watch, AppRanges, AppTypes
<1>2. ASSUME NEW w \in Apps \X Screens, Close(w) PROVE AppRanges'
  BY <1>2 DEF Close, AppRanges, AppTypes
<1>3. ASSUME NEW d \in Routed, NEW socket \in {"none", "stale"}, DisplayDies(d, socket) PROVE AppRanges'
  <2>1. mishaps' \in 0 .. MaxFaults
    BY <1>3 DEF DisplayDies, Mishap, AppRanges, AppTypes, AppStreamsAssumption
  <2> QED BY <1>3, <2>1 DEF DisplayDies, AppRanges, AppTypes
<1> QED BY <1>1, <1>2, <1>3

\* The rows of app_streams, the displays, windows and requests are of their types, with either engine,
\* with fixed displays, requests side by side, lost answers and displays that die.
THEOREM AppTypesHold == ASSUME AppStreamsAssumption PROVE AppSpec => []AppTypeOK
<1>1. AppInit => AppRanges
  <2> SUFFICES ASSUME AppInit PROVE AppRanges
    OBVIOUS
  <2>1. NoRequest \in AimedRequests /\ NoRequest \in Requests
    BY RequestsOf DEF AimedRequests, Aimed, NoRequest
  <2>2. MaxFaults \in Nat
    BY DEF AppStreamsAssumption
  <2> QED BY <2>1, <2>2 DEF AppInit, AppRanges, AppTypes
<1>2. AppRanges /\ [AppNext]_appVars => AppRanges'
  <2>1. AppRanges /\ AppNext => AppRanges'
    BY StartRangesKept, StopRangesKept, HaltRangesKept, ContainerRangesKept DEF AppNext
  <2>2. AppRanges /\ UNCHANGED appVars => AppRanges'
    BY DEF AppRanges, AppTypes, appVars, inside
  <2> QED BY <2>1, <2>2
<1>3. AppRanges => AppTypeOK
  BY AppTypesAlike DEF AppRanges
<1> QED BY <1>1, <1>2, <1>3, PTL DEF AppSpec

\* With Selkies, no fixed displays and one request at a time, running applications have each
\* a display of their own, and nothing is seen there but the application of the row
\* (start_app, stop_app, halt and resume, the watchdogs).
THEOREM AppsHaveScreens ==
    ASSUME AppStreamsAssumption, Patient, Selkies, \A a \in Apps : Fixed[a] = 0
    PROVE  AppSpec => []OwnScreen
BY AppInit_Inv, AppStep_Inv, AppInv_OwnScreen, PTL DEF AppSpec

-----------------------------------------------------------------------------
(* Skeletons: a home begins with what the administrator put into it.           *)

Contents == {"none", "image", "own", "skeleton", "old", "app"}
HomeOK(h) ==
    /\ h \in [Entries -> Contents \cup {"folder", "file"}]
    /\ \A f \in Files : h[f] \in Contents
    /\ \A d \in Folders : /\ h[d] \in {"none", "folder", "file"}
                          /\ h[d] # "folder" => \A f \in Inside(d) : h[f] = "none"

LEMMA TopsAreEntries ==
    ASSUME SkeletonsAssumption, NEW e \in Entries
    PROVE  /\ TopOf(e) \in Entries /\ TopOf(TopOf(e)) = TopOf(e)
           /\ TopOf(e) # e => e \in Files /\ TopOf(e) \in Folders /\ TopOf(e) = FolderOf[e]
           /\ e \in Files => TopOf(e) = e <=> FolderOf[e] = Top
           /\ e \in Folders => TopOf(e) = e /\ e \notin Files
BY DEF SkeletonsAssumption, TopOf, Entries

\* Where nothing is, the image puts its own; nothing else becomes of a file, and no folder of a file.
LEMMA FilledFits ==
    ASSUME SkeletonsAssumption, NEW h, HomeOK(h), NEW files \in SUBSET Files
    PROVE  /\ HomeOK(Filled(h, files))
           /\ \A f \in Files : \/ Filled(h, files)[f] = h[f]
                               \/ h[f] = "none" /\ Filled(h, files)[f] = "image"
           /\ \A d \in Folders : h[d] = "file" <=> Filled(h, files)[d] = "file"
<1> DEFINE news == {f \in files : h[f] = "none" /\ (FolderOf[f] # Top => h[FolderOf[f]] # "file")}
<1> DEFINE g == Filled(h, files)
<1>1. \A f \in Files : g[f] = IF f \in news THEN "image" ELSE h[f]
  BY DEF Filled, Entries, SkeletonsAssumption
<1>2. \A d \in Folders : g[d] = IF \E f \in news : FolderOf[f] = d THEN "folder" ELSE h[d]
  BY DEF Filled, Entries, SkeletonsAssumption
<1>3. g \in [Entries -> Contents \cup {"folder", "file"}]
  BY DEF Filled, HomeOK, Contents
<1>4. ASSUME NEW d \in Folders PROVE h[d] = "file" <=> g[d] = "file"
  BY <1>2 DEF SkeletonsAssumption
<1>5. ASSUME NEW d \in Folders, g[d] # "folder", NEW f \in Inside(d) PROVE g[f] = "none"
  BY <1>1, <1>2, <1>5 DEF HomeOK, Inside
<1>6. \A f \in Files : g[f] \in Contents
  BY <1>1 DEF HomeOK, Contents
<1>7. \A d \in Folders : g[d] \in {"none", "folder", "file"}
  BY <1>2 DEF HomeOK
<1>8. HomeOK(g)
  BY <1>3, <1>5, <1>6, <1>7 DEF HomeOK
<1>9. \A f \in Files : g[f] = h[f] \/ (h[f] = "none" /\ g[f] = "image")
  BY <1>1
<1> QED BY <1>4, <1>8, <1>9

\* docker cp: an entry brings itself and, if it is a folder, what the source has in it; a file comes
\* unless its folder is missing, in the place of which there is then a file.
LEMMA CopiedFits ==
    ASSUME SkeletonsAssumption, NEW h, HomeOK(h), NEW e \in Entries, NEW source,
           NEW what \in {"skeleton", "app"}
    PROVE  /\ HomeOK(Copied(h, e, source, what))
           /\ \A f \in Files : \/ Copied(h, e, source, what)[f] = h[f]
                               \/ Copied(h, e, source, what)[f] = what /\ e \in {f, FolderOf[f]}
           /\ \A f \in Files : f = e \/ (f \in source /\ e = FolderOf[f]) =>
                  \/ Copied(h, e, source, what)[f] = what
                  \/ FolderOf[f] # Top /\ Copied(h, e, source, what)[FolderOf[f]] = "file"
           /\ \A d \in Folders : h[d] = "file" => Copied(h, e, source, what)[d] = "file"
           /\ \A d \in Folders : Copied(h, e, source, what)[d] = "file" => h[d] = "file" \/ TopOf(e) # e
<1> DEFINE g == Copied(h, e, source, what)
<1>0. /\ h \in [Entries -> Contents \cup {"folder", "file"}] /\ Files \subseteq Entries /\ Folders \subseteq Entries
      /\ Files \cap Folders = {} /\ \A f \in Files : FolderOf[f] \in Folders \/ FolderOf[f] = Top
      /\ Top \notin Entries
  BY DEF HomeOK, Entries, SkeletonsAssumption
<1>1. CASE e \in Folders /\ h[e] = "file"
  <2>1. g = h
    BY <1>0, <1>1 DEF Copied
  <2>2. e # Top /\ e \notin Files /\ TopOf(e) = e
    BY <1>0, <1>1 DEF TopOf
  <2> QED BY <1>1, <2>1, <2>2
<1>2. CASE e \in Folders /\ h[e] # "file"
  <2>1. g = Bring([h EXCEPT ![e] = "folder"], source \cap Inside(e), what)
    BY <1>0, <1>2 DEF Copied
  <2>2. \A f \in Files : g[f] = IF f \in source /\ FolderOf[f] = e THEN what ELSE h[f]
    BY <1>0, <1>2, <2>1 DEF Bring, Inside
  <2>3. \A d \in Folders : g[d] = IF d = e THEN "folder" ELSE h[d]
    BY <1>0, <1>2, <2>1 DEF Bring, Inside
  <2>4. g \in [Entries -> Contents \cup {"folder", "file"}]
    BY <1>0, <1>2, <2>1 DEF Bring, Contents
  <2>5. HomeOK(g)
    <3>1. ASSUME NEW d \in Folders, g[d] # "folder", NEW f \in Inside(d) PROVE g[f] = "none"
      <4>1. d # e /\ h[d] # "folder" /\ f \in Files /\ FolderOf[f] = d
        BY <2>3, <3>1 DEF Inside
      <4> QED BY <2>2, <3>1, <4>1 DEF HomeOK
    <3>2. \A f \in Files : g[f] \in Contents
      BY <2>2 DEF HomeOK, Contents
    <3>3. \A d \in Folders : g[d] \in {"none", "folder", "file"}
      BY <2>3 DEF HomeOK
    <3> QED BY <2>4, <3>1, <3>2, <3>3 DEF HomeOK
  <2> QED BY <1>0, <1>2, <2>2, <2>3, <2>5
<1>3. CASE e \in Files /\ TopOf(e) # e /\ h[TopOf(e)] # "folder"
  <2>1. g = [h EXCEPT ![TopOf(e)] = "file"]
    BY <1>0, <1>3 DEF Copied
  <2>2. TopOf(e) = FolderOf[e] /\ FolderOf[e] \in Folders
    BY <1>3, TopsAreEntries
  <2>3. \A f \in Files : g[f] = h[f]
    BY <1>0, <2>1, <2>2
  <2>4. \A d \in Folders : g[d] = IF d = FolderOf[e] THEN "file" ELSE h[d]
    BY <1>0, <2>1, <2>2
  <2>5. g \in [Entries -> Contents \cup {"folder", "file"}]
    BY <1>0, <2>1
  <2>6. HomeOK(g)
    <3>1. ASSUME NEW d \in Folders, g[d] # "folder", NEW f \in Inside(d) PROVE g[f] = "none"
      <4>1. h[d] # "folder"
        BY <1>3, <2>2, <2>4, <3>1
      <4> QED BY <2>3, <4>1 DEF HomeOK, Inside
    <3>2. \A f \in Files : g[f] \in Contents
      BY <2>3 DEF HomeOK
    <3>3. \A d \in Folders : g[d] \in {"none", "folder", "file"}
      BY <2>4 DEF HomeOK
    <3> QED BY <2>5, <3>1, <3>2, <3>3 DEF HomeOK
  <2>7. \A f \in Files : f = e \/ (f \in source /\ e = FolderOf[f]) => f = e
    BY <1>0, <1>3
  <2> QED BY <1>0, <1>3, <2>2, <2>3, <2>4, <2>6, <2>7
<1>4. CASE e \in Files /\ ~(TopOf(e) # e /\ h[TopOf(e)] # "folder")
  <2>1. g = Bring(h, {e}, what)
    BY <1>0, <1>4 DEF Copied
  <2>2. \A f \in Files : g[f] = IF f = e THEN what ELSE h[f]
    BY <1>0, <1>4, <2>1 DEF Bring
  <2>3. \A d \in Folders : g[d] = h[d]
    BY <1>0, <1>4, <2>1 DEF Bring
  <2>4. g \in [Entries -> Contents \cup {"folder", "file"}]
    BY <1>0, <2>1 DEF Bring, Contents
  <2>5. HomeOK(g)
    <3>1. ASSUME NEW d \in Folders, g[d] # "folder", NEW f \in Inside(d) PROVE g[f] = "none"
      <4>1. f \in Files /\ FolderOf[f] = d /\ h[d] # "folder" /\ h[f] = "none" /\ d # Top
        BY <1>0, <2>3, <3>1 DEF HomeOK, Inside
      <4>2. f # e
        BY <1>0, <1>4, <4>1 DEF TopOf
      <4> QED BY <2>2, <4>1, <4>2
    <3>2. \A f \in Files : g[f] \in Contents
      BY <2>2 DEF HomeOK, Contents
    <3>3. \A d \in Folders : g[d] \in {"none", "folder", "file"}
      BY <2>3 DEF HomeOK
    <3> QED BY <2>4, <3>1, <3>2, <3>3 DEF HomeOK
  <2>6. \A f \in Files : f = e \/ (f \in source /\ e = FolderOf[f]) => f = e
    BY <1>0, <1>4
  <2> QED BY <1>0, <1>4, <2>2, <2>3, <2>5, <2>6
<1> QED BY <1>1, <1>2, <1>3, <1>4 DEF Entries

-----------------------------------------------------------------------------

TreeOK == tree \subseteq Entries /\ \A f \in tree \cap Files : FolderOf[f] \in tree \cup {Top}
HomeDesks == [pc : {"off", "asked", "made", "copying", "on", "halted"}, fresh : BOOLEAN,
          list : SUBSET Entries, todo : SUBSET Entries, due : SUBSET Files]
AppStartings == [pc : {"idle", "copying"}, todo : SUBSET Entries, came : BOOLEAN]
UsesOfHome == [home : BOOLEAN, app : BOOLEAN]

LEMMA SkeletonTypes ==
    SkeletonTypeOK <=> /\ TreeOK /\ subtree \subseteq Files /\ enforce \subseteq Entries
                       /\ HomeOK(heim) /\ marker \in BOOLEAN
                       /\ desk \in HomeDesks /\ app \in AppStartings /\ used \in UsesOfHome
                       /\ edits \in 0 .. MaxEdits /\ slips \in 0 .. MaxSlips
BY DEF SkeletonTypeOK, TreeOK, HomeOK, Contents, HomeDesks, AppStartings, UsesOfHome

LEMMA AgedFits ==
    ASSUME NEW h, HomeOK(h), NEW f \in Files, SkeletonsAssumption
    PROVE  /\ HomeOK(Aged(h, f))
           /\ \A g \in Entries : g # f => Aged(h, f)[g] = h[g]
           /\ Aged(h, f)[f] \in {h[f], "old"} /\ (h[f] # "skeleton" => Aged(h, f)[f] = h[f])
<1>1. f \in Entries /\ \A d \in Folders : d # f /\ d \in Entries
  BY DEF Entries, SkeletonsAssumption
<1>2. /\ \A g \in Entries : g # f => Aged(h, f)[g] = h[g]
      /\ Aged(h, f)[f] \in {h[f], "old"} /\ (h[f] # "skeleton" => Aged(h, f)[f] = h[f])
  BY <1>1 DEF Aged, HomeOK
<1>3. Aged(h, f) \in [Entries -> Contents \cup {"folder", "file"}]
  BY <1>1 DEF Aged, HomeOK, Contents
<1>4. \A g \in Files : Aged(h, f)[g] \in Contents
  BY <1>2 DEF HomeOK, Contents, Entries
<1>5. \A d \in Folders : Aged(h, f)[d] = h[d]
  BY <1>1, <1>2
<1>6. \A d \in Folders : h[d] # "folder" => \A g \in Inside(d) : Aged(h, f)[g] = "none"
  BY <1>2 DEF HomeOK, Inside, Entries
<1> QED BY <1>2, <1>3, <1>4, <1>5, <1>6 DEF HomeOK

LEMMA BareHomeFits == ASSUME SkeletonsAssumption PROVE HomeOK(EmptyHome)
BY DEF HomeOK, EmptyHome, Contents, Entries, SkeletonsAssumption, Inside

LEMMA StillDesk == Off \in HomeDesks /\ NoAppStart \in AppStartings
BY DEF Off, HomeDesks, NoAppStart, AppStartings

LEMMA SkeletonInitTypes ==
    ASSUME SkeletonsAssumption, SkeletonInit
    PROVE  SkeletonTypeOK
<1>1. TreeOK /\ enforce \subseteq Entries
  BY DEF SkeletonInit, TreeOK
<1>2. used \in UsesOfHome /\ marker \in BOOLEAN /\ subtree \subseteq Files
  BY DEF SkeletonInit, UsesOfHome
<1>3. edits \in 0 .. MaxEdits /\ slips \in 0 .. MaxSlips
  BY DEF SkeletonInit, SkeletonsAssumption
<1> QED BY <1>1, <1>2, <1>3, BareHomeFits, StillDesk, SkeletonTypes DEF SkeletonInit

LEMMA SkeletonStepKeepsTypes ==
    ASSUME SkeletonsAssumption, SkeletonTypeOK, SkeletonNext
    PROVE  SkeletonTypeOK'
<1> DEFINE Rest == /\ marker' \in BOOLEAN /\ used' \in UsesOfHome
                   /\ edits' \in 0 .. MaxEdits /\ slips' \in 0 .. MaxSlips
<1> DEFINE TreesOK == TreeOK' /\ subtree' \subseteq Files /\ enforce' \subseteq Entries
<1>t. /\ TreeOK /\ subtree \subseteq Files /\ enforce \subseteq Entries
      /\ HomeOK(heim) /\ marker \in BOOLEAN
      /\ desk \in HomeDesks /\ app \in AppStartings /\ used \in UsesOfHome
      /\ edits \in 0 .. MaxEdits /\ slips \in 0 .. MaxSlips
  BY SkeletonTypes
<1>e. /\ Files \subseteq Entries /\ Folders \subseteq Entries /\ EtcSkel \subseteq Files /\ Writes \subseteq Files
      /\ MaxEdits \in Nat /\ MaxSlips \in Nat /\ \A f \in Files : FolderOf[f] \in Folders \cup {Top}
  BY DEF Entries, SkeletonsAssumption
<1>g. ASSUME TreesOK, HomeOK(heim)', desk' \in HomeDesks, app' \in AppStartings, Rest
      PROVE  SkeletonTypeOK'
  BY <1>g, SkeletonTypes DEF SkeletonTypeOK, TreeOK, HomeOK, Contents, HomeDesks, AppStartings,
     UsesOfHome, Inside, Entries
<1>k. UNCHANGED Trees => TreesOK
  BY <1>t DEF Trees, TreeOK
<1>h. UNCHANGED heim => HomeOK(heim)'
  BY <1>t DEF HomeOK, Inside, Entries
<1>d. Edit => edits' \in 0 .. MaxEdits
  BY <1>t, <1>e DEF Edit
<1>r. Trouble => slips' \in 0 .. MaxSlips
  BY <1>t, <1>e DEF Trouble
<1> HIDE DEF TreesOK, Rest
<1>1. ASSUME NEW f \in Files, SaveFile(f) PROVE SkeletonTypeOK'
  <2>1. TreesOK
    BY <1>1, <1>t, <1>e DEF SaveFile, TreeOK, TreesOK
  <2>2. HomeOK(heim)'
    BY <1>1, <1>t, AgedFits DEF SaveFile
  <2>3. desk' \in HomeDesks
    BY <1>1, <1>t DEF SaveFile, HomeDesks
  <2> QED BY <1>1, <1>t, <1>d, <1>g, <2>1, <2>2, <2>3 DEF SaveFile, Rest
<1>2. ASSUME NEW d \in Folders, MakeFolder(d) PROVE SkeletonTypeOK'
  <2>1. TreesOK
    BY <1>2, <1>t, <1>e DEF MakeFolder, TreeOK, TreesOK, SkeletonsAssumption
  <2> QED BY <1>2, <1>t, <1>d, <1>g, <1>h, <2>1 DEF MakeFolder, Rest
<1>3. ASSUME NEW e \in Entries, RemoveEntry(e) PROVE SkeletonTypeOK'
  <2> DEFINE gone == {e} \cup (IF e \in Folders THEN Inside(e) ELSE {})
  <2>1. TreesOK
    <3>1. tree' = tree \ gone /\ enforce' = enforce \ gone /\ subtree' = subtree
      BY <1>3 DEF RemoveEntry
    <3>2. ASSUME NEW f \in tree' \cap Files PROVE FolderOf[f] \in tree' \cup {Top}
      <4>1. f \in tree \cap Files /\ FolderOf[f] \in tree \cup {Top} /\ FolderOf[f] \in Folders \cup {Top}
        BY <1>t, <1>e, <3>1 DEF TreeOK
      <4>2. FolderOf[f] # Top => FolderOf[f] \notin gone
        BY <3>1, <4>1 DEF Inside, SkeletonsAssumption
      <4> QED BY <3>1, <4>1, <4>2
    <3>3. tree' \subseteq Entries
      BY <1>t, <3>1 DEF TreeOK
    <3> QED BY <1>t, <3>1, <3>2, <3>3 DEF TreeOK, TreesOK, Entries
  <2>3. desk' \in HomeDesks
    BY <1>3, <1>t DEF RemoveEntry, HomeDesks
  <2> QED BY <1>3, <1>t, <1>d, <1>g, <1>h, <2>1, <2>3 DEF RemoveEntry, Rest
<1>4. ASSUME NEW f \in Files, SaveForApp(f) PROVE SkeletonTypeOK'
  <2>1. TreesOK
    BY <1>4, <1>t DEF SaveForApp, TreeOK, TreesOK
  <2> QED BY <1>4, <1>t, <1>d, <1>g, <1>h, <2>1 DEF SaveForApp, Rest
<1>5. ASSUME NEW list \in SUBSET Entries, Enforce(list) PROVE SkeletonTypeOK'
  <2>1. TreesOK
    BY <1>5, <1>t DEF Enforce, TreeOK, TreesOK
  <2> QED BY <1>5, <1>t, <1>d, <1>g, <1>h, <2>1 DEF Enforce, Rest
<1>6. CASE StartAsked
  <2>1. desk' \in HomeDesks
    BY <1>6, <1>t DEF StartAsked, Off, HomeDesks
  <2> QED BY <1>6, <1>t, <1>g, <1>h, <1>k, <2>1 DEF StartAsked, Rest
<1>7. CASE StartMakes
  <2>1. desk' \in HomeDesks
    BY <1>7, <1>t DEF StartMakes, Unused, HomeDesks
  <2>2. HomeOK(heim)'
    BY <1>7, <1>t, <1>e, FilledFits DEF StartMakes
  <2> QED BY <1>7, <1>t, <1>g, <1>k, <2>1, <2>2 DEF StartMakes, Rest
<1>8. CASE StartEquips
  <2>1. Sources(desk.fresh, desk.list) \subseteq Entries /\ tree \cap Files \subseteq Files
    BY <1>t DEF Sources, HomeDesks, TreeOK
  <2>2. desk' \in HomeDesks
    BY <1>8, <1>t, <2>1 DEF StartEquips, HomeDesks
  <2>3. HomeOK(heim)'
    BY <1>8, <1>t, <1>e, FilledFits DEF StartEquips
  <2> QED BY <1>8, <1>t, <1>g, <1>k, <2>2, <2>3 DEF StartEquips, Rest
<1>9. ASSUME NEW e \in Entries, StartCopies(e) PROVE SkeletonTypeOK'
  <2>1. desk' \in HomeDesks
    BY <1>9, <1>t DEF StartCopies, HomeDesks
  <2>2. HomeOK(heim)'
    BY <1>9, <1>t, <1>h, CopiedFits DEF StartCopies
  <2> QED BY <1>9, <1>t, <1>g, <1>k, <2>1, <2>2 DEF StartCopies, Rest
<1>10. ASSUME NEW e \in Entries, CopyFails(e) PROVE SkeletonTypeOK'
  <2>1. desk' \in HomeDesks
    BY <1>10, <1>t DEF CopyFails, HomeDesks
  <2> QED BY <1>10, <1>t, <1>g, <1>h, <1>k, <1>r, <2>1 DEF CopyFails, Rest
<1>11. CASE StartEnds
  <2>1. desk' \in HomeDesks /\ used' \in UsesOfHome
    BY <1>11, <1>t DEF StartEnds, HomeDesks, UsesOfHome
  <2> QED BY <1>11, <1>t, <1>g, <1>h, <1>k, <2>1 DEF StartEnds, Rest
<1>12. CASE StartBreaks
  BY <1>12, <1>t, <1>g, <1>h, <1>k, <1>r, StillDesk DEF StartBreaks, Rest
<1>13. CASE HaltDesk
  <2>1. desk' \in HomeDesks
    BY <1>13, <1>t, StillDesk DEF HaltDesk, HomeDesks
  <2> QED BY <1>13, <1>t, <1>g, <1>h, <1>k, <2>1, StillDesk DEF HaltDesk, Rest
<1>14. CASE ResumeDesk
  <2>1. desk' \in HomeDesks
    BY <1>14, <1>t DEF ResumeDesk, HomeDesks
  <2>2. HomeOK(heim)'
    BY <1>14, <1>t, <1>e, FilledFits DEF ResumeDesk
  <2> QED BY <1>14, <1>t, <1>g, <1>k, <2>1, <2>2 DEF ResumeDesk, Rest
<1>15. CASE Discard
  BY <1>15, <1>t, <1>g, <1>h, <1>k, StillDesk DEF Discard, Rest
<1>16. CASE HomeGoes
  <2>1. used' \in UsesOfHome /\ HomeOK(heim)'
    BY <1>16, BareHomeFits DEF HomeGoes, UsesOfHome
  <2> QED BY <1>16, <1>t, <1>d, <1>g, <1>k, <2>1 DEF HomeGoes, Rest
<1>17. ASSUME AppStarts(marker) PROVE SkeletonTypeOK'
  <2>1. {TopOf(f) : f \in subtree} \subseteq Entries
    BY <1>t, <1>e, TopsAreEntries
  <2>2. app' \in AppStartings
    BY <1>17, <1>t, <2>1 DEF AppStarts, NoAppStart, AppStartings
  <2> QED BY <1>17, <1>t, <1>g, <1>h, <1>k, <2>2 DEF AppStarts, Rest
<1>18. ASSUME NEW e \in Entries, AppCopies(e) PROVE SkeletonTypeOK'
  <2>1. HomeOK(heim)'
    BY <1>18, <1>t, CopiedFits DEF AppCopies
  <2>2. (app.came \/ e \in Files \/ Copied(heim, e, subtree, "app")[e] = "folder") \in BOOLEAN
    BY <1>t DEF AppStartings
  <2>3. app' \in AppStartings
    BY <1>18, <1>t, <2>2 DEF AppCopies, AppStartings
  <2> QED BY <1>18, <1>t, <1>g, <1>k, <2>1, <2>3 DEF AppCopies, Rest
<1>19. ASSUME NEW marked \in BOOLEAN, AppEnds(marked) PROVE SkeletonTypeOK'
  <2>1. slips' \in 0 .. MaxSlips
    BY <1>19, <1>t, <1>r DEF AppEnds
  <2>2. marker' \in BOOLEAN
    BY <1>19, <1>t DEF AppEnds
  <2>3. used' \in UsesOfHome
    <3>1. (used.app \/ app.came) \in BOOLEAN
      BY <1>t DEF UsesOfHome, AppStartings
    <3> QED BY <1>19, <1>t, <3>1 DEF AppEnds, UsesOfHome
  <2> QED BY <1>19, <1>t, <1>g, <1>h, <1>k, <2>1, <2>2, <2>3, StillDesk DEF AppEnds, Rest
<1>20. ASSUME NEW f \in Files, UserWrites(f) PROVE SkeletonTypeOK'
  <2>1. HomeOK(heim)'
    BY <1>20, <1>t, <1>e DEF UserWrites, Bring, HomeOK, Contents, Inside, Entries, SkeletonsAssumption
  <2> QED BY <1>20, <1>t, <1>d, <1>g, <1>k, <2>1 DEF UserWrites, Rest
<1>21. ASSUME NEW e \in Entries, UserRemoves(e) PROVE SkeletonTypeOK'
  <2>1. HomeOK(heim)'
    BY <1>21, <1>t, <1>e DEF UserRemoves, Bring, HomeOK, Contents, Inside, Entries, SkeletonsAssumption
  <2> QED BY <1>21, <1>t, <1>d, <1>g, <1>k, <2>1 DEF UserRemoves, Rest
<1> QED BY <1>1, <1>2, <1>3, <1>4, <1>5, <1>6, <1>7, <1>8, <1>9, <1>10, <1>11, <1>12, <1>13, <1>14, <1>15,
           <1>16, <1>17, <1>18, <1>19, <1>20, <1>21 DEF SkeletonNext

LEMMA SkeletonStutterKeepsTypes ==
    ASSUME SkeletonTypeOK, UNCHANGED skeletonVars
    PROVE  SkeletonTypeOK'
BY DEF SkeletonTypeOK, skeletonVars, Inside, Entries

\* An application's tree comes while the desk is on and no marker says that it has come.
AppInTime == app.pc = "copying" => desk.pc = "on" /\ ~marker
ComesOnce == used.app /\ ~marker => slips > 0

\* A start that found the home empty finds nothing in its way.
Clear ==
    desk.fresh /\ desk.pc \in {"made", "copying"} =>
        /\ \A f \in Files : heim[f] # "own"
        /\ \A d \in Folders : heim[d] # "file"

\* Until the first desktop the home is bare, or the start knows that it was.
BareAtFirst ==
    ~used.home /\ slips = 0 =>
        /\ desk.pc \in {"off", "asked"} => heim = EmptyHome /\ ~marker
        /\ desk.pc \in {"made", "copying"} => desk.fresh
        /\ desk.pc \notin {"on", "halted"}

\* A start copies what it has been told to, and owes only what the skeleton still has.
Told ==
    desk.pc = "copying" => /\ desk.due \subseteq tree \cap Files
                           /\ ~desk.fresh => desk.todo \subseteq desk.list
                           /\ desk.fresh => \A e \in desk.todo : TopOf(e) = e

\* What is owed is still to come, or has come, or its folder is a file.
Coming ==
    desk.pc = "copying" /\ slips = 0 =>
        \A f \in desk.due : desk.fresh \/ Listed(f) =>
            \/ heim[f] = "skeleton"
            \/ {f, TopOf(f)} \cap desk.todo # {}
            \/ FolderOf[f] # Top /\ heim[FolderOf[f]] = "file"

SkeletonInv == AppInTime /\ ComesOnce /\ Clear /\ BareAtFirst /\ Told /\ Coming

LEMMA AppStaysInTime ==
    ASSUME SkeletonsAssumption, SkeletonTypeOK, SkeletonInv, SkeletonNext
    PROVE  (AppInTime /\ ComesOnce)'
<1>t. /\ TreeOK /\ subtree \subseteq Files /\ enforce \subseteq Entries
      /\ HomeOK(heim) /\ marker \in BOOLEAN
      /\ desk \in HomeDesks /\ app \in AppStartings /\ used \in UsesOfHome
      /\ edits \in 0 .. MaxEdits /\ slips \in 0 .. MaxSlips
  BY SkeletonTypes
<1>e. /\ Files \subseteq Entries /\ Folders \subseteq Entries /\ EtcSkel \subseteq Files /\ Writes \subseteq Files
      /\ MaxEdits \in Nat /\ MaxSlips \in Nat /\ \A f \in Files : FolderOf[f] \in Folders \cup {Top}
      /\ Top \notin Entries /\ Files \cap Folders = {} /\ Entries = Files \cup Folders
  BY DEF Entries, SkeletonsAssumption
<1> USE DEF SkeletonInv, TreeOK, HomeDesks, AppStartings, UsesOfHome, Listed
<1> USE DEF AppInTime, ComesOnce
<1>1. ASSUME NEW f \in Files, SaveFile(f) PROVE (AppInTime /\ ComesOnce)'
  BY <1>t, <1>e, <1>1, AgedFits DEF SaveFile, Edit, Inside, Bring, TopOf
<1>2. ASSUME NEW d \in Folders, MakeFolder(d) PROVE (AppInTime /\ ComesOnce)'
  BY <1>t, <1>e, <1>2 DEF MakeFolder, Edit, Inside, Bring, TopOf
<1>3. ASSUME NEW e \in Entries, RemoveEntry(e) PROVE (AppInTime /\ ComesOnce)'
  BY <1>t, <1>e, <1>3 DEF RemoveEntry, Edit, Inside, Bring, TopOf
<1>4. ASSUME NEW f \in Files, SaveForApp(f) PROVE (AppInTime /\ ComesOnce)'
  BY <1>t, <1>e, <1>4 DEF SaveForApp, Edit, Inside, Bring, TopOf
<1>5. ASSUME NEW list \in SUBSET Entries, Enforce(list) PROVE (AppInTime /\ ComesOnce)'
  BY <1>t, <1>e, <1>5 DEF Enforce, Edit, Inside, Bring, TopOf
<1>6. ASSUME StartAsked PROVE (AppInTime /\ ComesOnce)'
  BY <1>t, <1>e, <1>6 DEF StartAsked, Off, Trees, Inside, Bring, TopOf
<1>7. ASSUME StartMakes PROVE (AppInTime /\ ComesOnce)'
  BY <1>t, <1>e, <1>7, FilledFits DEF StartMakes, Unused, EmptyHome, Trees, Inside, Bring, TopOf
<1>8. ASSUME StartEquips PROVE (AppInTime /\ ComesOnce)'
  BY <1>t, <1>e, <1>8, FilledFits DEF StartEquips, Sources, Trees, Inside, Bring, TopOf
<1>9. ASSUME NEW e \in Entries, StartCopies(e) PROVE (AppInTime /\ ComesOnce)'
  BY <1>t, <1>e, <1>9, CopiedFits DEF StartCopies, Trees, Inside, Bring, TopOf
<1>10. ASSUME NEW e \in Entries, CopyFails(e) PROVE (AppInTime /\ ComesOnce)'
  BY <1>t, <1>e, <1>10 DEF CopyFails, Trouble, Trees, Inside, Bring, TopOf
<1>11. ASSUME StartEnds PROVE (AppInTime /\ ComesOnce)'
  BY <1>t, <1>e, <1>11 DEF StartEnds, Trees, Inside, Bring, TopOf
<1>12. ASSUME StartBreaks PROVE (AppInTime /\ ComesOnce)'
  BY <1>t, <1>e, <1>12 DEF StartBreaks, Trouble, Off, Trees, Inside, Bring, TopOf
<1>13. ASSUME HaltDesk PROVE (AppInTime /\ ComesOnce)'
  BY <1>t, <1>e, <1>13 DEF HaltDesk, Off, NoAppStart, Trees, Inside, Bring, TopOf
<1>14. ASSUME ResumeDesk PROVE (AppInTime /\ ComesOnce)'
  BY <1>t, <1>e, <1>14, FilledFits DEF ResumeDesk, Trees, Inside, Bring, TopOf
<1>15. ASSUME Discard PROVE (AppInTime /\ ComesOnce)'
  BY <1>t, <1>e, <1>15 DEF Discard, Off, Trees, Inside, Bring, TopOf
<1>16. ASSUME HomeGoes PROVE (AppInTime /\ ComesOnce)'
  BY <1>t, <1>e, <1>16 DEF HomeGoes, Edit, EmptyHome, Trees, Inside, Bring, TopOf
<1>17. ASSUME AppStarts(marker) PROVE (AppInTime /\ ComesOnce)'
  BY <1>t, <1>e, <1>17 DEF AppStarts, Comes, NoAppStart, Trees, Inside, Bring, TopOf
<1>18. ASSUME NEW e \in Entries, AppCopies(e) PROVE (AppInTime /\ ComesOnce)'
  BY <1>t, <1>e, <1>18, CopiedFits DEF AppCopies, Trees, Inside, Bring, TopOf
<1>19. ASSUME NEW marked \in BOOLEAN, AppEnds(marked) PROVE (AppInTime /\ ComesOnce)'
  BY <1>t, <1>e, <1>19 DEF AppEnds, Trouble, NoAppStart, Trees, Inside, Bring, TopOf
<1>20. ASSUME NEW f \in Files, UserWrites(f) PROVE (AppInTime /\ ComesOnce)'
  BY <1>t, <1>e, <1>20 DEF UserWrites, Edit, Trees, Inside, Bring, TopOf
<1>21. ASSUME NEW e \in Entries, UserRemoves(e) PROVE (AppInTime /\ ComesOnce)'
  BY <1>t, <1>e, <1>21 DEF UserRemoves, Edit, Trees, Inside, Bring, TopOf
<1> QED BY <1>1, <1>2, <1>3, <1>4, <1>5, <1>6, <1>7, <1>8, <1>9, <1>10, <1>11, <1>12, <1>13, <1>14,
          <1>15, <1>16, <1>17, <1>18, <1>19, <1>20, <1>21 DEF SkeletonNext

LEMMA ClearStays ==
    ASSUME SkeletonsAssumption, SkeletonTypeOK, SkeletonInv, SkeletonNext
    PROVE  (Clear)'
<1>t. /\ TreeOK /\ subtree \subseteq Files /\ enforce \subseteq Entries
      /\ HomeOK(heim) /\ marker \in BOOLEAN
      /\ desk \in HomeDesks /\ app \in AppStartings /\ used \in UsesOfHome
      /\ edits \in 0 .. MaxEdits /\ slips \in 0 .. MaxSlips
  BY SkeletonTypes
<1>e. /\ Files \subseteq Entries /\ Folders \subseteq Entries /\ EtcSkel \subseteq Files /\ Writes \subseteq Files
      /\ MaxEdits \in Nat /\ MaxSlips \in Nat /\ \A f \in Files : FolderOf[f] \in Folders \cup {Top}
      /\ Top \notin Entries /\ Files \cap Folders = {} /\ Entries = Files \cup Folders
  BY DEF Entries, SkeletonsAssumption
<1> USE DEF SkeletonInv, TreeOK, HomeDesks, AppStartings, UsesOfHome, Listed
<1> USE DEF Clear, AppInTime
<1>1. ASSUME NEW f \in Files, SaveFile(f) PROVE (Clear)'
  BY <1>t, <1>e, <1>1, AgedFits DEF SaveFile, Edit, Inside, Bring, TopOf
<1>2. ASSUME NEW d \in Folders, MakeFolder(d) PROVE (Clear)'
  BY <1>t, <1>e, <1>2 DEF MakeFolder, Edit, Inside, Bring, TopOf
<1>3. ASSUME NEW e \in Entries, RemoveEntry(e) PROVE (Clear)'
  BY <1>t, <1>e, <1>3 DEF RemoveEntry, Edit, Inside, Bring, TopOf
<1>4. ASSUME NEW f \in Files, SaveForApp(f) PROVE (Clear)'
  BY <1>t, <1>e, <1>4 DEF SaveForApp, Edit, Inside, Bring, TopOf
<1>5. ASSUME NEW list \in SUBSET Entries, Enforce(list) PROVE (Clear)'
  BY <1>t, <1>e, <1>5 DEF Enforce, Edit, Inside, Bring, TopOf
<1>6. ASSUME StartAsked PROVE (Clear)'
  BY <1>t, <1>e, <1>6 DEF StartAsked, Off, Trees, Inside, Bring, TopOf
<1>7. ASSUME StartMakes PROVE (Clear)'
  <2>1. CASE ~desk'.fresh
    BY <2>1
  <2>2. CASE desk'.fresh
    <3>1. heim = EmptyHome /\ heim' = Filled(heim, Writes)
      BY <1>t, <1>7, <2>2 DEF StartMakes, Unused
    <3>2. /\ \A f \in Files : heim[f] = "none"
          /\ \A d \in Folders : heim[d] = "none"
      BY <1>e, <3>1 DEF EmptyHome
    <3> QED BY <1>t, <1>e, <3>1, <3>2, FilledFits
  <2> QED BY <2>1, <2>2
<1>8. ASSUME StartEquips PROVE (Clear)'
  BY <1>t, <1>e, <1>8, FilledFits DEF StartEquips, Sources, Trees, Inside, Bring, TopOf
<1>9. ASSUME NEW e \in Entries, StartCopies(e) PROVE (Clear)'
  <2> SUFFICES ASSUME desk'.fresh PROVE Clear'
    OBVIOUS
  <2>1. desk.fresh /\ desk.pc = "copying" /\ e \in desk.todo /\ TopOf(e) = e
    BY <1>t, <1>9 DEF StartCopies, Told
  <2>2. CASE e \in tree
    <3>1. heim' = Copied(heim, e, tree, "skeleton")
      BY <1>9, <2>2 DEF StartCopies
    <3> QED BY <1>t, <2>1, <3>1, CopiedFits
  <2>3. CASE e \notin tree
    BY <1>9, <2>1, <2>3 DEF StartCopies
  <2> QED BY <2>2, <2>3
<1>10. ASSUME NEW e \in Entries, CopyFails(e) PROVE (Clear)'
  BY <1>t, <1>e, <1>10 DEF CopyFails, Trouble, Trees, Inside, Bring, TopOf
<1>11. ASSUME StartEnds PROVE (Clear)'
  BY <1>t, <1>e, <1>11 DEF StartEnds, Trees, Inside, Bring, TopOf
<1>12. ASSUME StartBreaks PROVE (Clear)'
  BY <1>t, <1>e, <1>12 DEF StartBreaks, Trouble, Off, Trees, Inside, Bring, TopOf
<1>13. ASSUME HaltDesk PROVE (Clear)'
  BY <1>t, <1>e, <1>13 DEF HaltDesk, Off, NoAppStart, Trees, Inside, Bring, TopOf
<1>14. ASSUME ResumeDesk PROVE (Clear)'
  BY <1>t, <1>e, <1>14, FilledFits DEF ResumeDesk, Trees, Inside, Bring, TopOf
<1>15. ASSUME Discard PROVE (Clear)'
  BY <1>t, <1>e, <1>15 DEF Discard, Off, Trees, Inside, Bring, TopOf
<1>16. ASSUME HomeGoes PROVE (Clear)'
  BY <1>t, <1>e, <1>16 DEF HomeGoes, Edit, EmptyHome, Trees, Inside, Bring, TopOf
<1>17. ASSUME AppStarts(marker) PROVE (Clear)'
  BY <1>t, <1>e, <1>17 DEF AppStarts, Comes, NoAppStart, Trees, Inside, Bring, TopOf
<1>18. ASSUME NEW e \in Entries, AppCopies(e) PROVE (Clear)'
  BY <1>t, <1>e, <1>18, CopiedFits DEF AppCopies, Trees, Inside, Bring, TopOf
<1>19. ASSUME NEW marked \in BOOLEAN, AppEnds(marked) PROVE (Clear)'
  BY <1>t, <1>e, <1>19 DEF AppEnds, Trouble, NoAppStart, Trees, Inside, Bring, TopOf
<1>20. ASSUME NEW f \in Files, UserWrites(f) PROVE (Clear)'
  BY <1>t, <1>e, <1>20 DEF UserWrites, Edit, Trees, Inside, Bring, TopOf
<1>21. ASSUME NEW e \in Entries, UserRemoves(e) PROVE (Clear)'
  BY <1>t, <1>e, <1>21 DEF UserRemoves, Edit, Trees, Inside, Bring, TopOf
<1> QED BY <1>1, <1>2, <1>3, <1>4, <1>5, <1>6, <1>7, <1>8, <1>9, <1>10, <1>11, <1>12, <1>13, <1>14,
          <1>15, <1>16, <1>17, <1>18, <1>19, <1>20, <1>21 DEF SkeletonNext

LEMMA BareStays ==
    ASSUME SkeletonsAssumption, SkeletonTypeOK, SkeletonInv, SkeletonNext
    PROVE  (BareAtFirst)'
<1>t. /\ TreeOK /\ subtree \subseteq Files /\ enforce \subseteq Entries
      /\ HomeOK(heim) /\ marker \in BOOLEAN
      /\ desk \in HomeDesks /\ app \in AppStartings /\ used \in UsesOfHome
      /\ edits \in 0 .. MaxEdits /\ slips \in 0 .. MaxSlips
  BY SkeletonTypes
<1>e. /\ Files \subseteq Entries /\ Folders \subseteq Entries /\ EtcSkel \subseteq Files /\ Writes \subseteq Files
      /\ MaxEdits \in Nat /\ MaxSlips \in Nat /\ \A f \in Files : FolderOf[f] \in Folders \cup {Top}
      /\ Top \notin Entries /\ Files \cap Folders = {} /\ Entries = Files \cup Folders
  BY DEF Entries, SkeletonsAssumption
<1> USE DEF SkeletonInv, TreeOK, HomeDesks, AppStartings, UsesOfHome, Listed
<1> USE DEF BareAtFirst, AppInTime
<1>1. ASSUME NEW f \in Files, SaveFile(f) PROVE (BareAtFirst)'
  <2>1. heim = EmptyHome => Aged(heim, f) = EmptyHome
    BY <1>e DEF Aged, EmptyHome
  <2> QED BY <1>t, <1>1, <2>1 DEF SaveFile, Edit
<1>2. ASSUME NEW d \in Folders, MakeFolder(d) PROVE (BareAtFirst)'
  BY <1>t, <1>e, <1>2 DEF MakeFolder, Edit, Inside, Bring, TopOf
<1>3. ASSUME NEW e \in Entries, RemoveEntry(e) PROVE (BareAtFirst)'
  BY <1>t, <1>e, <1>3 DEF RemoveEntry, Edit, Inside, Bring, TopOf
<1>4. ASSUME NEW f \in Files, SaveForApp(f) PROVE (BareAtFirst)'
  BY <1>t, <1>e, <1>4 DEF SaveForApp, Edit, Inside, Bring, TopOf
<1>5. ASSUME NEW list \in SUBSET Entries, Enforce(list) PROVE (BareAtFirst)'
  BY <1>t, <1>e, <1>5 DEF Enforce, Edit, Inside, Bring, TopOf
<1>6. ASSUME StartAsked PROVE (BareAtFirst)'
  BY <1>t, <1>e, <1>6 DEF StartAsked, Off, Trees, Inside, Bring, TopOf
<1>7. ASSUME StartMakes PROVE (BareAtFirst)'
  BY <1>t, <1>e, <1>7, FilledFits DEF StartMakes, Unused, EmptyHome, Trees, Inside, Bring, TopOf
<1>8. ASSUME StartEquips PROVE (BareAtFirst)'
  BY <1>t, <1>e, <1>8, FilledFits DEF StartEquips, Sources, Trees, Inside, Bring, TopOf
<1>9. ASSUME NEW e \in Entries, StartCopies(e) PROVE (BareAtFirst)'
  BY <1>t, <1>e, <1>9, CopiedFits DEF StartCopies, Trees, Inside, Bring, TopOf
<1>10. ASSUME NEW e \in Entries, CopyFails(e) PROVE (BareAtFirst)'
  BY <1>t, <1>e, <1>10 DEF CopyFails, Trouble, Trees, Inside, Bring, TopOf
<1>11. ASSUME StartEnds PROVE (BareAtFirst)'
  BY <1>t, <1>e, <1>11 DEF StartEnds, Trees, Inside, Bring, TopOf
<1>12. ASSUME StartBreaks PROVE (BareAtFirst)'
  BY <1>t, <1>e, <1>12 DEF StartBreaks, Trouble, Off, Trees, Inside, Bring, TopOf
<1>13. ASSUME HaltDesk PROVE (BareAtFirst)'
  BY <1>t, <1>e, <1>13 DEF HaltDesk, Off, NoAppStart, Trees, Inside, Bring, TopOf
<1>14. ASSUME ResumeDesk PROVE (BareAtFirst)'
  BY <1>t, <1>e, <1>14, FilledFits DEF ResumeDesk, Trees, Inside, Bring, TopOf
<1>15. ASSUME Discard PROVE (BareAtFirst)'
  BY <1>t, <1>e, <1>15 DEF Discard, Off, Trees, Inside, Bring, TopOf
<1>16. ASSUME HomeGoes PROVE (BareAtFirst)'
  BY <1>t, <1>e, <1>16 DEF HomeGoes, Edit, EmptyHome, Trees, Inside, Bring, TopOf
<1>17. ASSUME AppStarts(marker) PROVE (BareAtFirst)'
  BY <1>t, <1>e, <1>17 DEF AppStarts, Comes, NoAppStart, Trees, Inside, Bring, TopOf
<1>18. ASSUME NEW e \in Entries, AppCopies(e) PROVE (BareAtFirst)'
  BY <1>t, <1>e, <1>18, CopiedFits DEF AppCopies, Trees, Inside, Bring, TopOf
<1>19. ASSUME NEW marked \in BOOLEAN, AppEnds(marked) PROVE (BareAtFirst)'
  BY <1>t, <1>e, <1>19 DEF AppEnds, Trouble, NoAppStart, Trees, Inside, Bring, TopOf
<1>20. ASSUME NEW f \in Files, UserWrites(f) PROVE (BareAtFirst)'
  BY <1>t, <1>e, <1>20 DEF UserWrites, Edit, Trees, Inside, Bring, TopOf
<1>21. ASSUME NEW e \in Entries, UserRemoves(e) PROVE (BareAtFirst)'
  BY <1>t, <1>e, <1>21 DEF UserRemoves, Edit, Trees, Inside, Bring, TopOf
<1> QED BY <1>1, <1>2, <1>3, <1>4, <1>5, <1>6, <1>7, <1>8, <1>9, <1>10, <1>11, <1>12, <1>13, <1>14,
          <1>15, <1>16, <1>17, <1>18, <1>19, <1>20, <1>21 DEF SkeletonNext

LEMMA ToldStays ==
    ASSUME SkeletonsAssumption, SkeletonTypeOK, SkeletonInv, SkeletonNext
    PROVE  (Told)'
<1>t. /\ TreeOK /\ subtree \subseteq Files /\ enforce \subseteq Entries
      /\ HomeOK(heim) /\ marker \in BOOLEAN
      /\ desk \in HomeDesks /\ app \in AppStartings /\ used \in UsesOfHome
      /\ edits \in 0 .. MaxEdits /\ slips \in 0 .. MaxSlips
  BY SkeletonTypes
<1>e. /\ Files \subseteq Entries /\ Folders \subseteq Entries /\ EtcSkel \subseteq Files /\ Writes \subseteq Files
      /\ MaxEdits \in Nat /\ MaxSlips \in Nat /\ \A f \in Files : FolderOf[f] \in Folders \cup {Top}
      /\ Top \notin Entries /\ Files \cap Folders = {} /\ Entries = Files \cup Folders
  BY DEF Entries, SkeletonsAssumption
<1> USE DEF SkeletonInv, TreeOK, HomeDesks, AppStartings, UsesOfHome, Listed
<1> USE DEF Told
<1>1. ASSUME NEW f \in Files, SaveFile(f) PROVE (Told)'
  BY <1>t, <1>e, <1>1, AgedFits DEF SaveFile, Edit, Inside, Bring, TopOf
<1>2. ASSUME NEW d \in Folders, MakeFolder(d) PROVE (Told)'
  BY <1>t, <1>e, <1>2 DEF MakeFolder, Edit, Inside, Bring, TopOf
<1>3. ASSUME NEW e \in Entries, RemoveEntry(e) PROVE (Told)'
  BY <1>t, <1>e, <1>3 DEF RemoveEntry, Edit, Inside, Bring, TopOf
<1>4. ASSUME NEW f \in Files, SaveForApp(f) PROVE (Told)'
  BY <1>t, <1>e, <1>4 DEF SaveForApp, Edit, Inside, Bring, TopOf
<1>5. ASSUME NEW list \in SUBSET Entries, Enforce(list) PROVE (Told)'
  BY <1>t, <1>e, <1>5 DEF Enforce, Edit, Inside, Bring, TopOf
<1>6. ASSUME StartAsked PROVE (Told)'
  BY <1>t, <1>e, <1>6 DEF StartAsked, Off, Trees, Inside, Bring, TopOf
<1>7. ASSUME StartMakes PROVE (Told)'
  BY <1>t, <1>e, <1>7, FilledFits DEF StartMakes, Unused, EmptyHome, Trees, Inside, Bring, TopOf
<1>8. ASSUME StartEquips PROVE (Told)'
  BY <1>t, <1>e, <1>8, FilledFits DEF StartEquips, Sources, Trees, Inside, Bring, TopOf
<1>9. ASSUME NEW e \in Entries, StartCopies(e) PROVE (Told)'
  BY <1>t, <1>e, <1>9, CopiedFits DEF StartCopies, Trees, Inside, Bring, TopOf
<1>10. ASSUME NEW e \in Entries, CopyFails(e) PROVE (Told)'
  BY <1>t, <1>e, <1>10 DEF CopyFails, Trouble, Trees, Inside, Bring, TopOf
<1>11. ASSUME StartEnds PROVE (Told)'
  BY <1>t, <1>e, <1>11 DEF StartEnds, Trees, Inside, Bring, TopOf
<1>12. ASSUME StartBreaks PROVE (Told)'
  BY <1>t, <1>e, <1>12 DEF StartBreaks, Trouble, Off, Trees, Inside, Bring, TopOf
<1>13. ASSUME HaltDesk PROVE (Told)'
  BY <1>t, <1>e, <1>13 DEF HaltDesk, Off, NoAppStart, Trees, Inside, Bring, TopOf
<1>14. ASSUME ResumeDesk PROVE (Told)'
  BY <1>t, <1>e, <1>14, FilledFits DEF ResumeDesk, Trees, Inside, Bring, TopOf
<1>15. ASSUME Discard PROVE (Told)'
  BY <1>t, <1>e, <1>15 DEF Discard, Off, Trees, Inside, Bring, TopOf
<1>16. ASSUME HomeGoes PROVE (Told)'
  BY <1>t, <1>e, <1>16 DEF HomeGoes, Edit, EmptyHome, Trees, Inside, Bring, TopOf
<1>17. ASSUME AppStarts(marker) PROVE (Told)'
  BY <1>t, <1>e, <1>17 DEF AppStarts, Comes, NoAppStart, Trees, Inside, Bring, TopOf
<1>18. ASSUME NEW e \in Entries, AppCopies(e) PROVE (Told)'
  BY <1>t, <1>e, <1>18, CopiedFits DEF AppCopies, Trees, Inside, Bring, TopOf
<1>19. ASSUME NEW marked \in BOOLEAN, AppEnds(marked) PROVE (Told)'
  BY <1>t, <1>e, <1>19 DEF AppEnds, Trouble, NoAppStart, Trees, Inside, Bring, TopOf
<1>20. ASSUME NEW f \in Files, UserWrites(f) PROVE (Told)'
  BY <1>t, <1>e, <1>20 DEF UserWrites, Edit, Trees, Inside, Bring, TopOf
<1>21. ASSUME NEW e \in Entries, UserRemoves(e) PROVE (Told)'
  BY <1>t, <1>e, <1>21 DEF UserRemoves, Edit, Trees, Inside, Bring, TopOf
<1> QED BY <1>1, <1>2, <1>3, <1>4, <1>5, <1>6, <1>7, <1>8, <1>9, <1>10, <1>11, <1>12, <1>13, <1>14,
          <1>15, <1>16, <1>17, <1>18, <1>19, <1>20, <1>21 DEF SkeletonNext

LEMMA ComingStays ==
    ASSUME SkeletonsAssumption, SkeletonTypeOK, SkeletonInv, SkeletonNext
    PROVE  (Coming)'
<1>t. /\ TreeOK /\ subtree \subseteq Files /\ enforce \subseteq Entries
      /\ HomeOK(heim) /\ marker \in BOOLEAN
      /\ desk \in HomeDesks /\ app \in AppStartings /\ used \in UsesOfHome
      /\ edits \in 0 .. MaxEdits /\ slips \in 0 .. MaxSlips
  BY SkeletonTypes
<1>e. /\ Files \subseteq Entries /\ Folders \subseteq Entries /\ EtcSkel \subseteq Files /\ Writes \subseteq Files
      /\ MaxEdits \in Nat /\ MaxSlips \in Nat /\ \A f \in Files : FolderOf[f] \in Folders \cup {Top}
      /\ Top \notin Entries /\ Files \cap Folders = {} /\ Entries = Files \cup Folders
  BY DEF Entries, SkeletonsAssumption
<1> USE DEF SkeletonInv, TreeOK, HomeDesks, AppStartings, UsesOfHome, Listed
<1> USE DEF Coming, Told
<1>1. ASSUME NEW f \in Files, SaveFile(f) PROVE (Coming)'
  BY <1>t, <1>e, <1>1, AgedFits DEF SaveFile, Edit, Inside, Bring, TopOf
<1>2. ASSUME NEW d \in Folders, MakeFolder(d) PROVE (Coming)'
  BY <1>t, <1>e, <1>2 DEF MakeFolder, Edit, Inside, Bring, TopOf
<1>3. ASSUME NEW e \in Entries, RemoveEntry(e) PROVE (Coming)'
  BY <1>t, <1>e, <1>3 DEF RemoveEntry, Edit, Inside, Bring, TopOf
<1>4. ASSUME NEW f \in Files, SaveForApp(f) PROVE (Coming)'
  BY <1>t, <1>e, <1>4 DEF SaveForApp, Edit, Inside, Bring, TopOf
<1>5. ASSUME NEW list \in SUBSET Entries, Enforce(list) PROVE (Coming)'
  BY <1>t, <1>e, <1>5 DEF Enforce, Edit, Inside, Bring, TopOf
<1>6. ASSUME StartAsked PROVE (Coming)'
  BY <1>t, <1>e, <1>6 DEF StartAsked, Off, Trees, Inside, Bring, TopOf
<1>7. ASSUME StartMakes PROVE (Coming)'
  BY <1>t, <1>e, <1>7, FilledFits DEF StartMakes, Unused, EmptyHome, Trees, Inside, Bring, TopOf
<1>8. ASSUME StartEquips PROVE (Coming)'
  BY <1>t, <1>e, <1>8, FilledFits DEF StartEquips, Sources, Trees, Inside, Bring, TopOf
<1>9. ASSUME NEW e \in Entries, StartCopies(e) PROVE (Coming)'
  BY <1>t, <1>e, <1>9, CopiedFits DEF StartCopies, Trees, Inside, Bring, TopOf
<1>10. ASSUME NEW e \in Entries, CopyFails(e) PROVE (Coming)'
  BY <1>t, <1>e, <1>10 DEF CopyFails, Trouble, Trees, Inside, Bring, TopOf
<1>11. ASSUME StartEnds PROVE (Coming)'
  BY <1>t, <1>e, <1>11 DEF StartEnds, Trees, Inside, Bring, TopOf
<1>12. ASSUME StartBreaks PROVE (Coming)'
  BY <1>t, <1>e, <1>12 DEF StartBreaks, Trouble, Off, Trees, Inside, Bring, TopOf
<1>13. ASSUME HaltDesk PROVE (Coming)'
  BY <1>t, <1>e, <1>13 DEF HaltDesk, Off, NoAppStart, Trees, Inside, Bring, TopOf
<1>14. ASSUME ResumeDesk PROVE (Coming)'
  BY <1>t, <1>e, <1>14, FilledFits DEF ResumeDesk, Trees, Inside, Bring, TopOf
<1>15. ASSUME Discard PROVE (Coming)'
  BY <1>t, <1>e, <1>15 DEF Discard, Off, Trees, Inside, Bring, TopOf
<1>16. ASSUME HomeGoes PROVE (Coming)'
  BY <1>t, <1>e, <1>16 DEF HomeGoes, Edit, EmptyHome, Trees, Inside, Bring, TopOf
<1>17. ASSUME AppStarts(marker) PROVE (Coming)'
  BY <1>t, <1>e, <1>17 DEF AppStarts, Comes, NoAppStart, Trees, Inside, Bring, TopOf
<1>18. ASSUME NEW e \in Entries, AppCopies(e) PROVE (Coming)'
  BY <1>t, <1>18 DEF AppCopies, AppInTime
<1>19. ASSUME NEW marked \in BOOLEAN, AppEnds(marked) PROVE (Coming)'
  BY <1>t, <1>e, <1>19 DEF AppEnds, Trouble, NoAppStart, Trees, Inside, Bring, TopOf
<1>20. ASSUME NEW f \in Files, UserWrites(f) PROVE (Coming)'
  BY <1>t, <1>e, <1>20 DEF UserWrites, Edit, Trees, Inside, Bring, TopOf
<1>21. ASSUME NEW e \in Entries, UserRemoves(e) PROVE (Coming)'
  BY <1>t, <1>e, <1>21 DEF UserRemoves, Edit, Trees, Inside, Bring, TopOf
<1> QED BY <1>1, <1>2, <1>3, <1>4, <1>5, <1>6, <1>7, <1>8, <1>9, <1>10, <1>11, <1>12, <1>13, <1>14,
          <1>15, <1>16, <1>17, <1>18, <1>19, <1>20, <1>21 DEF SkeletonNext

LEMMA KeptNow ==
    ASSUME SkeletonsAssumption, SkeletonTypeOK, SkeletonInv, SkeletonNext
    PROVE  Kept
<1>t. /\ TreeOK /\ subtree \subseteq Files /\ enforce \subseteq Entries
      /\ HomeOK(heim) /\ marker \in BOOLEAN
      /\ desk \in HomeDesks /\ app \in AppStartings /\ used \in UsesOfHome
      /\ edits \in 0 .. MaxEdits /\ slips \in 0 .. MaxSlips
  BY SkeletonTypes
<1>e. /\ Files \subseteq Entries /\ Folders \subseteq Entries /\ EtcSkel \subseteq Files /\ Writes \subseteq Files
      /\ MaxEdits \in Nat /\ MaxSlips \in Nat /\ \A f \in Files : FolderOf[f] \in Folders \cup {Top}
      /\ Top \notin Entries /\ Files \cap Folders = {} /\ Entries = Files \cup Folders
  BY DEF Entries, SkeletonsAssumption
<1> USE DEF SkeletonInv, TreeOK, HomeDesks, AppStartings, UsesOfHome, Listed
<1> USE DEF Kept, OwnKept, AllThere, Arrives, StartIsOver
<1>1. ASSUME NEW f \in Files, SaveFile(f) PROVE Kept
  BY <1>t, <1>e, <1>1, AgedFits DEF SaveFile, Edit, Inside, Bring, TopOf
<1>2. ASSUME NEW d \in Folders, MakeFolder(d) PROVE Kept
  BY <1>t, <1>e, <1>2 DEF MakeFolder, Edit, Inside, Bring, TopOf
<1>3. ASSUME NEW e \in Entries, RemoveEntry(e) PROVE Kept
  BY <1>t, <1>e, <1>3 DEF RemoveEntry, Edit, Inside, Bring, TopOf
<1>4. ASSUME NEW f \in Files, SaveForApp(f) PROVE Kept
  BY <1>t, <1>e, <1>4 DEF SaveForApp, Edit, Inside, Bring, TopOf
<1>5. ASSUME NEW list \in SUBSET Entries, Enforce(list) PROVE Kept
  BY <1>t, <1>e, <1>5 DEF Enforce, Edit, Inside, Bring, TopOf
<1>6. ASSUME StartAsked PROVE Kept
  BY <1>t, <1>e, <1>6 DEF StartAsked, Off, Trees, Inside, Bring, TopOf
<1>7. ASSUME StartMakes PROVE Kept
  BY <1>t, <1>e, <1>7, FilledFits DEF StartMakes, Unused, EmptyHome, Trees, Inside, Bring, TopOf
<1>8. ASSUME StartEquips PROVE Kept
  BY <1>t, <1>e, <1>8, FilledFits DEF StartEquips, Sources, Trees, Inside, Bring, TopOf
<1>9. ASSUME NEW e \in Entries, StartCopies(e) PROVE Kept
  <2>1. desk.pc = "copying" /\ e \in desk.todo /\ desk'.pc = "copying"
    BY <1>t, <1>9 DEF StartCopies
  <2>2. CASE e \in tree
    <3>1. heim' = Copied(heim, e, tree, "skeleton")
      BY <1>9, <2>2 DEF StartCopies
    <3>2. ASSUME NEW f \in Files, heim[f] = "own", heim'[f] # "own"
          PROVE  Listed(f)
      <4>1. e \in {f, FolderOf[f]}
        BY <1>t, <3>1, <3>2, CopiedFits
      <4>2. ~desk.fresh
        BY <2>1, <3>2 DEF Clear
      <4> QED BY <2>1, <4>1, <4>2 DEF Told
    <3> QED BY <2>1, <3>2
  <2>3. CASE e \notin tree
    BY <1>9, <2>1, <2>3 DEF StartCopies
  <2> QED BY <2>2, <2>3
<1>10. ASSUME NEW e \in Entries, CopyFails(e) PROVE Kept
  BY <1>t, <1>e, <1>10 DEF CopyFails, Trouble, Trees, Inside, Bring, TopOf
<1>11. ASSUME StartEnds PROVE Kept
  <2>1. /\ desk.pc = "copying" /\ desk.todo = {} /\ heim' = heim
        /\ desk.due \subseteq Files
    BY <1>t, <1>11 DEF StartEnds
  <2>2. ASSUME slips = 0, NEW f \in desk.due, desk.fresh \/ Listed(f)
        PROVE  heim[f] = "skeleton" \/ (FolderOf[f] # Top /\ heim[FolderOf[f]] = "file")
    BY <2>1, <2>2 DEF Coming
  <2>3. ASSUME slips = 0, ~used.home, NEW f \in desk.due PROVE heim[f] = "skeleton"
    <3>1. desk.fresh
      BY <2>1, <2>3 DEF BareAtFirst
    <3>2. FolderOf[f] # Top => heim[FolderOf[f]] # "file"
      BY <1>e, <2>1, <2>3, <3>1 DEF Clear
    <3> QED BY <2>2, <2>3, <3>1, <3>2
  <2> QED BY <2>1, <2>2, <2>3
<1>12. ASSUME StartBreaks PROVE Kept
  BY <1>t, <1>e, <1>12 DEF StartBreaks, Trouble, Off, Trees, Inside, Bring, TopOf
<1>13. ASSUME HaltDesk PROVE Kept
  BY <1>t, <1>e, <1>13 DEF HaltDesk, Off, NoAppStart, Trees, Inside, Bring, TopOf
<1>14. ASSUME ResumeDesk PROVE Kept
  BY <1>t, <1>e, <1>14, FilledFits DEF ResumeDesk, Trees, Inside, Bring, TopOf
<1>15. ASSUME Discard PROVE Kept
  BY <1>t, <1>e, <1>15 DEF Discard, Off, Trees, Inside, Bring, TopOf
<1>16. ASSUME HomeGoes PROVE Kept
  BY <1>t, <1>e, <1>16 DEF HomeGoes, Edit, EmptyHome, Trees, Inside, Bring, TopOf
<1>17. ASSUME AppStarts(marker) PROVE Kept
  BY <1>t, <1>e, <1>17 DEF AppStarts, Comes, NoAppStart, Trees, Inside, Bring, TopOf
<1>18. ASSUME NEW e \in Entries, AppCopies(e) PROVE Kept
  <2>1. app.pc = "copying" /\ (used.app => slips > 0) /\ desk'.pc = desk.pc
    BY <1>t, <1>18 DEF AppCopies, AppInTime, ComesOnce
  <2> QED BY <2>1
<1>19. ASSUME NEW marked \in BOOLEAN, AppEnds(marked) PROVE Kept
  BY <1>t, <1>e, <1>19 DEF AppEnds, Trouble, NoAppStart, Trees, Inside, Bring, TopOf
<1>20. ASSUME NEW f \in Files, UserWrites(f) PROVE Kept
  BY <1>t, <1>e, <1>20 DEF UserWrites, Edit, Trees, Inside, Bring, TopOf
<1>21. ASSUME NEW e \in Entries, UserRemoves(e) PROVE Kept
  BY <1>t, <1>e, <1>21 DEF UserRemoves, Edit, Trees, Inside, Bring, TopOf
<1> QED BY <1>1, <1>2, <1>3, <1>4, <1>5, <1>6, <1>7, <1>8, <1>9, <1>10, <1>11, <1>12, <1>13, <1>14,
          <1>15, <1>16, <1>17, <1>18, <1>19, <1>20, <1>21 DEF SkeletonNext

LEMMA SkeletonInitFits ==
    ASSUME SkeletonsAssumption, SkeletonInit
    PROVE  SkeletonInv
<1>1. heim = EmptyHome /\ desk = Off /\ app = NoAppStart /\ marker = FALSE /\ ~used.app
  BY DEF SkeletonInit
<1>2. desk.pc = "off" /\ app.pc = "idle"
  BY <1>1 DEF Off, NoAppStart
<1>3. AppInTime /\ ComesOnce /\ Clear /\ Told /\ Coming
  BY <1>1, <1>2 DEF AppInTime, ComesOnce, Clear, Told, Coming
<1>4. BareAtFirst
  BY <1>1, <1>2 DEF BareAtFirst
<1> QED BY <1>3, <1>4 DEF SkeletonInv

LEMMA SkeletonStutterKeeps ==
    ASSUME SkeletonInv, UNCHANGED skeletonVars
    PROVE  SkeletonInv'
BY DEF SkeletonInv, AppInTime, ComesOnce, Clear, BareAtFirst, Told, Coming, Listed, skeletonVars

LEMMA SkeletonStepKeeps ==
    ASSUME SkeletonsAssumption, SkeletonTypeOK, SkeletonInv, SkeletonNext
    PROVE  SkeletonInv'
BY AppStaysInTime, ClearStays, BareStays, ToldStays, ComingStays DEF SkeletonInv

\* Skeletons: whatever administrators, users and containers write and wherever a start fails, a home
\* is one that a file system can hold: a folder that is none has nothing in it (skeleton.py).
THEOREM SkeletonTypesHold ==
    ASSUME SkeletonsAssumption
    PROVE  SkeletonSpec => []SkeletonTypeOK
<1>1. SkeletonInit => SkeletonTypeOK
  BY SkeletonInitTypes
<1>2. SkeletonTypeOK /\ [SkeletonNext]_skeletonVars => SkeletonTypeOK'
  BY SkeletonStepKeepsTypes, SkeletonStutterKeepsTypes
<1> QED BY <1>1, <1>2, PTL DEF SkeletonSpec

\* Skeletons: the user's own files are kept over all starts, halts, failures and edits, and while no
\* copy and no start has failed the first desktop of a home has the whole skeleton and every one what
\* is enforced (apply, kopiere_app in skeleton.py).
THEOREM HomesBeginRight ==
    ASSUME SkeletonsAssumption
    PROVE  SkeletonSpec => BeginsRight
<1>1. SkeletonInit => SkeletonTypeOK /\ SkeletonInv
  BY SkeletonInitTypes, SkeletonInitFits
<1>2. SkeletonTypeOK /\ SkeletonInv /\ [SkeletonNext]_skeletonVars => SkeletonTypeOK' /\ SkeletonInv'
  BY SkeletonStepKeepsTypes, SkeletonStutterKeepsTypes, SkeletonStepKeeps, SkeletonStutterKeeps
<1>3. SkeletonTypeOK /\ SkeletonInv /\ [SkeletonNext]_skeletonVars => [Kept]_skeletonVars
  BY KeptNow
<1> QED BY <1>1, <1>2, <1>3, PTL DEF SkeletonSpec, BeginsRight
=============================================================================
