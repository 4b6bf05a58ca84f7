----------------------------- MODULE ServicesProofs -----------------------------
(* Theorems about the services beside the desks: the token of a running workspace  *)
(* is kept (Extensions), for every number of people, workspaces, couplings and     *)
(* failing calls, and a web application lets in whom its groups say (WebApps), for *)
(* every number of accounts, groups and requests.                                  *)
EXTENDS Extensions, WebApps, TLAPS

Takt == task["takt"]

\* While the round revokes tokens it leaves alone those of the workspaces that run.
RoundSpares ==
    /\ Takt.pc \in {"rows", "ask", "delete"} =>
          \A p \in Places : Running(p) => p \in Takt.live
    /\ Takt.pc = "rows" => Takt.drop = {}
    /\ Takt.pc \in {"ask", "delete"} =>
          Takt.todo \cap Takt.live = {} /\ Takt.drop \cap Takt.live = {}

\* The extension accepts the token that a start has in hand, unless its row has gone.
FreshAccepted ==
    \A p \in Places :
        /\ status[p] # "starting" => fresh[p] = Nothing
        /\ fresh[p].adds => p \notin booked
        /\ fresh[p].token # 0 /\ (p \in booked \/ fresh[p].adds) => accepted[p] = fresh[p].token

TokenInv == ExtTypeOK /\ RoundSpares /\ FreshAccepted /\ LiveTokenKept

-----------------------------------------------------------------------------
(* The types.                                                                  *)

Tasks == [pc : Steps, live : SUBSET Places, todo : SUBSET (Places \cup Users),
          drop : SUBSET Places, may : SUBSET Users, open : BOOLEAN]
Tally == [tokens : 0 .. MaxTokens, secrets : 0 .. MaxSecrets, faults : 0 .. MaxFaults]

LEMMA TaskTurns ==
    ASSUME ExtTypeOK, NEW x \in Workers, NEW r \in Tasks, task' = [task EXCEPT ![x] = r]
    PROVE  /\ task' \in [Workers -> Tasks] /\ task'[x] = r
           /\ \A y \in Workers \ {x} : task'[y] = task[y]
BY DEF ExtTypeOK, Tasks

LEMMA TaskGoes ==
    ASSUME ExtTypeOK, NEW x \in Workers, NEW pc \in Steps, Goes(x, pc)
    PROVE  /\ task' \in [Workers -> Tasks]
           /\ \A y \in Workers \ {x} : task'[y] = task[y]
           /\ task'[x].pc = pc /\ task'[x].live = task[x].live /\ task'[x].todo = task[x].todo
           /\ task'[x].drop = task[x].drop
<1> DEFINE r == [task[x] EXCEPT !.pc = pc]
<1>1. r \in Tasks
  BY DEF ExtTypeOK, Tasks
<1>2. r.pc = pc /\ r.live = task[x].live /\ r.todo = task[x].todo /\ r.drop = task[x].drop
  BY DEF ExtTypeOK
<1>3. task' = [task EXCEPT ![x] = r]
  BY DEF Goes
<1> HIDE DEF r
<1> QED BY <1>1, <1>2, <1>3, TaskTurns

LEMMA Bounds ==
    ASSUME ExtensionsAssumption
    PROVE  MaxTokens \in Nat /\ MaxSecrets \in Nat /\ MaxFaults \in Nat
BY DEF ExtensionsAssumption

LEMMA FaultCounted == ASSUME ExtensionsAssumption, ExtTypeOK, Fault PROVE tally' \in Tally
<1>1. tally.faults \in 0 .. MaxFaults /\ tally.faults < MaxFaults /\ tally \in Tally
  BY DEF ExtTypeOK, Fault, Tally
<1>2. tally.faults + 1 \in 0 .. MaxFaults
  BY <1>1, Bounds
<1> QED BY <1>1, <1>2 DEF Fault, Tally

LEMMA CallCounted ==
    ASSUME ExtensionsAssumption, ExtTypeOK, Answers \/ Fails \/ Fault \/ UNCHANGED tally
    PROVE  tally' \in Tally
<1>1. CASE Fault
  BY <1>1, FaultCounted
<1>2. CASE UNCHANGED tally
  BY <1>2 DEF ExtTypeOK, Tally
<1> QED BY <1>1, <1>2 DEF Answers, Fails

\* What the administration and an account may change.
LEMMA ManagedTypes ==
    ASSUME ExtensionsAssumption, ExtTypeOK,
           \/ Couples
           \/ \E x \in Workers : Decouples(x) \/ \E on \in BOOLEAN : Configures(x, on)
           \/ \E u \in Users : Deleted(u) \/ \E may \in BOOLEAN : Changes(u, may)
    PROVE  ExtTypeOK'
<1>1. CASE Couples
  <2>1. tally.secrets \in 0 .. MaxSecrets /\ tally.secrets < MaxSecrets
    BY <1>1 DEF Couples, ExtTypeOK
  <2>2. tally.secrets + 1 \in 0 .. MaxSecrets
    BY <2>1, Bounds
  <2>3. tally.faults < MaxFaults => tally.faults + 1 \in 0 .. MaxFaults
    BY Bounds DEF ExtTypeOK
  <2>4. tally' \in Tally
    BY <1>1, <2>2, <2>3 DEF Couples, ExtTypeOK, Tally
  <2>5. coupled' \in [there : BOOLEAN, on : BOOLEAN, secret : 0 .. MaxSecrets]
    BY <1>1, <2>2 DEF Couples, ExtTypeOK
  <2>6. secret' \in 0 .. MaxSecrets
    BY <1>1, <2>2 DEF Couples
  <2> QED BY <1>1, <2>4, <2>5, <2>6 DEF Couples, ExtTypeOK, Tally
<1>2. ASSUME NEW x \in Workers, NEW on \in BOOLEAN, Configures(x, on) PROVE ExtTypeOK'
  <2>1. task' \in [Workers -> Tasks]
    BY <1>2, TaskGoes DEF Configures, Steps
  <2>2. coupled' \in [there : BOOLEAN, on : BOOLEAN, secret : 0 .. MaxSecrets]
    BY <1>2 DEF Configures, ExtTypeOK
  <2> QED BY <1>2, <2>1, <2>2 DEF Configures, ExtTypeOK, Tasks
<1>3. ASSUME NEW x \in Workers, Decouples(x) PROVE ExtTypeOK'
  <2>1. task' \in [Workers -> Tasks]
    BY <1>3, TaskGoes DEF Decouples, Steps
  <2>2. tally' \in Tally
    BY <1>3, CallCounted DEF Decouples
  <2>3. accepted' \in [Places -> 0 .. MaxTokens]
    BY <1>3, Bounds DEF Decouples, ExtTypeOK
  <2>4. coupled' \in [there : BOOLEAN, on : BOOLEAN, secret : 0 .. MaxSecrets]
    BY <1>3, Bounds DEF Decouples
  <2> QED BY <1>3, <2>1, <2>2, <2>3, <2>4 DEF Decouples, ExtTypeOK, Tasks, Tally
<1>4. ASSUME NEW u \in Users, Deleted(u) PROVE ExtTypeOK'
  <2>1. tally' \in Tally
    BY <1>4, CallCounted DEF Deleted
  <2>2. user' \in [Users -> [there : BOOLEAN, may : BOOLEAN]]
    BY <1>4 DEF Deleted, ExtTypeOK
  <2>3. status' \in [Places -> {"none", "starting", "live", "ended"}]
    BY <1>4 DEF Deleted, ExtTypeOK
  <2> QED BY <1>4, <2>1, <2>2, <2>3 DEF Deleted, OrderStays, ExtTypeOK, Tally
<1>5. ASSUME NEW u \in Users, NEW may \in BOOLEAN, Changes(u, may) PROVE ExtTypeOK'
  <2>1. tally' \in Tally
    BY <1>5, CallCounted DEF Changes
  <2>2. user' \in [Users -> [there : BOOLEAN, may : BOOLEAN]]
    BY <1>5 DEF Changes, ExtTypeOK
  <2> QED BY <1>5, <2>1, <2>2 DEF Changes, ExtTypeOK, Tally
<1> QED BY <1>1, <1>2, <1>3, <1>4, <1>5

\* What a workspace may change.
LEMMA DeskTypes ==
    ASSUME ExtensionsAssumption, ExtTypeOK, NEW p \in Places,
           \/ StartBegins(p) \/ StartIssues(p) \/ Ends(p) \/ EndsQuietly(p)
           \/ \E well \in BOOLEAN : StartEnds(p, well)
    PROVE  ExtTypeOK'
<1>1. CASE StartBegins(p) \/ EndsQuietly(p)
  BY <1>1 DEF StartBegins, EndsQuietly, ExtTypeOK
<1>2. CASE StartIssues(p)
  <2>1. tally.tokens \in 0 .. MaxTokens /\ tally.tokens < MaxTokens
    BY <1>2 DEF StartIssues, ExtTypeOK
  <2>2. tally.tokens + 1 \in 0 .. MaxTokens
    BY <2>1, Bounds
  <2>3. tally' \in Tally
    BY <1>2, <2>2 DEF StartIssues, ExtTypeOK, Tally
  <2>4. fresh' \in [Places -> [token : 0 .. MaxTokens, adds : BOOLEAN]]
    BY <1>2, <2>2 DEF StartIssues, ExtTypeOK
  <2>5. accepted' \in [Places -> 0 .. MaxTokens]
    BY <1>2, <2>2 DEF StartIssues, ExtTypeOK
  <2>6. Owner(p) \in Users
    BY DEF ExtensionsAssumption
  <2> QED BY <1>2, <2>3, <2>4, <2>5, <2>6 DEF StartIssues, ExtTypeOK, Tally
<1>3. ASSUME NEW well \in BOOLEAN, StartEnds(p, well) PROVE ExtTypeOK'
  <2>1. Nothing \in [token : 0 .. MaxTokens, adds : BOOLEAN]
    BY Bounds DEF Nothing
  <2> QED BY <1>3, <2>1 DEF StartEnds, ExtTypeOK
<1>4. CASE Ends(p)
  <2>1. /\ tally' \in Tally /\ accepted' \in [Places -> 0 .. MaxTokens] /\ booked' \subseteq Places
    <3>1. CASE p \in booked
      <4>1. PICK gone \in BOOLEAN :
               Revokes(p, gone) /\ booked' = (IF gone THEN booked \ {p} ELSE booked)
        BY <1>4, <3>1 DEF Ends
      <4>2. tally' \in Tally
        BY <4>1, CallCounted DEF Revokes
      <4> QED BY <4>1, <4>2, Bounds DEF Revokes, ExtTypeOK
    <3>2. CASE p \notin booked
      BY <1>4, <3>2 DEF Ends, ExtTypeOK, Tally
    <3> QED BY <3>1, <3>2
  <2> QED BY <1>4, <2>1 DEF Ends, ExtTypeOK, Tally
<1> QED BY <1>1, <1>2, <1>3, <1>4

LEMMA IdleTask == Idle \in Tasks
BY DEF Idle, Tasks, Steps

\* What the round makes of its task: what it reads, and one thing done.
LEMMA RoundTasks ==
    ASSUME ExtensionsAssumption, ExtTypeOK, Round
    PROVE  /\ task' \in [Workers -> Tasks]
           /\ \A y \in Workers \ {"takt"} : task'[y] = task[y]
           /\ \/ /\ TaktReads /\ Takt'.pc = "rows" /\ Takt'.drop = {}
                 /\ Takt'.live = {p \in Places : Running(p)}
              \/ /\ RowsRead /\ Takt'.pc = "ask" /\ Takt'.drop = Takt.drop
                 /\ Takt'.live = Takt.live /\ Takt'.todo = booked \ Takt.live
              \/ \E p \in Places :
                    /\ RowRevoked(p) /\ Takt'.pc = "ask" /\ Takt'.live = Takt.live
                    /\ Takt'.todo = Takt.todo \ {p} /\ Takt'.drop \subseteq Takt.drop \cup {p}
              \/ /\ Asked /\ Takt'.pc = "delete" /\ Takt'.live = Takt.live
                 /\ Takt'.drop = Takt.drop
                 /\ Takt'.todo = {} \/ Takt'.todo \cap Takt.live = {}
              \/ \E p \in Places :
                    /\ TokenDeleted(p) /\ Takt'.pc = "delete" /\ Takt'.live = Takt.live
                    /\ Takt'.todo = Takt.todo \ {p} /\ Takt'.drop = Takt.drop
              \/ (RoundCommits \/ OrdersDone \/ \E u \in Users : Order(u))
                    /\ Takt'.pc \in {"orders", "read"}
<1>0. "takt" \in Workers /\ Takt \in Tasks
  BY DEF ExtensionsAssumption, ExtTypeOK, Takt, Tasks
<1>1. CASE TaktReads
  <2> DEFINE r == [Idle EXCEPT !.pc = "rows", !.live = {p \in Places : Running(p)}]
  <2>1. r \in Tasks /\ r.pc = "rows" /\ r.drop = {} /\ r.live = {p \in Places : Running(p)}
    BY IdleTask DEF Idle, Tasks, Steps
  <2>2. task' = [task EXCEPT !["takt"] = r]
    BY <1>1 DEF TaktReads
  <2> HIDE DEF r
  <2> QED BY <1>0, <1>1, <2>1, <2>2, TaskTurns DEF Takt
<1>2. CASE RowsRead
  <2> DEFINE r == [Takt EXCEPT !.pc = "ask", !.todo = booked \ Takt.live]
  <2>1. /\ r \in Tasks /\ r.pc = "ask" /\ r.drop = Takt.drop /\ r.live = Takt.live
        /\ r.todo = booked \ Takt.live
    BY <1>0 DEF Tasks, Steps, ExtTypeOK
  <2>2. task' = [task EXCEPT !["takt"] = r]
    BY <1>2 DEF RowsRead, Takt
  <2> HIDE DEF r
  <2> QED BY <1>0, <1>2, <2>1, <2>2, TaskTurns DEF Takt
<1>3. ASSUME NEW p \in Places, RowRevoked(p)
      PROVE  /\ task' \in [Workers -> Tasks]
             /\ \A y \in Workers \ {"takt"} : task'[y] = task[y]
             /\ Takt'.pc = "ask" /\ Takt'.live = Takt.live
             /\ Takt'.todo = Takt.todo \ {p} /\ Takt'.drop \subseteq Takt.drop \cup {p}
  <2>1. PICK gone \in BOOLEAN :
           task' = [task EXCEPT !["takt"].todo = @ \ {p},
                                !["takt"].drop = IF gone THEN @ \cup {p} ELSE @]
    BY <1>3 DEF RowRevoked
  <2>2. PICK drop \in SUBSET Places :
           drop = (IF gone THEN Takt.drop \cup {p} ELSE Takt.drop)
    BY <1>0 DEF Tasks
  <2> DEFINE r == [Takt EXCEPT !.todo = Takt.todo \ {p}, !.drop = drop]
  <2>3. /\ r \in Tasks /\ r.pc = Takt.pc /\ r.drop = drop /\ r.live = Takt.live
        /\ r.todo = Takt.todo \ {p}
    BY <1>0, <2>2 DEF Tasks
  <2>4. task' = [task EXCEPT !["takt"] = r]
    BY <1>0, <2>1, <2>2 DEF Takt, ExtTypeOK
  <2>5. Takt.pc = "ask"
    BY <1>3 DEF RowRevoked, Takt
  <2> HIDE DEF r
  <2> QED BY <1>0, <2>2, <2>3, <2>4, <2>5, TaskTurns DEF Takt
<1>4. CASE Asked
  <2>1. Takt.pc = "ask" /\ Takt.todo = {}
    BY <1>4 DEF Asked, Takt
  <2>2. CASE Goes("takt", "delete")
    <3>1. /\ task' \in [Workers -> Tasks] /\ \A y \in Workers \ {"takt"} : task'[y] = task[y]
          /\ Takt'.pc = "delete" /\ Takt'.live = Takt.live
          /\ Takt'.todo = Takt.todo /\ Takt'.drop = Takt.drop
      BY <1>0, <2>2, TaskGoes DEF Steps, Takt
    <3> QED BY <1>4, <2>1, <3>1
  <2>3. CASE task' = [task EXCEPT !["takt"].pc = "delete",
                 !["takt"].todo = {p \in Places : accepted[p] # 0} \ task["takt"].live]
    <3> DEFINE r == [Takt EXCEPT !.pc = "delete",
                                 !.todo = {p \in Places : accepted[p] # 0} \ Takt.live]
    <3>1. /\ r \in Tasks /\ r.pc = "delete" /\ r.drop = Takt.drop /\ r.live = Takt.live
          /\ r.todo \cap Takt.live = {}
      BY <1>0 DEF Tasks, Steps
    <3>2. task' = [task EXCEPT !["takt"] = r]
      BY <2>3 DEF Takt
    <3> HIDE DEF r
    <3> QED BY <1>0, <1>4, <3>1, <3>2, TaskTurns DEF Takt
  <2> QED BY <1>4, <2>2, <2>3 DEF Asked
<1>5. ASSUME NEW p \in Places \cup Users, task' = [task EXCEPT !["takt"].todo = @ \ {p}]
      PROVE  /\ task' \in [Workers -> Tasks]
             /\ \A y \in Workers \ {"takt"} : task'[y] = task[y]
             /\ Takt'.pc = Takt.pc /\ Takt'.live = Takt.live
             /\ Takt'.todo = Takt.todo \ {p} /\ Takt'.drop = Takt.drop
  <2> DEFINE r == [Takt EXCEPT !.todo = Takt.todo \ {p}]
  <2>1. /\ r \in Tasks /\ r.pc = Takt.pc /\ r.drop = Takt.drop /\ r.live = Takt.live
        /\ r.todo = Takt.todo \ {p}
    BY <1>0 DEF Tasks
  <2>2. task' = [task EXCEPT !["takt"] = r]
    BY <1>5 DEF Takt
  <2> HIDE DEF r
  <2> QED BY <1>0, <2>1, <2>2, TaskTurns DEF Takt
<1>6. ASSUME NEW p \in Places, TokenDeleted(p)
      PROVE  /\ task' \in [Workers -> Tasks]
             /\ \A y \in Workers \ {"takt"} : task'[y] = task[y]
             /\ Takt'.pc = "delete" /\ Takt'.live = Takt.live
             /\ Takt'.todo = Takt.todo \ {p} /\ Takt'.drop = Takt.drop
  BY <1>5, <1>6 DEF TokenDeleted, Takt
<1>7. ASSUME NEW u \in Users, Order(u)
      PROVE  /\ task' \in [Workers -> Tasks]
             /\ \A y \in Workers \ {"takt"} : task'[y] = task[y]
             /\ Takt'.pc = "orders"
  BY <1>5, <1>7 DEF Order, Takt
<1>8. CASE RoundCommits
  <2> DEFINE r == [Idle EXCEPT !.pc = "orders", !.todo = orders]
  <2>1. r \in Tasks /\ r.pc = "orders"
    BY IdleTask DEF Tasks, Steps, ExtTypeOK, Idle
  <2>2. task' = [task EXCEPT !["takt"] = r]
    BY <1>8 DEF RoundCommits
  <2> HIDE DEF r
  <2> QED BY <1>0, <1>8, <2>1, <2>2, TaskTurns DEF Takt
<1>9. CASE OrdersDone
  BY <1>0, <1>9, TaskGoes DEF OrdersDone, Steps, Takt
<1> QED BY <1>1, <1>2, <1>3, <1>4, <1>6, <1>7, <1>8, <1>9 DEF Round

LEMMA RoundTypes ==
    ASSUME ExtensionsAssumption, ExtTypeOK, Round
    PROVE  ExtTypeOK'
<1>1. task' \in [Workers -> Tasks]
  BY RoundTasks
<1>2. CASE TaktReads \/ RowsRead \/ OrdersDone
  BY <1>1, <1>2 DEF TaktReads, RowsRead, OrdersDone, ExtTypeOK, Tasks
<1>3. ASSUME NEW p \in Places, RowRevoked(p) PROVE ExtTypeOK'
  <2>1. PICK gone \in BOOLEAN : Revokes(p, gone)
    BY <1>3 DEF RowRevoked
  <2>2. tally' \in Tally
    BY <2>1, CallCounted DEF Revokes
  <2>3. accepted' \in [Places -> 0 .. MaxTokens]
    BY <2>1, Bounds DEF Revokes, ExtTypeOK
  <2> QED BY <1>1, <1>3, <2>2, <2>3 DEF RowRevoked, ExtTypeOK, Tasks, Tally
<1>4. CASE Asked
  <2>1. tally' \in Tally
    BY <1>4, CallCounted DEF Asked
  <2> QED BY <1>1, <1>4, <2>1 DEF Asked, ExtTypeOK, Tasks, Tally
<1>5. ASSUME NEW p \in Places, TokenDeleted(p) PROVE ExtTypeOK'
  <2>1. tally' \in Tally
    BY <1>5, CallCounted DEF TokenDeleted
  <2>2. accepted' \in [Places -> 0 .. MaxTokens]
    BY <1>5, Bounds DEF TokenDeleted, ExtTypeOK
  <2> QED BY <1>1, <1>5, <2>1, <2>2 DEF TokenDeleted, ExtTypeOK, Tasks, Tally
<1>6. CASE RoundCommits
  <2>1. booked' \subseteq Places
    BY <1>6 DEF RoundCommits, ExtTypeOK
  <2> QED BY <1>1, <1>6, <2>1 DEF RoundCommits, ExtTypeOK, Tasks
<1>7. ASSUME NEW u \in Users, Order(u) PROVE ExtTypeOK'
  <2>1. tally' \in Tally
    BY <1>7, CallCounted DEF Order, CarriedOut
  <2>2. orders' \subseteq Users /\ kept' \subseteq Users
    BY <1>7 DEF Order, CarriedOut, ExtTypeOK
  <2> QED BY <1>1, <1>7, <2>1, <2>2 DEF Order, ExtTypeOK, Tasks, Tally
<1> QED BY <1>2, <1>3, <1>4, <1>5, <1>6, <1>7 DEF Round

Telling == {"idle", "read", "tell", "push", "write"}

\* What a worker makes of its task when it tells the users and writes the routes.
LEMMA FollowTasks ==
    ASSUME ExtensionsAssumption, ExtTypeOK, NEW x \in Workers, Follows(x)
    PROVE  /\ task' \in [Workers -> Tasks]
           /\ \A y \in Workers \ {x} : task'[y] = task[y]
           /\ task'[x].pc \in Telling
<1>0. task[x] \in Tasks /\ Idle.pc = "idle"
  BY DEF ExtTypeOK, Tasks, Idle
<1>1. CASE task' = [task EXCEPT ![x] = Idle]
  BY <1>0, <1>1, IdleTask, TaskTurns DEF Telling
<1>2. ASSUME NEW pc \in {"push", "read"}, Goes(x, pc)
      PROVE  /\ task' \in [Workers -> Tasks]
             /\ \A y \in Workers \ {x} : task'[y] = task[y]
             /\ task'[x].pc \in Telling
  BY <1>2, TaskGoes DEF Steps, Telling
<1>3. CASE UsersRead(x)
  <2> DEFINE r == [Idle EXCEPT !.pc = "tell", !.may = {u \in Users : Entitled(u)},
                   !.todo = {u \in Users : coupled.there /\ user[u].there}]
  <2>1. r \in Tasks /\ r.pc = "tell"
    BY DEF Idle, Tasks, Steps
  <2>2. task' = [task EXCEPT ![x] = r]
    BY <1>3 DEF UsersRead
  <2> HIDE DEF r
  <2> QED BY <2>1, <2>2, TaskTurns DEF Telling
<1>4. ASSUME NEW u \in Users, UserTold(x, u)
      PROVE  /\ task' \in [Workers -> Tasks]
             /\ \A y \in Workers \ {x} : task'[y] = task[y]
             /\ task'[x].pc \in Telling
  <2> DEFINE r == [task[x] EXCEPT !.todo = task[x].todo \ {u}]
  <2>1. r \in Tasks /\ r.pc = "tell"
    BY <1>0, <1>4 DEF UserTold, Tasks
  <2>2. task' = [task EXCEPT ![x] = r]
    BY <1>4 DEF UserTold
  <2> HIDE DEF r
  <2> QED BY <2>1, <2>2, TaskTurns DEF Telling
<1>5. CASE UsersTold(x)
  BY <1>1, <1>2, <1>5 DEF UsersTold
<1>6. CASE RoutesRead(x)
  <2> DEFINE r == [task[x] EXCEPT !.pc = "write", !.open = coupled.on]
  <2>1. r \in Tasks /\ r.pc = "write"
    BY <1>0 DEF Tasks, Steps, ExtTypeOK
  <2>2. task' = [task EXCEPT ![x] = r]
    BY <1>6 DEF RoutesRead, ExtTypeOK
  <2> HIDE DEF r
  <2> QED BY <2>1, <2>2, TaskTurns DEF Telling
<1>7. CASE RoutesWritten(x)
  BY <1>1, <1>2, <1>7 DEF RoutesWritten
<1> QED BY <1>3, <1>4, <1>5, <1>6, <1>7 DEF Follows

LEMMA FollowTypes ==
    ASSUME ExtensionsAssumption, ExtTypeOK, NEW x \in Workers, Follows(x)
    PROVE  ExtTypeOK'
<1>1. task' \in [Workers -> Tasks]
  BY FollowTasks
<1>2. CASE UsersRead(x) \/ UsersTold(x) \/ RoutesRead(x)
  BY <1>1, <1>2 DEF UsersRead, UsersTold, RoutesRead, ExtTypeOK, Tasks
<1>3. ASSUME NEW u \in Users, UserTold(x, u) PROVE ExtTypeOK'
  <2>1. tally' \in Tally
    BY <1>3, CallCounted DEF UserTold
  <2> QED BY <1>1, <1>3, <2>1 DEF UserTold, ExtTypeOK, Tasks, Tally
<1>4. CASE RoutesWritten(x)
  <2>1. tally' \in Tally
    BY <1>4, CallCounted DEF RoutesWritten
  <2>2. routes' \in BOOLEAN
    BY <1>4 DEF RoutesWritten, ExtTypeOK
  <2> QED BY <1>1, <1>4, <2>1, <2>2 DEF RoutesWritten, ExtTypeOK, Tasks, Tally
<1> QED BY <1>2, <1>3, <1>4 DEF Follows

LEMMA InitTypes == ASSUME ExtensionsAssumption, ExtInit PROVE ExtTypeOK
<1>1. coupled \in [there : BOOLEAN, on : BOOLEAN, secret : 0 .. MaxSecrets]
  BY Bounds DEF ExtInit
<1>2. Nothing \in [token : 0 .. MaxTokens, adds : BOOLEAN]
  BY Bounds DEF Nothing
<1>3. task \in [Workers -> Tasks]
  BY IdleTask DEF ExtInit
<1>4. tally \in Tally
  BY Bounds DEF ExtInit, Tally
<1>5. user \in [Users -> [there : BOOLEAN, may : BOOLEAN]]
  BY DEF ExtInit
<1>6. fresh \in [Places -> [token : 0 .. MaxTokens, adds : BOOLEAN]]
  BY <1>2 DEF ExtInit
<1> QED BY <1>1, <1>3, <1>4, <1>5, <1>6, Bounds DEF ExtInit, ExtTypeOK, Tasks, Tally

LEMMA StepTypes ==
    ASSUME ExtensionsAssumption, ExtTypeOK, [ExtNext]_extVars
    PROVE  ExtTypeOK'
<1>1. CASE UNCHANGED extVars
  BY <1>1 DEF extVars, ExtTypeOK
<1>2. CASE ExtNext
  BY <1>2, ManagedTypes, DeskTypes, RoundTypes, FollowTypes DEF ExtNext
<1> QED BY <1>1, <1>2

-----------------------------------------------------------------------------
(* The tokens.                                                                 *)

\* A worker of the administration, and a clock that tells, revoke nothing.
LEMMA OtherTask ==
    ASSUME RoundSpares, UNCHANGED status, Takt' = Takt \/ Takt'.pc \in Telling \cup {"orders"}
    PROVE  RoundSpares'
BY DEF RoundSpares, Running, Telling

LEMMA SameTokens ==
    ASSUME FreshAccepted, LiveTokenKept, UNCHANGED <<status, booked, fresh, accepted, inside>>
    PROVE  FreshAccepted' /\ LiveTokenKept'
BY DEF FreshAccepted, LiveTokenKept

LEMMA ManagedSpares ==
    ASSUME ExtensionsAssumption, TokenInv,
           \/ Couples
           \/ \E x \in Workers : Decouples(x) \/ \E on \in BOOLEAN : Configures(x, on)
           \/ \E u \in Users : Deleted(u) \/ \E may \in BOOLEAN : Changes(u, may)
    PROVE  RoundSpares' /\ FreshAccepted' /\ LiveTokenKept'
<1>0. ExtTypeOK /\ RoundSpares /\ FreshAccepted /\ LiveTokenKept
  BY DEF TokenInv
<1>1. CASE Couples \/ \E u \in Users, may \in BOOLEAN : Changes(u, may)
  <2>1. UNCHANGED <<status, booked, fresh, accepted, inside, task>>
    BY <1>1 DEF Couples, Changes
  <2> QED BY <1>0, <2>1, OtherTask, SameTokens DEF Takt
<1>2. ASSUME NEW x \in Workers, NEW on \in BOOLEAN, Configures(x, on)
      PROVE  RoundSpares' /\ FreshAccepted' /\ LiveTokenKept'
  <2>1. UNCHANGED <<status, booked, fresh, accepted, inside>> /\ x # "takt"
    BY <1>2 DEF Configures
  <2>2. Takt' = Takt
    BY <1>0, <1>2, <2>1, TaskGoes DEF Configures, Takt, Steps, ExtensionsAssumption
  <2> QED BY <1>0, <2>1, <2>2, OtherTask, SameTokens
<1>3. ASSUME NEW x \in Workers, Decouples(x)
      PROVE  RoundSpares' /\ FreshAccepted' /\ LiveTokenKept'
  <2>1. UNCHANGED <<status, fresh, inside>> /\ booked' = {} /\ x # "takt"
    BY <1>3 DEF Decouples
  <2>2. Takt' = Takt
    BY <1>0, <1>3, <2>1, TaskGoes DEF Decouples, Takt, Steps, ExtensionsAssumption
  <2>3. ASSUME NEW p \in Places, fresh[p].token # 0, fresh[p].adds PROVE accepted'[p] = fresh[p].token
    BY <1>0, <1>3, <2>3 DEF Decouples, FreshAccepted
  <2> QED BY <1>0, <2>1, <2>2, <2>3, OtherTask DEF FreshAccepted, LiveTokenKept
<1>4. ASSUME NEW u \in Users, Deleted(u)
      PROVE  RoundSpares' /\ FreshAccepted' /\ LiveTokenKept'
  <2>1. UNCHANGED <<booked, fresh, accepted, inside, task>>
    BY <1>4 DEF Deleted
  <2>2. \A p \in Places : status'[p] \in {status[p], "ended"}
    BY <1>0, <1>4 DEF Deleted, ExtTypeOK
  <2>3. \A p \in Places : status[p] = "starting" => status'[p] = "starting"
    BY <1>0, <1>4 DEF Deleted, ExtTypeOK
  <2>4. RoundSpares'
    BY <1>0, <2>1, <2>2 DEF RoundSpares, Running, Takt
  <2>5. LiveTokenKept'
    BY <1>0, <2>1, <2>2 DEF LiveTokenKept, ExtTypeOK
  <2> QED BY <1>0, <2>1, <2>3, <2>4, <2>5 DEF FreshAccepted
<1> QED BY <1>1, <1>2, <1>3, <1>4

LEMMA DeskSpares ==
    ASSUME ExtensionsAssumption, Calm, TokenInv, NEW p \in Places,
           \/ StartBegins(p) \/ StartIssues(p) \/ Ends(p) \/ EndsQuietly(p)
           \/ \E well \in BOOLEAN : StartEnds(p, well)
    PROVE  RoundSpares' /\ FreshAccepted' /\ LiveTokenKept'
<1>0. ExtTypeOK /\ RoundSpares /\ FreshAccepted /\ LiveTokenKept
  BY DEF TokenInv
<1>1. CASE StartBegins(p)
  <2>1. /\ UNCHANGED <<booked, fresh, accepted, inside, task>>
        /\ \A q \in Places : status'[q] = IF q = p THEN "starting" ELSE status[q]
        /\ Takt.pc \notin {"rows", "ask", "delete"}
    BY <1>0, <1>1 DEF StartBegins, ExtTypeOK, Takt
  <2>2. RoundSpares'
    BY <2>1 DEF RoundSpares, Takt
  <2>3. FreshAccepted' /\ LiveTokenKept'
    BY <1>0, <2>1 DEF FreshAccepted, LiveTokenKept, ExtTypeOK
  <2> QED BY <2>2, <2>3
<1>2. CASE StartIssues(p)
  <2>1. PICK adds \in BOOLEAN :
           /\ fresh' = [fresh EXCEPT ![p] = [token |-> tally.tokens + 1, adds |-> adds]]
           /\ adds <=> p \notin booked
    BY <1>2 DEF StartIssues
  <2> DEFINE r == [token |-> tally.tokens + 1, adds |-> adds]
  <2>2. fresh'[p] = r /\ \A q \in Places \ {p} : fresh'[q] = fresh[q]
    BY <1>0, <2>1 DEF ExtTypeOK
  <2>3. fresh'[p].token = tally.tokens + 1 /\ (fresh'[p].adds <=> p \notin booked)
    BY <2>1, <2>2
  <2>4. /\ UNCHANGED <<status, booked, inside, task>> /\ status[p] = "starting"
        /\ \A q \in Places \ {p} : accepted'[q] = accepted[q]
        /\ accepted'[p] = tally.tokens + 1
    BY <1>0, <1>2 DEF StartIssues, ExtTypeOK
  <2>5. RoundSpares'
    BY <1>0, <2>4, OtherTask DEF Takt
  <2>6. FreshAccepted'
    BY <1>0, <2>2, <2>3, <2>4 DEF FreshAccepted
  <2>7. LiveTokenKept'
    BY <1>0, <2>4 DEF LiveTokenKept, ExtTypeOK
  <2> QED BY <2>5, <2>6, <2>7
<1>3. ASSUME NEW well \in BOOLEAN, StartEnds(p, well)
      PROVE  RoundSpares' /\ FreshAccepted' /\ LiveTokenKept'
  <2>1. /\ UNCHANGED <<accepted, task>> /\ status[p] = "starting"
        /\ \A q \in Places \ {p} : fresh'[q] = fresh[q] /\ inside'[q] = inside[q]
                                   /\ status'[q] = status[q]
        /\ fresh'[p] = Nothing /\ inside'[p] = fresh[p].token
        /\ status'[p] \in {"live", "ended"}
        /\ booked' = IF fresh[p].adds THEN booked \cup {p} ELSE booked
    BY <1>0, <1>3 DEF StartEnds, ExtTypeOK
  <2>2. RoundSpares'
    BY <1>0, <2>1 DEF RoundSpares, Running, Takt
  <2>3. p \in booked' /\ inside'[p] # 0 => accepted[p] = inside'[p]
    BY <1>0, <2>1 DEF FreshAccepted
  <2>4. LiveTokenKept'
    BY <1>0, <2>1, <2>3 DEF LiveTokenKept, ExtTypeOK
  <2>5. fresh'[p].token = 0 /\ ~fresh'[p].adds
    BY <2>1 DEF Nothing
  <2>6. \A q \in Places \ {p} : q \in booked' <=> q \in booked
    BY <2>1
  <2>7. FreshAccepted'
    BY <1>0, <2>1, <2>5, <2>6 DEF FreshAccepted
  <2> QED BY <2>2, <2>4, <2>7
<1>4. CASE Ends(p) \/ EndsQuietly(p)
  <2>1. /\ UNCHANGED <<fresh, inside, task>> /\ status[p] = "live"
        /\ \A q \in Places : status'[q] = IF q = p THEN "ended" ELSE status[q]
    BY <1>0, <1>4 DEF Ends, EndsQuietly, ExtTypeOK
  <2>2. booked' \subseteq booked /\ \A q \in Places \ {p} : accepted'[q] = accepted[q]
    BY <1>0, <1>4 DEF Ends, EndsQuietly, Revokes, ExtTypeOK
  <2>3. RoundSpares'
    BY <1>0, <2>1 DEF RoundSpares, Running, Takt
  <2>4. fresh[p] = Nothing
    BY <1>0, <2>1 DEF FreshAccepted
  <2>5. LiveTokenKept'
    BY <1>0, <2>1, <2>2 DEF LiveTokenKept, ExtTypeOK
  <2>6. FreshAccepted'
    BY <1>0, <2>1, <2>2, <2>4 DEF FreshAccepted, Nothing
  <2> QED BY <2>3, <2>5, <2>6
<1> QED BY <1>1, <1>2, <1>3, <1>4

\* A workspace whose token the extension gives up does not run.
LEMMA NotRunning ==
    ASSUME FreshAccepted, LiveTokenKept, UNCHANGED <<status, booked, fresh, inside>>,
           NEW p \in Places, ~Running(p), \A q \in Places \ {p} : accepted'[q] = accepted[q],
           booked \subseteq Places
    PROVE  FreshAccepted' /\ LiveTokenKept'
BY DEF FreshAccepted, LiveTokenKept, Running, Nothing

LEMMA RoundStaysSafe ==
    ASSUME ExtensionsAssumption, TokenInv, Round
    PROVE  RoundSpares' /\ FreshAccepted' /\ LiveTokenKept'
<1>0. ExtTypeOK /\ RoundSpares /\ FreshAccepted /\ LiveTokenKept
  BY DEF TokenInv
<1>1. UNCHANGED <<status, fresh, inside>>
  BY DEF Round, TaktReads, RowsRead, RowRevoked, Asked, TokenDeleted, RoundCommits, OrdersDone,
         Order
<1>2. ASSUME TaktReads, Takt'.pc = "rows", Takt'.drop = {},
             Takt'.live = {p \in Places : Running(p)}
      PROVE  RoundSpares' /\ FreshAccepted' /\ LiveTokenKept'
  <2>1. UNCHANGED <<booked, accepted>>
    BY <1>2 DEF TaktReads
  <2>2. RoundSpares'
    BY <1>1, <1>2 DEF RoundSpares, Running
  <2> QED BY <1>0, <1>1, <2>1, <2>2, SameTokens
<1>3. ASSUME RowsRead, Takt'.pc = "ask", Takt'.drop = Takt.drop, Takt'.live = Takt.live,
             Takt'.todo = booked \ Takt.live
      PROVE  RoundSpares' /\ FreshAccepted' /\ LiveTokenKept'
  <2>1. UNCHANGED <<booked, accepted>> /\ Takt.pc = "rows"
    BY <1>3 DEF RowsRead, Takt
  <2>2. RoundSpares'
    BY <1>0, <1>1, <1>3, <2>1 DEF RoundSpares, Running
  <2> QED BY <1>0, <1>1, <2>1, <2>2, SameTokens
<1>4. ASSUME NEW p \in Places, RowRevoked(p), Takt'.pc = "ask", Takt'.live = Takt.live,
             Takt'.todo = Takt.todo \ {p}, Takt'.drop \subseteq Takt.drop \cup {p}
      PROVE  RoundSpares' /\ FreshAccepted' /\ LiveTokenKept'
  <2>1. UNCHANGED booked /\ Takt.pc = "ask" /\ p \in Takt.todo
    BY <1>4 DEF RowRevoked, Takt
  <2>2. p \notin Takt.live /\ ~Running(p)
    BY <1>0, <2>1 DEF RoundSpares
  <2>3. \A q \in Places \ {p} : accepted'[q] = accepted[q]
    BY <1>0, <1>4 DEF RowRevoked, Revokes, ExtTypeOK
  <2>4. RoundSpares'
    BY <1>0, <1>1, <1>4, <2>1, <2>2 DEF RoundSpares, Running
  <2>5. booked \subseteq Places
    BY <1>0 DEF ExtTypeOK
  <2> QED BY <1>0, <1>1, <2>1, <2>2, <2>3, <2>4, <2>5, NotRunning
<1>5. ASSUME Asked, Takt'.pc = "delete", Takt'.live = Takt.live, Takt'.drop = Takt.drop,
             Takt'.todo = {} \/ Takt'.todo \cap Takt.live = {}
      PROVE  RoundSpares' /\ FreshAccepted' /\ LiveTokenKept'
  <2>1. UNCHANGED <<booked, accepted>> /\ Takt.pc = "ask"
    BY <1>5 DEF Asked, Takt
  <2>2. RoundSpares'
    BY <1>0, <1>1, <1>5, <2>1 DEF RoundSpares, Running
  <2> QED BY <1>0, <1>1, <2>1, <2>2, SameTokens
<1>6. ASSUME NEW p \in Places, TokenDeleted(p), Takt'.pc = "delete", Takt'.live = Takt.live,
             Takt'.todo = Takt.todo \ {p}, Takt'.drop = Takt.drop
      PROVE  RoundSpares' /\ FreshAccepted' /\ LiveTokenKept'
  <2>1. UNCHANGED booked /\ Takt.pc = "delete" /\ p \in Takt.todo
    BY <1>6 DEF TokenDeleted, Takt
  <2>2. p \notin Takt.live /\ ~Running(p)
    BY <1>0, <2>1 DEF RoundSpares
  <2>3. \A q \in Places \ {p} : accepted'[q] = accepted[q]
    BY <1>0, <1>6 DEF TokenDeleted, ExtTypeOK
  <2>4. RoundSpares'
    BY <1>0, <1>1, <1>6, <2>1 DEF RoundSpares, Running
  <2>5. booked \subseteq Places
    BY <1>0 DEF ExtTypeOK
  <2> QED BY <1>0, <1>1, <2>1, <2>2, <2>3, <2>4, <2>5, NotRunning
<1>7. ASSUME RoundCommits \/ OrdersDone \/ \E u \in Users : Order(u),
             Takt'.pc \in {"orders", "read"}
      PROVE  RoundSpares' /\ FreshAccepted' /\ LiveTokenKept'
  <2>1. booked' \subseteq booked /\ UNCHANGED accepted
    BY <1>7 DEF RoundCommits, OrdersDone, Order
  <2>2. RoundSpares'
    BY <1>0, <1>1, <1>7, OtherTask DEF Telling
  <2> QED BY <1>0, <1>1, <2>1, <2>2 DEF FreshAccepted, LiveTokenKept
<1> QED BY <1>0, <1>2, <1>3, <1>4, <1>5, <1>6, <1>7, RoundTasks

LEMMA FollowSpares ==
    ASSUME ExtensionsAssumption, TokenInv, NEW x \in Workers, Follows(x)
    PROVE  RoundSpares' /\ FreshAccepted' /\ LiveTokenKept'
<1>1. UNCHANGED <<status, booked, fresh, accepted, inside>>
  BY DEF Follows, UsersRead, UserTold, UsersTold, RoutesRead, RoutesWritten
<1>2. Takt' = Takt \/ Takt'.pc \in Telling
  BY FollowTasks DEF TokenInv, Takt, ExtensionsAssumption
<1> QED BY <1>1, <1>2, OtherTask, SameTokens DEF TokenInv

LEMMA StepTokens ==
    ASSUME ExtensionsAssumption, Calm, TokenInv, [ExtNext]_extVars
    PROVE  TokenInv'
<1>1. ExtTypeOK'
  BY StepTypes DEF TokenInv
<1>2. CASE UNCHANGED extVars
  BY <1>1, <1>2, OtherTask, SameTokens DEF extVars, TokenInv, Takt
<1>3. CASE ExtNext
  BY <1>1, <1>3, ManagedSpares, DeskSpares, RoundStaysSafe, FollowSpares DEF ExtNext, TokenInv
<1> QED BY <1>2, <1>3

-----------------------------------------------------------------------------
(* The theorems.                                                               *)

\* Tables, tasks and what the extension knows have their types, whatever fails and whoever
\* works beside the round (erweiterungen.py).
THEOREM ExtensionTypes == ASSUME ExtensionsAssumption PROVE ExtSpec => []ExtTypeOK
<1>1. ExtInit => ExtTypeOK
  BY InitTypes
<1>2. ExtTypeOK /\ [ExtNext]_extVars => ExtTypeOK'
  BY StepTypes
<1> QED BY <1>1, <1>2, PTL DEF ExtSpec

\* The token of a running workspace is revoked by nothing, for any number of people,
\* workspaces, administrators, couplings and calls that fail, if no workspace starts while a
\* round looks for tokens to revoke (abgleichen, widerrufen, fuer_sitzung).
THEOREM RunningKeepsToken ==
    ASSUME ExtensionsAssumption, Calm
    PROVE  ExtSpec => []LiveTokenKept
<1>1. ExtInit => TokenInv
  <2>1. SUFFICES ASSUME ExtInit PROVE TokenInv
    OBVIOUS
  <2>2. RoundSpares /\ FreshAccepted /\ LiveTokenKept
    BY <2>1 DEF ExtInit, RoundSpares, FreshAccepted, LiveTokenKept, Takt, Idle, Nothing,
                ExtensionsAssumption
  <2> QED BY <2>1, <2>2, InitTypes DEF TokenInv
<1>2. TokenInv /\ [ExtNext]_extVars => TokenInv'
  BY StepTokens
<1>3. TokenInv => LiveTokenKept
  BY DEF TokenInv
<1> QED BY <1>1, <1>2, <1>3, PTL DEF ExtSpec

-----------------------------------------------------------------------------
(* WebApps: the rows and the jobs that the requests hold.                      *)

Rows == [there : BOOLEAN, groups : SUBSET Groups, all : BOOLEAN]
Clients == [there : BOOLEAN, bound : BOOLEAN, checks : BOOLEAN, told : BOOLEAN,
            mapped : SUBSET GroupNames]
Client(there, bound, checks, told, mapped) ==
    [there |-> there, bound |-> bound, checks |-> checks, told |-> told, mapped |-> mapped]
Jobs == [kind : {"none", "create", "edit", "delete", "follow"},
         pc : {"idle", "client", "read", "map", "unmap", "bind", "save", "undo", "transfer"},
         app : Rows, soll : SUBSET GroupNames, left : SUBSET People]
Job(kind, pc, row, soll, left) ==
    [kind |-> kind, pc |-> pc, app |-> row, soll |-> soll, left |-> left]
Row(G, all) == [there |-> TRUE, groups |-> G, all |-> all]

Standing(gs) == {g \in Groups : gs[g] \in GroupNames}
WantedBy(row, gs) == IF row.all THEN {} ELSE {gs[g] : g \in row.groups \cap Standing(gs)}

\* One request at a time, and the others have nothing left over.
OneRequest ==
    /\ \A q, r \in Requests : requests[q].pc = "idle" \/ requests[r].pc = "idle" \/ q = r
    /\ \A r \in Requests : requests[r].pc # "transfer" => requests[r].left = {}

\* Members and the application's groups are of groups that are there, each with its own name.
GroupsKept ==
    /\ members \subseteq People \X Standing(groups)
    /\ app.groups \subseteq Standing(groups)
    /\ \A g, h \in Standing(groups) : groups[g] = groups[h] => g = h

\* Keycloak has the members of each group under its present name, apart from those
\* whose accounts a renaming has yet to carry over.
Waits(u) == \E r \in Requests : u \in requests[r].left
CentralAgrees ==
    \A u \in People, g \in Standing(groups) : ~Waits(u) =>
        (<<u, groups[g]>> \in central <=> <<u, g>> \in members)

\* The client is as the row wants it; without a row nobody has its secret.
Suits(row, c, gs) ==
    IF row.there
    THEN /\ c.there /\ (c.bound <=> ~row.all) /\ (c.bound => c.checks)
         /\ ~row.all => c.mapped = WantedBy(row, gs)
    ELSE ~c.there \/ ~c.told

\* How far the client is, for each step of the request that changes it.
OnTheWay(w, row, c, gs) ==
    /\ w.pc \in {"read", "map", "unmap", "bind", "save"} =>
          /\ w.kind \in {"create", "edit", "follow"} /\ c.there
          /\ w.app.there /\ w.app.groups \subseteq Standing(gs)
          /\ c.bound => c.checks
    /\ w.pc \in {"map", "unmap", "bind"} => w.soll = WantedBy(w.app, gs)
    /\ w.pc = "unmap" => w.soll \subseteq c.mapped
    /\ w.pc \in {"bind", "save"} => c.mapped = WantedBy(w.app, gs)
    /\ w.pc = "save" => w.kind # "follow" /\ (c.bound <=> ~w.app.all)
    /\ w.pc = "undo" => w.kind = "create"
    /\ w.pc # "idle" /\ w.kind = "create" => ~row.there /\ ~c.told
    /\ w.pc \in {"read", "map", "unmap", "bind", "transfer"} /\ w.kind = "follow" =>
          row = w.app /\ row.there /\ c.there /\ (c.bound => c.checks)
    /\ w.pc = "transfer" => w.kind \in {"follow", "none"}
    /\ w.pc = "transfer" /\ w.kind = "none" => ~row.there /\ (~c.there \/ ~c.told)

ClientFollows ==
    /\ Quiet => Suits(app, appClient, groups)
    /\ \A r \in Requests : OnTheWay(requests[r], app, appClient, groups)

WebInv == WebTypeOK /\ OneRequest /\ GroupsKept /\ CentralAgrees /\ ClientFollows
WebTypes ==
    /\ groups \in [Groups -> GroupNames \cup {"", "gone"}] /\ members \subseteq People \X Groups
    /\ app \in Rows /\ appClient \in Clients /\ central \subseteq People \X GroupNames
    /\ requests \in [Requests -> Jobs] /\ slips \in 0 .. MaxSlips

-----------------------------------------------------------------------------
LEMMA TypesAlike == WebTypeOK <=> WebTypes
BY DEF WebTypeOK, WebTypes, Jobs, Rows, Clients

LEMMA JobsOf ==
    /\ NoApp \in Rows /\ NoClient \in Clients /\ NoWork \in Jobs
    /\ NoWork = Job("none", "idle", NoApp, {}, {})
    /\ \A kind, pc, row, soll, left : Job(kind, pc, row, soll, left) \in Jobs <=>
          /\ kind \in {"none", "create", "edit", "delete", "follow"}
          /\ pc \in {"idle", "client", "read", "map", "unmap", "bind", "save", "undo", "transfer"}
          /\ row \in Rows /\ soll \in SUBSET GroupNames /\ left \in SUBSET People
BY DEF NoApp, NoClient, NoWork, Job, Jobs, Rows, Clients

LEMMA RequestTurns ==
    ASSUME requests \in [Requests -> Jobs], NEW r \in Requests, NEW w \in Jobs,
           requests' = [requests EXCEPT ![r] = w]
    PROVE  /\ requests' \in [Requests -> Jobs] /\ requests'[r] = w
           /\ \A q \in Requests \ {r} : requests'[q] = requests[q]
OBVIOUS

LEMMA NewJob ==
    ASSUME NEW kind, NEW pc, NEW row
    PROVE  /\ [NoWork EXCEPT !.kind = kind, !.pc = pc] = Job(kind, pc, NoApp, {}, {})
           /\ [NoWork EXCEPT !.kind = kind, !.pc = pc, !.app = row] = Job(kind, pc, row, {}, {})
<1>1. PICK w1 : w1 = Job(kind, "idle", NoApp, {}, {})
  OBVIOUS
<1>2. PICK w2 : w2 = Job(kind, pc, NoApp, {}, {})
  OBVIOUS
<1>3. [NoWork EXCEPT !.kind = kind] = w1
  BY <1>1 DEF Job, NoWork
<1>4. [w1 EXCEPT !.pc = pc] = w2
  BY <1>1, <1>2 DEF Job
<1>5. [w2 EXCEPT !.app = row] = Job(kind, pc, row, {}, {})
  BY <1>2 DEF Job
<1>6. [NoWork EXCEPT !.kind = kind, !.pc = pc] = [[NoWork EXCEPT !.kind = kind] EXCEPT !.pc = pc]
  OBVIOUS
<1>7. [NoWork EXCEPT !.kind = kind, !.pc = pc, !.app = row] =
          [[[NoWork EXCEPT !.kind = kind] EXCEPT !.pc = pc] EXCEPT !.app = row]
  OBVIOUS
<1> QED BY <1>2, <1>3, <1>4, <1>5, <1>6, <1>7

LEMMA PcTurns ==
    ASSUME requests \in [Requests -> Jobs], NEW r \in Requests, NEW pc
    PROVE  [requests EXCEPT ![r].pc = pc] = [requests EXCEPT ![r] =
               Job(requests[r].kind, pc, requests[r].app, requests[r].soll, requests[r].left)]
<1>1. PICK f : f = [requests EXCEPT ![r].pc = pc]
  OBVIOUS
<1>2. PICK w : w = Job(requests[r].kind, pc, requests[r].app, requests[r].soll, requests[r].left)
  OBVIOUS
<1>3. [requests[r] EXCEPT !.pc = pc] = w
  BY <1>2 DEF Job, Jobs
<1>4. f = [requests EXCEPT ![r] = w]
  BY <1>1, <1>3
<1> QED BY <1>1, <1>2, <1>4

\* What the calls of Keycloak make of the client, field for field.
LEMMA ClientTurns ==
    /\ NewClient = Client(TRUE, FALSE, FALSE, FALSE, {}) /\ NewClient \in Clients
    /\ \A c \in Clients, names \in SUBSET GroupNames :
          /\ Mapped(c, names) \in Clients
          /\ Mapped(c, names) = Client(c.there, c.bound, c.checks, c.told, c.mapped \cup names)
          /\ Unmapped(c, names) \in Clients
          /\ Unmapped(c, names) = Client(c.there, c.bound, c.checks, c.told, c.mapped \ names)
    /\ \A c \in Clients, b \in BOOLEAN :
          /\ [c EXCEPT !.told = b] \in Clients
          /\ [c EXCEPT !.told = b] = Client(c.there, c.bound, c.checks, b, c.mapped)
          /\ [c EXCEPT !.bound = b] \in Clients
<1>1. \A there, bound, checks, told \in BOOLEAN, m \in SUBSET GroupNames :
          Client(there, bound, checks, told, m) \in Clients
  BY DEF Client, Clients
<1>2. NewClient = Client(TRUE, FALSE, FALSE, FALSE, {})
  BY DEF NewClient, Client
<1>3. \A c \in Clients : /\ c.there \in BOOLEAN /\ c.bound \in BOOLEAN /\ c.checks \in BOOLEAN
                        /\ c.told \in BOOLEAN /\ c.mapped \in SUBSET GroupNames
  BY DEF Clients
<1>4. ASSUME NEW c \in Clients, NEW names \in SUBSET GroupNames
      PROVE  /\ Mapped(c, names) \in Clients
             /\ Mapped(c, names) = Client(c.there, c.bound, c.checks, c.told, c.mapped \cup names)
             /\ Unmapped(c, names) \in Clients
             /\ Unmapped(c, names) = Client(c.there, c.bound, c.checks, c.told, c.mapped \ names)
  <2>1. Mapped(c, names) = Client(c.there, c.bound, c.checks, c.told, c.mapped \cup names)
    BY DEF Mapped, Client, Clients
  <2>2. Unmapped(c, names) = Client(c.there, c.bound, c.checks, c.told, c.mapped \ names)
    BY DEF Unmapped, Client, Clients
  <2>3. c.mapped \cup names \in SUBSET GroupNames /\ c.mapped \ names \in SUBSET GroupNames
    BY <1>3
  <2>4. PICK m \in SUBSET GroupNames : m = c.mapped \cup names
    BY <2>3
  <2>5. PICK o \in SUBSET GroupNames : o = c.mapped \ names
    BY <2>3
  <2>6. /\ Client(c.there, c.bound, c.checks, c.told, m) \in Clients
        /\ Client(c.there, c.bound, c.checks, c.told, o) \in Clients
    BY <1>1, <1>3
  <2> QED BY <2>1, <2>2, <2>4, <2>5, <2>6
<1>5. ASSUME NEW c \in Clients, NEW b \in BOOLEAN
      PROVE  /\ [c EXCEPT !.told = b] \in Clients
             /\ [c EXCEPT !.told = b] = Client(c.there, c.bound, c.checks, b, c.mapped)
             /\ [c EXCEPT !.bound = b] \in Clients
  <2>1. [c EXCEPT !.told = b] = Client(c.there, c.bound, c.checks, b, c.mapped)
    BY DEF Client, Clients
  <2>2. [c EXCEPT !.told = b] \in Clients /\ [c EXCEPT !.bound = b] \in Clients
    BY DEF Clients
  <2> QED BY <2>1, <2>2
<1>6. NewClient \in Clients
  <2>1. {} \in SUBSET GroupNames
    OBVIOUS
  <2> QED BY <1>1, <1>2, <2>1
<1> QED BY <1>2, <1>4, <1>5, <1>6

\* The sign-in flow: whether it is the client's own, and whether it asks for the role.
LEMMA FlowTurns ==
    ASSUME NEW c \in Clients, NEW all \in BOOLEAN, NEW heard \in BOOLEAN
    PROVE  /\ Bound(c, all, heard) \in Clients
           /\ Bound(c, all, heard).there = c.there /\ Bound(c, all, heard).told = c.told
           /\ Bound(c, all, heard).mapped = c.mapped
           /\ c.there /\ heard =>
                 /\ Bound(c, all, heard).bound <=> ~all
                 /\ (c.bound => c.checks) =>
                       (Bound(c, all, heard).bound => Bound(c, all, heard).checks)
<1>1. PICK b \in BOOLEAN : b <=> (c.there /\ IF all THEN c.bound /\ ~heard ELSE TRUE)
  OBVIOUS
<1>2. PICK k \in BOOLEAN : k <=> (IF c.bound THEN c.checks ELSE heard)
  OBVIOUS
<1>3. (c.there /\ IF all THEN c.bound /\ ~heard ELSE TRUE) = b
  BY <1>1
<1>4. (IF c.bound THEN c.checks ELSE heard) = k
  <2>1. c.checks \in BOOLEAN
    BY DEF Clients
  <2> QED BY <1>2, <2>1
<1>5. Bound(c, all, heard) = [[c EXCEPT !.bound = b] EXCEPT !.checks = k]
  BY <1>3, <1>4 DEF Bound
<1>6. PICK d : d = Client(c.there, b, c.checks, c.told, c.mapped)
  OBVIOUS
<1>7. PICK e : e = Client(c.there, b, k, c.told, c.mapped)
  OBVIOUS
<1>8. [c EXCEPT !.bound = b] = d
  BY <1>6 DEF Client, Clients
<1>9. [d EXCEPT !.checks = k] = e
  BY <1>6, <1>7 DEF Client
<1>10. e \in Clients
  BY <1>7 DEF Client, Clients
<1>11. Bound(c, all, heard) = e
  BY <1>5, <1>8, <1>9
<1>12. e.there = c.there /\ e.told = c.told /\ e.mapped = c.mapped /\ e.bound = b /\ e.checks = k
  BY <1>7 DEF Client
<1>13. c.there /\ heard => (b <=> ~all) /\ ((c.bound => c.checks) => (b => k))
  BY <1>1, <1>2
<1> QED BY <1>10, <1>11, <1>12, <1>13

\* A failure of the kind that the proof rules out does not happen.
LEMMA NotSlipping ==
    ASSUME NEW kind, kind \notin Slipping
    PROVE  ~MayFail(kind) /\ ~Slips(kind)
BY DEF MayFail, Slips

\* What the requests of an administrator write down, field for field.
LEMMA RequestsWrite ==
    ASSUME requests \in [Requests -> Jobs], NEW r \in Requests
    PROVE  /\ \A pc : Moves(r, pc) => requests' = [requests EXCEPT ![r] =
                 Job(requests[r].kind, pc, requests[r].app, requests[r].soll, requests[r].left)]
           /\ Done(r) => requests' = [requests EXCEPT ![r] = Job("none", "idle", NoApp, {}, {})]
           /\ requests[r] = Job(requests[r].kind, requests[r].pc, requests[r].app,
                                requests[r].soll, requests[r].left)
BY DEF Moves, Done, Job, Jobs, NoWork

\* When one request moves, the others rest.
LEMMA OthersRest ==
    ASSUME WebInv, Serial, NEW r \in Requests, Free(r) \/ requests[r].pc # "idle"
    PROVE  \A q \in Requests \ {r} : requests[q].pc = "idle" /\ requests[q].left = {}
BY DEF WebInv, OneRequest, Free

\* So it is enough to look at the request that moves.
LEMMA OneMoves ==
    ASSUME WebInv, Serial, NEW r \in Requests, Free(r) \/ requests[r].pc # "idle",
           NEW w \in Jobs, requests' = [requests EXCEPT ![r] = w],
           w.pc # "transfer" => w.left = {},
           w.pc = "idle" => Suits(app', appClient', groups'),
           OnTheWay(w, app', appClient', groups')
    PROVE  /\ requests' \in [Requests -> Jobs] /\ OneRequest' /\ ClientFollows'
           /\ \A u : Waits(u)' <=> u \in w.left
<1>1. requests \in [Requests -> Jobs]
  BY TypesAlike DEF WebInv, WebTypes
<1>2. /\ requests' \in [Requests -> Jobs] /\ requests'[r] = w
      /\ \A q \in Requests \ {r} : requests'[q] = requests[q]
  BY <1>1, RequestTurns
<1>3. \A q \in Requests \ {r} : requests'[q].pc = "idle" /\ requests'[q].left = {}
  BY <1>2, OthersRest
<1>4. OneRequest'
  BY <1>2, <1>3 DEF OneRequest
<1>5. \A u : Waits(u)' <=> u \in w.left
  BY <1>2, <1>3 DEF Waits
<1>6. \A q \in Requests : OnTheWay(requests'[q], app', appClient', groups')
  <2>1. ASSUME NEW q \in Requests \ {r} PROVE OnTheWay(requests'[q], app', appClient', groups')
    BY <1>3 DEF OnTheWay
  <2> QED BY <2>1, <1>2
<1>7. Quiet' => Suits(app', appClient', groups')
  BY <1>2 DEF Quiet
<1> QED BY <1>2, <1>4, <1>5, <1>6, <1>7 DEF ClientFollows

\* What a request for the application leaves alone of the groups.
LEMMA GroupsStay ==
    ASSUME WebInv, UNCHANGED <<groups, members, central>>, app' \in Rows,
           app'.groups \subseteq Standing(groups), \A u \in People : Waits(u) => Waits(u)'
    PROVE  GroupsKept' /\ CentralAgrees'
<1>1. groups' = groups /\ members' = members /\ central' = central
  OBVIOUS
<1>2. GroupsKept'
  BY <1>1 DEF WebInv, GroupsKept, Standing
<1>3. CentralAgrees'
  BY <1>1 DEF WebInv, CentralAgrees, Standing
<1> QED BY <1>2, <1>3

\* The state before the step, as the proofs of the actions use it.
LEMMA AtHand ==
    ASSUME WebInv, Serial, NEW r \in Requests
    PROVE  /\ WebTypes /\ requests[r] \in Jobs
           /\ OnTheWay(requests[r], app, appClient, groups)
           /\ Free(r) => Quiet /\ Suits(app, appClient, groups) /\ \A u : ~Waits(u)
           /\ requests[r].pc \notin {"idle", "transfer"} => \A u : ~Waits(u)
           /\ \A u : Waits(u) /\ ~Free(r) /\ requests[r].pc # "idle" => u \in requests[r].left
<1>1. WebTypes /\ requests[r] \in Jobs
  BY TypesAlike DEF WebInv, WebTypes
<1>2. OnTheWay(requests[r], app, appClient, groups)
  BY DEF WebInv, ClientFollows
<1>3. Free(r) => Quiet /\ Suits(app, appClient, groups) /\ \A u : ~Waits(u)
  BY DEF WebInv, ClientFollows, Free, Quiet, Waits, OneRequest
<1>4. requests[r].pc # "idle" => \A q \in Requests \ {r} : requests[q].left = {}
  BY OthersRest
<1>5. requests[r].pc \notin {"idle", "transfer"} => \A u : ~Waits(u)
  BY <1>4 DEF WebInv, OneRequest, Waits
<1>6. \A u : Waits(u) /\ requests[r].pc # "idle" => u \in requests[r].left
  BY <1>4 DEF Waits
<1> QED BY <1>1, <1>2, <1>3, <1>5, <1>6

\* A step that no request takes part in.
LEMMA NoneMoves ==
    ASSUME WebInv, \A r \in Requests : requests[r].pc = "idle", requests' = requests,
           Suits(app', appClient', groups')
    PROVE  OneRequest' /\ ClientFollows' /\ \A u : Waits(u)' <=> Waits(u)
<1>1. \A r \in Requests : OnTheWay(requests'[r], app', appClient', groups')
  BY DEF OnTheWay
<1>2. OneRequest' /\ \A u : Waits(u)' <=> Waits(u)
  BY DEF WebInv, OneRequest, Waits
<1> QED BY <1>1, <1>2 DEF ClientFollows

LEMMA SlipsOrNot ==
    ASSUME WebAppsAssumption, WebTypes, NEW kind, UNCHANGED slips \/ Slips(kind)
    PROVE  slips' \in 0 .. MaxSlips
<1>1. slips \in 0 .. MaxSlips /\ MaxSlips \in Nat
  BY DEF WebAppsAssumption, WebTypes
<1>2. CASE UNCHANGED slips
  BY <1>1, <1>2
<1>3. CASE slips < MaxSlips /\ slips' = slips + 1
  BY <1>1, <1>3
<1> QED BY <1>2, <1>3 DEF MayFail, Slips

LEMMA NoWorkLeft ==
    ASSUME NEW w, w = NoWork, NEW row, NEW c, NEW gs
    PROVE  w.left = {} /\ w.pc = "idle" /\ OnTheWay(w, row, c, gs)
BY DEF NoWork, OnTheWay

LEMMA CreateKeeps ==
    ASSUME WebInv, WebAppsAssumption, Serial, NEW r \in Requests, NEW G \in SUBSET Present,
           NEW all \in BOOLEAN, Create(r, G, all)
    PROVE  WebInv'
<1> DEFINE w == Job("create", "read", Row(G, all), {}, {})
<1>1. w \in Jobs
  <2>1. Row(G, all) \in Rows
    BY DEF Row, Rows, Present
  <2> QED BY <2>1, JobsOf
<1>2. UNCHANGED <<groups, members, app, central>> /\ Free(r) /\ ~app.there /\ appClient' = NewClient
  BY DEF Create
<1>3. /\ appClient' \in Clients /\ appClient'.there /\ ~appClient'.told /\ ~appClient'.bound
  BY <1>2, AtHand, ClientTurns DEF WebTypes, Client
<1>4. /\ requests' \in [Requests -> Jobs] /\ OneRequest' /\ ClientFollows' /\ \A u : ~Waits(u)'
      /\ slips' \in 0 .. MaxSlips
  <2>1. CASE UNCHANGED slips /\ requests' = [requests EXCEPT ![r] =
            [NoWork EXCEPT !.kind = "create", !.pc = "read",
                !.app = [there |-> TRUE, groups |-> G, all |-> all]]]
    <3>1. w = [NoWork EXCEPT !.kind = "create", !.pc = "read",
                  !.app = [there |-> TRUE, groups |-> G, all |-> all]]
      BY NewJob DEF Row
    <3>2. requests' = [requests EXCEPT ![r] = w]
      <4> HIDE DEF w
      <4> QED BY <2>1, <3>1
    <3>3. OnTheWay(w, app', appClient', groups')
      BY <1>2, <1>3 DEF OnTheWay, Job, Row, Standing, Present
    <3>4. w.pc # "idle" /\ w.left = {}
      BY DEF Job
    <3> HIDE DEF w
    <3> QED BY <1>1, <1>2, <2>1, <3>2, <3>3, <3>4, OneMoves, AtHand DEF WebTypes
  <2>2. CASE Slips("lost") /\ UNCHANGED requests
    <3>1. \A q \in Requests : requests[q].pc = "idle"
      BY <1>2, AtHand DEF Quiet
    <3>2. Suits(app', appClient', groups')
      BY <1>2, <1>3 DEF Suits
    <3> QED BY <1>2, <2>2, <3>1, <3>2, NoneMoves, AtHand, SlipsOrNot DEF WebTypes
  <2> QED BY <2>1, <2>2 DEF Create
<1>5. WebTypes'
  BY <1>2, <1>3, <1>4, AtHand DEF WebTypes
<1>6. GroupsKept' /\ CentralAgrees'
  BY <1>2, <1>4, <1>5, AtHand, GroupsStay DEF WebInv, GroupsKept, WebTypes
<1> QED BY <1>4, <1>5, <1>6, TypesAlike DEF WebInv, WebTypeOK, WebTypes, Rows, Clients, Jobs

LEMMA EditKeeps ==
    ASSUME WebInv, Serial, "edit" \notin Slipping, NEW r \in Requests, NEW G \in SUBSET Present, NEW all \in BOOLEAN,
           NEW moved \in BOOLEAN, Edit(r, G, all, moved)
    PROVE  WebInv'
<1> DEFINE w == Job("edit", "read", Row(G, all), {}, {})
<1>0. Row(G, all) \in Rows
  BY DEF Row, Rows, Present
<1>1. w \in Jobs /\ requests' = [requests EXCEPT ![r] = w]
  <2>1. w \in Jobs
    BY <1>0, JobsOf
  <2>2. w = [NoWork EXCEPT !.kind = "edit", !.pc = "read",
                !.app = [there |-> TRUE, groups |-> G, all |-> all]]
    BY NewJob DEF Row
  <2>3. requests' = [requests EXCEPT ![r] =
            [NoWork EXCEPT !.kind = "edit", !.pc = "read",
                !.app = [there |-> TRUE, groups |-> G, all |-> all]]]
    BY NotSlipping DEF Edit
  <2> HIDE DEF w
  <2> QED BY <2>1, <2>2, <2>3
<1>2. UNCHANGED <<groups, members, app, central, slips>> /\ Free(r) /\ app.there
      /\ appClient' \in {NewClient, appClient}
  BY NotSlipping DEF Edit
<1>3. /\ appClient' \in Clients /\ appClient'.there
      /\ appClient'.bound => appClient'.checks
  <2>1. appClient \in Clients /\ appClient.there /\ (appClient.bound => appClient.checks)
    BY <1>2, AtHand DEF Suits, WebTypes
  <2>2. NewClient \in Clients /\ NewClient.there /\ ~NewClient.bound
    BY ClientTurns DEF Client
  <2> QED BY <1>2, <2>1, <2>2
<1>4. OnTheWay(w, app', appClient', groups')
  BY <1>2, <1>3 DEF OnTheWay, Job, Row, Standing, Present
<1>5. requests' \in [Requests -> Jobs] /\ OneRequest' /\ ClientFollows'
      /\ \A u : Waits(u)' <=> u \in {}
  BY <1>1, <1>2, <1>4, OneMoves DEF Job
<1>6. WebTypes'
  BY <1>2, <1>3, <1>5, AtHand DEF WebTypes
<1>7. GroupsKept' /\ CentralAgrees'
  BY <1>2, <1>5, <1>6, AtHand, GroupsStay DEF WebInv, GroupsKept, WebTypes
<1> QED BY <1>5, <1>6, <1>7, TypesAlike DEF WebInv, WebTypeOK, WebTypes, Rows, Clients, Jobs

LEMMA RemoveKeeps ==
    ASSUME WebInv, Serial, NEW r \in Requests, Remove(r)
    PROVE  WebInv'
<1> DEFINE w == Job("delete", "client", NoApp, {}, {})
<1>1. w \in Jobs /\ requests' = [requests EXCEPT ![r] = w]
  <2>1. w \in Jobs
    BY JobsOf
  <2>2. w = [NoWork EXCEPT !.kind = "delete", !.pc = "client"]
    BY NewJob
  <2>3. requests' = [requests EXCEPT ![r] =
            [NoWork EXCEPT !.kind = "delete", !.pc = "client"]]
    BY DEF Remove
  <2> HIDE DEF w
  <2> QED BY <2>1, <2>2, <2>3
<1>2. UNCHANGED <<groups, members, app, central, slips>> /\ Free(r)
      /\ appClient' = [appClient EXCEPT !.bound = FALSE]
  BY DEF Remove
<1>3. OnTheWay(w, app', appClient', groups')
  BY DEF OnTheWay, Job
<1>4. requests' \in [Requests -> Jobs] /\ OneRequest' /\ ClientFollows'
      /\ \A u : Waits(u)' <=> u \in {}
  BY <1>1, <1>2, <1>3, OneMoves DEF Job
<1>5. WebTypes'
  BY <1>2, <1>4, AtHand, ClientTurns DEF WebTypes
<1>6. GroupsKept' /\ CentralAgrees'
  BY <1>2, <1>4, <1>5, AtHand, GroupsStay DEF WebInv, GroupsKept, WebTypes
<1> QED BY <1>4, <1>5, <1>6, TypesAlike DEF WebInv, WebTypeOK, WebTypes, Rows, Clients, Jobs

LEMMA NewSecretKeeps ==
    ASSUME WebInv, Serial, NewSecret
    PROVE  WebInv'
<1>1. /\ UNCHANGED <<groups, members, app, central, requests, slips>> /\ app.there
      /\ appClient' = [appClient EXCEPT !.told = TRUE]
      /\ \A r \in Requests : requests[r].pc = "idle"
  BY DEF NewSecret, Stands
<1>2. WebTypes /\ Suits(app, appClient, groups)
  BY <1>1, TypesAlike DEF WebInv, ClientFollows, Quiet
<1>3. /\ appClient' \in Clients /\ appClient'.there = appClient.there
      /\ appClient'.bound = appClient.bound /\ appClient'.checks = appClient.checks
      /\ appClient'.mapped = appClient.mapped
  <2>1. PICK b \in BOOLEAN : b = TRUE
    OBVIOUS
  <2>2. appClient' = Client(appClient.there, appClient.bound, appClient.checks, b, appClient.mapped)
        /\ appClient' \in Clients
    BY <1>1, <1>2, <2>1, ClientTurns DEF WebTypes
  <2> QED BY <2>2 DEF Client
<1>4. Suits(app', appClient', groups')
  BY <1>1, <1>2, <1>3 DEF Suits
<1>5. OneRequest' /\ ClientFollows' /\ \A u : Waits(u)' <=> Waits(u)
  BY <1>1, <1>4, NoneMoves
<1>6. WebTypes'
  BY <1>1, <1>2, <1>3 DEF WebTypes
<1>7. GroupsKept' /\ CentralAgrees'
  BY <1>1, <1>5, <1>6, GroupsStay DEF WebInv, GroupsKept, WebTypes
<1> QED BY <1>5, <1>6, <1>7, TypesAlike DEF WebInv, WebTypeOK, WebTypes, Rows, Clients, Jobs

\* Both end without the row, and with a client only if nobody knows its secret.
LEMMA EndsBare ==
    ASSUME WebInv, WebAppsAssumption, Serial, "delete" \notin Slipping, NEW r \in Requests,
           RemoveClient(r) \/ Undo(r)
    PROVE  WebInv'
<1>1. PICK w \in Jobs : w = NoWork /\ requests' = [requests EXCEPT ![r] = w]
  BY JobsOf DEF RemoveClient, Undo, Done
<1>2. WebTypes /\ OnTheWay(requests[r], app, appClient, groups)
  BY AtHand
<1>3. UNCHANGED <<groups, members, central>> /\ requests[r].pc \notin {"idle", "transfer"}
      /\ app' \in {app, NoApp}
      /\ (UNCHANGED slips \/ Slips("undo"))
  BY NotSlipping DEF RemoveClient, Undo, Stands
<1>4. ~app'.there /\ appClient' \in Clients /\ (~appClient'.there \/ ~appClient'.told)
  <2>1. CASE RemoveClient(r)
    <3>1. app' = NoApp /\ appClient' = NoClient
      BY <2>1, NotSlipping DEF RemoveClient
    <3>2. ~NoApp.there /\ ~NoClient.there
      BY DEF NoApp, NoClient
    <3> QED BY <3>1, <3>2, JobsOf
  <2>2. CASE Undo(r)
    <3>1. requests[r].pc = "undo" /\ app' = app /\ appClient' \in {NoClient, appClient}
      BY <2>2 DEF Undo, Stands
    <3>2. ~app.there /\ ~appClient.told
      BY <1>2, <3>1 DEF OnTheWay
    <3>3. ~NoClient.there /\ NoClient \in Clients
      BY JobsOf DEF NoClient
    <3>4. appClient \in Clients
      BY <1>2 DEF WebTypes
    <3> QED BY <3>1, <3>2, <3>3, <3>4
  <2> QED BY <2>1, <2>2
<1>5. OnTheWay(w, app', appClient', groups') /\ Suits(app', appClient', groups') /\ w.left = {}
  BY <1>1, <1>4, NoWorkLeft DEF Suits
<1>6. requests' \in [Requests -> Jobs] /\ OneRequest' /\ ClientFollows'
      /\ \A u : Waits(u)' <=> u \in {}
  BY <1>1, <1>3, <1>5, OneMoves
<1>7. slips' \in 0 .. MaxSlips
  BY <1>2, <1>3, SlipsOrNot
<1>8. app' \in Rows /\ app'.groups \subseteq Standing(groups)
  <2>1. app \in Rows /\ NoApp \in Rows /\ app.groups \subseteq Standing(groups)
    BY <1>2, JobsOf DEF WebInv, GroupsKept, WebTypes
  <2>2. NoApp.groups = {}
    BY DEF NoApp
  <2> QED BY <1>3, <2>1, <2>2
<1>9. WebTypes'
  BY <1>2, <1>3, <1>4, <1>6, <1>7, <1>8 DEF WebTypes
<1>10. GroupsKept' /\ CentralAgrees'
  BY <1>2, <1>3, <1>6, <1>8, AtHand, GroupsStay DEF WebTypes
<1> QED BY <1>6, <1>9, <1>10, TypesAlike DEF WebInv, WebTypeOK, WebTypes, Rows, Clients, Jobs

LEMMA WantedAlike ==
    ASSUME NEW r \in Requests, requests \in [Requests -> Jobs]
    PROVE  Wanted(r) = WantedBy(requests[r].app, groups) /\ Wanted(r) \in SUBSET GroupNames
BY DEF Wanted, WantedBy, NamesOf, Standing, Present

\* One call of keycloak.anwendung_zugang: what it leaves of the client, and what follows.
LEMMA AccessGoes ==
    ASSUME WebInv, Serial, "silent" \notin Slipping, NEW r \in Requests, Access(r)
    PROVE  \E w \in Jobs, c \in Clients, row \in Rows :
              /\ requests' = [requests EXCEPT ![r] = w] /\ w.left = {}
              /\ appClient' = c /\ app' = row /\ row.groups \subseteq Standing(groups)
              /\ OnTheWay(w, row, c, groups)
              /\ w.pc = "idle" => Suits(row, c, groups)
<1> DEFINE m == requests[r]
           Goal(w, c, row) == /\ requests' = [requests EXCEPT ![r] = w] /\ w.left = {}
              /\ appClient' = c /\ app' = row /\ row.groups \subseteq Standing(groups)
              /\ OnTheWay(w, row, c, groups)
              /\ w.pc = "idle" => Suits(row, c, groups)
<1>1. WebTypes /\ m \in Jobs /\ OnTheWay(m, app, appClient, groups)
      /\ requests \in [Requests -> Jobs] /\ app.groups \subseteq Standing(groups)
      /\ app \in Rows /\ appClient \in Clients
  BY AtHand DEF WebTypes, WebInv, GroupsKept
<1>2. m = Job(m.kind, m.pc, m.app, m.soll, m.left) /\ m.kind \in {"none", "create", "edit", "delete", "follow"}
      /\ m.app \in Rows /\ m.soll \in SUBSET GroupNames
  BY <1>1 DEF Job, Jobs
<1>3. m.pc # "transfer" => m.left = {}
  BY DEF WebInv, OneRequest
<1>4. Wanted(r) = WantedBy(m.app, groups) /\ Wanted(r) \in SUBSET GroupNames
  BY <1>1, WantedAlike
<1>5. CASE Stands(r, "read") /\ appClient.there /\ UNCHANGED <<app, appClient>>
           /\ requests' = [requests EXCEPT ![r].pc = "map", ![r].soll = Wanted(r)]
  <2> DEFINE w == Job(m.kind, "map", m.app, Wanted(r), {})
  <2>1. w \in Jobs
    BY <1>2, <1>4, JobsOf
  <2>2. requests' = [requests EXCEPT ![r] = w]
    <3> DEFINE w1 == Job(m.kind, "map", m.app, m.soll, m.left)
               f == [requests EXCEPT ![r] = w1]
    <3>1. [requests EXCEPT ![r].pc = "map"] = f
      BY <1>1, PcTurns
    <3>2. requests' = [[requests EXCEPT ![r].pc = "map"] EXCEPT ![r].soll = Wanted(r)]
      BY <1>5
    <3>3. requests' = [f EXCEPT ![r] = [f[r] EXCEPT !.soll = Wanted(r)]]
      BY <3>1, <3>2
    <3>4. f[r] = w1 /\ m.left = {}
      BY <1>1, <1>3, <1>5 DEF Stands
    <3>5. [w1 EXCEPT !.soll = Wanted(r)] = w
      BY <3>4 DEF Job
    <3> HIDE DEF w, w1
    <3> QED BY <1>1, <3>3, <3>4, <3>5
  <2>3. OnTheWay(w, app, appClient, groups)
    BY <1>1, <1>4, <1>5 DEF OnTheWay, Job, Stands
  <2> QED BY <2>1, <2>2, <2>3, <1>1, <1>5 DEF Job
<1>6. CASE Stands(r, "read") /\ ~appClient.there
  BY <1>1, <1>6 DEF OnTheWay, Stands
<1>7. CASE Stands(r, "map") /\ Moves(r, "unmap") /\ UNCHANGED app
           /\ appClient' = Mapped(appClient, m.soll)
  <2> DEFINE w == Job(m.kind, "unmap", m.app, m.soll, {})
             c == Client(appClient.there, appClient.bound, appClient.checks, appClient.told,
                         appClient.mapped \cup m.soll)
  <2>1. w \in Jobs /\ c \in Clients
    <3>1. Mapped(appClient, m.soll) = c /\ Mapped(appClient, m.soll) \in Clients
      BY <1>1, <1>2, ClientTurns
    <3>2. w \in Jobs
      BY <1>2, JobsOf
    <3> QED BY <3>1, <3>2
  <2>2. requests' = [requests EXCEPT ![r] = w]
    BY <1>1, <1>3, <1>7, RequestsWrite DEF Stands
  <2>3. appClient' = c
    BY <1>1, <1>2, <1>7, ClientTurns
  <2>4. OnTheWay(w, app, c, groups)
    BY <1>1, <1>7 DEF OnTheWay, Job, Client, Stands
  <2> QED BY <2>1, <2>2, <2>3, <2>4, <1>1, <1>7 DEF Job
<1>8. CASE Stands(r, "unmap") /\ Moves(r, "bind") /\ UNCHANGED app
           /\ appClient' = Unmapped(appClient, TooMany(r))
  <2> DEFINE w == Job(m.kind, "bind", m.app, m.soll, {})
             c == Client(appClient.there, appClient.bound, appClient.checks, appClient.told,
                         appClient.mapped \ TooMany(r))
  <2>0. TooMany(r) \in SUBSET GroupNames /\ TooMany(r) = appClient.mapped \ m.soll
    BY <1>1 DEF TooMany, Clients
  <2>1. w \in Jobs /\ c \in Clients
    <3>1. Unmapped(appClient, TooMany(r)) = c /\ Unmapped(appClient, TooMany(r)) \in Clients
      BY <1>1, <2>0, ClientTurns
    <3>2. w \in Jobs
      BY <1>2, JobsOf
    <3> QED BY <3>1, <3>2
  <2>2. requests' = [requests EXCEPT ![r] = w]
    BY <1>1, <1>3, <1>8, RequestsWrite DEF Stands
  <2>3. appClient' = c
    BY <1>1, <1>8, <2>0, ClientTurns
  <2>4. c.mapped = m.soll /\ m.soll = WantedBy(m.app, groups)
    BY <1>1, <1>8, <2>0 DEF OnTheWay, Stands, Client
  <2>5. OnTheWay(w, app, c, groups)
    BY <1>1, <1>8, <2>4 DEF OnTheWay, Job, Client, Stands
  <2> QED BY <2>1, <2>2, <2>3, <2>5, <1>1, <1>8 DEF Job
<1>9. CASE Stands(r, "bind") /\ UNCHANGED app
           /\ appClient' = Bound(appClient, m.app.all, TRUE)
           /\ IF requests[r].kind = "follow" THEN Done(r) ELSE Moves(r, "save")
  <2> DEFINE c == Bound(appClient, m.app.all, TRUE)
  <2>0. /\ appClient.there /\ (appClient.bound => appClient.checks)
        /\ appClient.mapped = WantedBy(m.app, groups) /\ m.app.all \in BOOLEAN
    BY <1>1, <1>2, <1>9 DEF OnTheWay, Stands, Rows
  <2>1. c \in Clients /\ appClient' = c
    BY <1>1, <1>9, <2>0, FlowTurns
  <2>2. /\ c.there /\ (c.bound <=> ~m.app.all) /\ c.mapped = WantedBy(m.app, groups)
        /\ c.bound => c.checks
        /\ c.told = appClient.told
    BY <1>1, <2>0, FlowTurns
  <2> HIDE DEF c
  <2>3. CASE m.kind = "follow"
    <3>1. NoWork \in Jobs /\ requests' = [requests EXCEPT ![r] = NoWork]
      BY <1>9, <2>3, JobsOf DEF Done
    <3>2. app = m.app /\ app.there
      BY <1>1, <1>9, <2>3 DEF OnTheWay, Stands
    <3>3. Suits(app, c, groups) /\ OnTheWay(NoWork, app, c, groups)
      BY <2>2, <3>2 DEF Suits, OnTheWay, NoWork
    <3> QED BY <3>1, <3>3, <2>1, <1>1, <1>9 DEF NoWork
  <2>4. CASE m.kind # "follow"
    <3> DEFINE w == Job(m.kind, "save", m.app, m.soll, {})
    <3>1. w \in Jobs
      BY <1>2, JobsOf
    <3>2. requests' = [requests EXCEPT ![r] = w]
      BY <1>1, <1>3, <1>9, <2>4, RequestsWrite DEF Stands
    <3>3. OnTheWay(w, app, c, groups)
      BY <1>1, <1>9, <2>2, <2>4 DEF OnTheWay, Job, Stands
    <3> QED BY <3>1, <3>2, <3>3, <2>1, <1>1, <1>9 DEF Job
  <2> QED BY <2>3, <2>4
<1>10. CASE Stands(r, "save") /\ Done(r)
           /\ app' = [requests[r].app EXCEPT !.groups = @ \cap Present]
           /\ appClient' = [appClient EXCEPT !.told = @ \/ requests[r].kind = "create"]
  <2> DEFINE row == [there |-> m.app.there, groups |-> m.app.groups \cap Standing(groups),
                     all |-> m.app.all]
  <2>1. row \in Rows /\ app' = row
    BY <1>2, <1>10 DEF Rows, Present, Standing
  <2>2. NoWork \in Jobs /\ requests' = [requests EXCEPT ![r] = NoWork]
    BY <1>10, JobsOf DEF Done
  <2>3. WantedBy(row, groups) = WantedBy(m.app, groups)
    BY DEF WantedBy
  <2>4. m.app.there /\ appClient.there /\ (appClient.bound <=> ~m.app.all)
        /\ appClient.mapped = WantedBy(m.app, groups) /\ (appClient.bound => appClient.checks)
    BY <1>1, <1>10 DEF OnTheWay, Stands
  <2>5. PICK told \in BOOLEAN : told = (appClient.told \/ m.kind = "create")
    BY <1>1 DEF Clients
  <2>6. PICK c : c = [appClient EXCEPT !.told = told]
    OBVIOUS
  <2>7. /\ c \in Clients /\ c.there = appClient.there /\ c.bound = appClient.bound
        /\ c.checks = appClient.checks /\ c.mapped = appClient.mapped
    <3>1. c = Client(appClient.there, appClient.bound, appClient.checks, told, appClient.mapped)
          /\ c \in Clients
      BY <1>1, <2>6, ClientTurns
    <3> QED BY <3>1 DEF Client
  <2>8. appClient' = c
    BY <1>10, <2>5, <2>6
  <2>9. Suits(row, c, groups) /\ OnTheWay(NoWork, row, c, groups)
    BY <2>3, <2>4, <2>7, NoWorkLeft DEF Suits
  <2>10. NoWork.left = {} /\ row.groups \subseteq Standing(groups)
    BY DEF NoWork
  <2> HIDE DEF row
  <2> QED BY <2>1, <2>2, <2>7, <2>8, <2>9, <2>10
<1>11. CASE Stands(r, "map") /\ Moves(r, "unmap") /\ UNCHANGED app
            /\ \E names \in SUBSET Added(r) :
                  Heard(names = Added(r)) /\ appClient' = Mapped(appClient, names)
  BY <1>7, <1>11, NotSlipping DEF Heard, Added
<1>12. CASE Stands(r, "unmap") /\ Moves(r, "bind") /\ UNCHANGED app
            /\ \E names \in SUBSET TooMany(r) :
                  Heard(names = TooMany(r)) /\ appClient' = Unmapped(appClient, names)
  BY <1>8, <1>12, NotSlipping DEF Heard
<1>13. CASE Stands(r, "bind") /\ UNCHANGED app
            /\ \E heard \in BOOLEAN :
                  Heard(heard) /\ appClient' = Bound(appClient, m.app.all, heard)
            /\ IF requests[r].kind = "follow" THEN Done(r) ELSE Moves(r, "save")
  <2>1. appClient' = Bound(appClient, m.app.all, TRUE)
    BY <1>13, NotSlipping DEF Heard
  <2> QED BY <1>9, <1>13, <2>1
<1> QED BY <1>5, <1>6, <1>10, <1>11, <1>12, <1>13 DEF Access

LEMMA AccessKeeps ==
    ASSUME WebInv, Serial, "silent" \notin Slipping, NEW r \in Requests, Access(r)
    PROVE  WebInv'
<1>1. PICK w \in Jobs, c \in Clients, row \in Rows :
              /\ requests' = [requests EXCEPT ![r] = w] /\ w.left = {}
              /\ appClient' = c /\ app' = row /\ row.groups \subseteq Standing(groups)
              /\ OnTheWay(w, row, c, groups)
              /\ w.pc = "idle" => Suits(row, c, groups)
  BY AccessGoes
<1>2. UNCHANGED <<groups, members, central, slips>> /\ requests[r].pc \notin {"idle", "transfer"}
  BY NotSlipping DEF Access, Stands, Heard
<1>3. requests' \in [Requests -> Jobs] /\ OneRequest' /\ ClientFollows'
      /\ \A u : Waits(u)' <=> u \in {}
  BY <1>1, <1>2, OneMoves
<1>4. WebTypes'
  BY <1>1, <1>2, <1>3, AtHand DEF WebTypes
<1>5. GroupsKept' /\ CentralAgrees'
  BY <1>1, <1>2, <1>3, AtHand, GroupsStay
<1> QED BY <1>3, <1>4, <1>5, TypesAlike DEF WebInv, WebTypeOK, WebTypes, Rows, Clients, Jobs

\* What is left of a step that failed halfway.
LEMMA AccessHalfway ==
    ASSUME WebTypes, NEW r \in Requests, AccessFails(r)
    PROVE  appClient' \in Clients /\ appClient'.told = appClient.told
<1>1. /\ appClient \in Clients /\ requests[r].soll \in SUBSET GroupNames
      /\ requests[r].app.all \in BOOLEAN /\ appClient.mapped \in SUBSET GroupNames
  BY DEF WebTypes, Jobs, Rows, Clients
<1>2. ASSUME NEW names \in SUBSET GroupNames,
             appClient' = Mapped(appClient, names) \/ appClient' = Unmapped(appClient, names)
      PROVE  appClient' \in Clients /\ appClient'.told = appClient.told
  BY <1>1, <1>2, ClientTurns DEF Client
<1>3. CASE UNCHANGED appClient
  BY <1>1, <1>3
<1>4. CASE \E names \in SUBSET Added(r) : appClient' = Mapped(appClient, names)
  BY <1>1, <1>2, <1>4 DEF Added
<1>5. CASE \E names \in SUBSET TooMany(r) : appClient' = Unmapped(appClient, names)
  BY <1>1, <1>2, <1>5 DEF TooMany
<1>6. CASE appClient' = Bound(appClient, requests[r].app.all, TRUE)
  BY <1>1, <1>6, FlowTurns
<1> QED BY <1>3, <1>4, <1>5, <1>6 DEF AccessFails

LEMMA AccessFailsKeeps ==
    ASSUME WebInv, WebAppsAssumption, Serial, Slipping \subseteq {"create", "lost", "undo"},
           NEW r \in Requests, AccessFails(r)
    PROVE  WebInv'
<1> DEFINE m == requests[r]
           w == Job("create", "undo", m.app, m.soll, {})
<1>1. WebTypes /\ m \in Jobs /\ requests \in [Requests -> Jobs]
      /\ OnTheWay(m, app, appClient, groups)
  BY AtHand DEF WebTypes
<1>2. /\ UNCHANGED <<groups, members, app, central>>
      /\ m.pc \in {"read", "map", "unmap", "bind"}
      /\ \/ m.kind = "create" /\ Moves(r, "undo") /\ Slips("create")
         \/ m.kind = "create" /\ Done(r) /\ Slips("lost")
  <2>1. m.kind \in {"create", "edit", "follow"}
    BY <1>1 DEF AccessFails, OnTheWay
  <2>2. "edit" \notin Slipping /\ "follow" \notin Slipping
    OBVIOUS
  <2> QED BY <2>1, <2>2, NotSlipping DEF AccessFails
<1>3. appClient' \in Clients /\ appClient'.told = appClient.told
  BY <1>1, AccessHalfway
<1>4. m.left = {} /\ ~app.there /\ ~appClient'.told
  BY <1>1, <1>2, <1>3 DEF WebInv, OneRequest, OnTheWay
<1>5. PICK v \in Jobs : /\ requests' = [requests EXCEPT ![r] = v] /\ v.left = {}
                        /\ OnTheWay(v, app', appClient', groups')
                        /\ v.pc = "idle" => Suits(app', appClient', groups')
  <2>1. CASE Moves(r, "undo") /\ m.kind = "create"
    <3>1. w \in Jobs
      BY <1>1, JobsOf DEF Jobs
    <3>2. requests' = [requests EXCEPT ![r] = w]
      BY <1>1, <1>4, <2>1, RequestsWrite
    <3>3. OnTheWay(w, app', appClient', groups')
      BY <1>2, <1>4 DEF OnTheWay, Job
    <3>4. w.pc # "idle" /\ w.left = {}
      BY DEF Job
    <3> HIDE DEF w
    <3> QED BY <3>1, <3>2, <3>3, <3>4
  <2>2. CASE Done(r)
    <3>1. NoWork \in Jobs /\ requests' = [requests EXCEPT ![r] = NoWork]
      BY <2>2, JobsOf DEF Done
    <3>2. Suits(app', appClient', groups')
      BY <1>2, <1>4 DEF Suits
    <3>3. NoWork.left = {} /\ OnTheWay(NoWork, app', appClient', groups')
      BY NoWorkLeft
    <3> QED BY <3>1, <3>2, <3>3
  <2> QED BY <1>2, <2>1, <2>2
<1>6. requests' \in [Requests -> Jobs] /\ OneRequest' /\ ClientFollows'
      /\ \A u : Waits(u)' <=> u \in {}
  BY <1>2, <1>5, OneMoves
<1>7. slips' \in 0 .. MaxSlips
  BY <1>1, <1>2, SlipsOrNot
<1>8. WebTypes'
  BY <1>1, <1>2, <1>3, <1>6, <1>7 DEF WebTypes
<1>9. GroupsKept' /\ CentralAgrees'
  BY <1>2, <1>6, <1>8, AtHand, GroupsStay DEF WebInv, GroupsKept, WebTypes
<1> QED BY <1>6, <1>8, <1>9, TypesAlike DEF WebInv, WebTypeOK, WebTypes, Rows, Clients, Jobs

LEMMA AllCarried ==
    ASSUME NEW r \in Requests, NEW left \in SUBSET People, ThenAll(r, left), app' \in Rows
    PROVE  \E w \in Jobs :
              /\ requests' = [requests EXCEPT ![r] = w] /\ w.left = left
              /\ app'.there => w = Job("follow", IF left = {} THEN "read" ELSE "transfer",
                                       app', {}, left)
              /\ ~app'.there => w = Job("none", IF left = {} THEN "idle" ELSE "transfer",
                                        NoApp, {}, left)
<1> DEFINE pcA == IF left = {} THEN "read" ELSE "transfer"
           pcB == IF left = {} THEN "idle" ELSE "transfer"
           a == Job("follow", pcA, app', {}, left)
           b == Job("none", pcB, NoApp, {}, left)
<1>1. a \in Jobs /\ b \in Jobs /\ a.left = left /\ b.left = left
  <2>1. a \in Jobs
    BY JobsOf
  <2>2. b \in Jobs
    BY JobsOf
  <2> QED BY <2>1, <2>2 DEF Job
<1>2. PICK f : f = Job("follow", "idle", app', {}, {})
  OBVIOUS
<1>3. FollowUp = f
  <2>1. PICK f0 : f0 = Job("follow", "idle", NoApp, {}, {})
    OBVIOUS
  <2>2. [NoWork EXCEPT !.kind = "follow"] = f0
    BY <2>1 DEF Job, NoWork
  <2>3. [f0 EXCEPT !.app = app'] = f
    BY <2>1, <1>2 DEF Job
  <2>4. FollowUp = [[NoWork EXCEPT !.kind = "follow"] EXCEPT !.app = app']
    BY DEF FollowUp
  <2> QED BY <2>2, <2>3, <2>4
<1>4. [FollowUp EXCEPT !.pc = pcA, !.left = left] = a
  <2>1. PICK f1 : f1 = Job("follow", pcA, app', {}, {})
    OBVIOUS
  <2>2. [f EXCEPT !.pc = pcA] = f1
    BY <2>1, <1>2 DEF Job
  <2>3. [f1 EXCEPT !.left = left] = a
    BY <2>1 DEF Job
  <2>4. [f EXCEPT !.pc = pcA, !.left = left] = [[f EXCEPT !.pc = pcA] EXCEPT !.left = left]
    OBVIOUS
  <2> HIDE DEF a, pcA
  <2> QED BY <1>3, <2>2, <2>3, <2>4
<1>5. [NoWork EXCEPT !.pc = pcB, !.left = left] = b
  <2>1. PICK b1 : b1 = Job("none", pcB, NoApp, {}, {})
    OBVIOUS
  <2>2. [NoWork EXCEPT !.pc = pcB] = b1
    BY <2>1 DEF Job, NoWork
  <2>3. [b1 EXCEPT !.left = left] = b
    BY <2>1 DEF Job
  <2>4. [NoWork EXCEPT !.pc = pcB, !.left = left] = [[NoWork EXCEPT !.pc = pcB] EXCEPT !.left = left]
    OBVIOUS
  <2> HIDE DEF b, pcB
  <2> QED BY <2>2, <2>3, <2>4
<1>6. requests' = [requests EXCEPT ![r] =
          IF ~app'.there THEN [NoWork EXCEPT !.pc = pcB, !.left = left]
          ELSE [FollowUp EXCEPT !.pc = pcA, !.left = left]]
  BY DEF ThenAll
<1>7. requests' = [requests EXCEPT ![r] = IF ~app'.there THEN b ELSE a]
  <2> HIDE DEF a, b, pcA, pcB
  <2> QED BY <1>4, <1>5, <1>6
<1> HIDE DEF a, b
<1>8. CASE app'.there
  BY <1>1, <1>7, <1>8 DEF a
<1>9. CASE ~app'.there
  BY <1>1, <1>7, <1>9 DEF b
<1> QED BY <1>8, <1>9

\* A change of a group, or a start, is followed for the application, if there is one.
LEMMA AllFollow ==
    ASSUME WebInv, Serial, NEW r \in Requests, Free(r), NEW left \in SUBSET People,
           ThenAll(r, left), app' \in Rows, app'.there = app.there,
           app'.groups \subseteq Standing(groups'), appClient' = appClient
    PROVE  /\ requests' \in [Requests -> Jobs] /\ OneRequest' /\ ClientFollows'
           /\ \A u : Waits(u)' <=> u \in left
<1>1. PICK w \in Jobs :
              /\ requests' = [requests EXCEPT ![r] = w] /\ w.left = left
              /\ app'.there => w = Job("follow", IF left = {} THEN "read" ELSE "transfer",
                                       app', {}, left)
              /\ ~app'.there => w = Job("none", IF left = {} THEN "idle" ELSE "transfer",
                                        NoApp, {}, left)
  BY AllCarried
<1>2. Suits(app, appClient, groups)
  BY AtHand
<1>3. CASE app'.there
  <2>1. OnTheWay(w, app', appClient', groups') /\ w.pc # "idle"
        /\ (w.pc # "transfer" => w.left = {})
    BY <1>1, <1>2, <1>3 DEF Suits, OnTheWay, Job
  <2> QED BY <1>1, <2>1, OneMoves
<1>4. CASE ~app'.there
  <2>1. OnTheWay(w, app', appClient', groups') /\ Suits(app', appClient', groups')
        /\ (w.pc # "transfer" => w.left = {})
    BY <1>1, <1>2, <1>4 DEF Suits, OnTheWay, Job
  <2> QED BY <1>1, <2>1, OneMoves
<1> QED BY <1>3, <1>4

LEMMA DeleteGroupKeeps ==
    ASSUME WebInv, Serial, WebAppsAssumption, NEW r \in Requests, NEW g \in Groups,
           DeleteGroup(r, g)
    PROVE  WebInv'
<1>1. /\ Free(r) /\ groups' = [groups EXCEPT ![g] = "gone"] /\ "gone" \notin GroupNames
      /\ members' = {m \in members : m[2] # g} /\ app' = [app EXCEPT !.groups = @ \ {g}]
      /\ ThenAll(r, {}) /\ appClient' = appClient /\ central' = central /\ slips' = slips
  BY DEF DeleteGroup, WebAppsAssumption
<1>2. WebTypes
  BY AtHand
<1>3. /\ groups' \in [Groups -> GroupNames \cup {"", "gone"}]
      /\ Standing(groups') = Standing(groups) \ {g}
      /\ \A h \in Standing(groups') : groups'[h] = groups[h]
  BY <1>1, <1>2 DEF WebTypes, Standing
<1>4. app' \in Rows /\ app'.there = app.there /\ app'.groups = app.groups \ {g}
  BY <1>1, <1>2 DEF WebTypes, Rows
<1>5. GroupsKept'
  BY <1>1, <1>3, <1>4 DEF WebInv, GroupsKept
<1>6. requests' \in [Requests -> Jobs] /\ OneRequest' /\ ClientFollows' /\ \A u : ~Waits(u)'
  <2>1. PICK left \in SUBSET People : left = {} /\ ThenAll(r, left)
    BY <1>1
  <2>2. app'.groups \subseteq Standing(groups')
    BY <1>5 DEF GroupsKept
  <2> QED BY <1>1, <1>4, <2>1, <2>2, AllFollow
<1>7. \A u : ~Waits(u)
  BY <1>1, AtHand
<1>8. CentralAgrees'
  <2> SUFFICES ASSUME NEW u \in People, NEW h \in Standing(groups')
               PROVE  <<u, groups'[h]>> \in central <=> <<u, h>> \in members'
    BY <1>1 DEF CentralAgrees
  <2>1. h \in Standing(groups) /\ h # g /\ groups'[h] = groups[h]
    BY <1>3
  <2>2. <<u, h>> \in members' <=> <<u, h>> \in members
    BY <1>1, <2>1
  <2> QED BY <1>7, <2>1, <2>2 DEF WebInv, CentralAgrees
<1>9. WebTypes'
  BY <1>1, <1>2, <1>3, <1>4, <1>6 DEF WebTypes
<1> QED BY <1>5, <1>6, <1>8, <1>9, TypesAlike DEF WebInv, WebTypeOK, WebTypes, Rows, Clients, Jobs

LEMMA RestartKeeps ==
    ASSUME WebInv, Serial, NEW r \in Requests, Restart(r)
    PROVE  WebInv'
<1>1. Free(r) /\ ThenAll(r, {}) /\ UNCHANGED <<groups, members, app, appClient, central, slips>>
  BY DEF Restart
<1>2. WebTypes /\ app.groups \subseteq Standing(groups)
  BY AtHand DEF WebInv, GroupsKept
<1>3. requests' \in [Requests -> Jobs] /\ OneRequest' /\ ClientFollows'
      /\ \A u : Waits(u)' <=> u \in {}
  <2>1. PICK left \in SUBSET People : left = {} /\ ThenAll(r, left)
    BY <1>1
  <2> QED BY <1>1, <1>2, <2>1, AllFollow DEF WebTypes
<1>4. WebTypes'
  BY <1>1, <1>2, <1>3 DEF WebTypes
<1>5. GroupsKept' /\ CentralAgrees'
  BY <1>1, <1>2, <1>3, <1>4, AtHand, GroupsStay DEF WebTypes
<1> QED BY <1>3, <1>4, <1>5, TypesAlike DEF WebInv, WebTypeOK, WebTypes, Rows, Clients, Jobs

\* A new name is nobody's: neither a group nor Keycloak knows it.
LEMMA NameGiven ==
    ASSUME WebTypes, FreshNames, NEW g \in Groups, NEW n \in GroupNames, NewName(n),
           groups' = [groups EXCEPT ![g] = n]
    PROVE  /\ groups' \in [Groups -> GroupNames \cup {"", "gone"}] /\ groups'[g] = n
           /\ Standing(groups') = Standing(groups) \cup {g}
           /\ \A h \in Groups : h # g => groups'[h] = groups[h]
           /\ \A h \in Groups : groups[h] # n
           /\ \A u \in People : <<u, n>> \notin central
BY DEF WebTypes, Standing, NewName, NameKnown

LEMMA CreateGroupKeeps ==
    ASSUME WebInv, Serial, FreshNames, WebAppsAssumption, NEW g \in Groups,
           NEW n \in GroupNames, CreateGroup(g, n)
    PROVE  WebInv'
<1>1. /\ groups[g] = "" /\ "" \notin GroupNames /\ NewName(n)
      /\ groups' = [groups EXCEPT ![g] = n]
      /\ UNCHANGED <<members, app, appClient, central, requests, slips>>
  BY DEF CreateGroup, WebAppsAssumption
<1>2. \A r \in Requests : requests[r].pc = "idle"
  BY DEF CreateGroup, Stands
<1>3. WebTypes
  BY TypesAlike DEF WebInv
<1>4. /\ groups' \in [Groups -> GroupNames \cup {"", "gone"}] /\ groups'[g] = n
      /\ Standing(groups') = Standing(groups) \cup {g}
      /\ \A h \in Groups : h # g => groups'[h] = groups[h]
      /\ \A h \in Groups : groups[h] # n
      /\ \A u \in People : <<u, n>> \notin central
  BY <1>1, <1>3, NameGiven
<1>5. g \notin Standing(groups) /\ Standing(groups) \subseteq Groups
  BY <1>1 DEF Standing
<1>6. GroupsKept'
  BY <1>1, <1>4, <1>5 DEF WebInv, GroupsKept
<1>7. OneRequest' /\ \A u : Waits(u)' <=> Waits(u)
  BY <1>1 DEF WebInv, OneRequest, Waits
<1>8. CentralAgrees'
  <2> SUFFICES ASSUME NEW u \in People, NEW h \in Standing(groups'), ~Waits(u)
               PROVE  <<u, groups'[h]>> \in central <=> <<u, h>> \in members
    BY <1>1, <1>7 DEF CentralAgrees
  <2>1. CASE h = g
    BY <2>1, <1>4, <1>5 DEF WebInv, GroupsKept
  <2>2. CASE h # g
    <3>1. h \in Standing(groups) /\ groups'[h] = groups[h]
      BY <2>2, <1>4, <1>5
    <3> QED BY <3>1 DEF WebInv, CentralAgrees
  <2> QED BY <2>1, <2>2
<1>9. ClientFollows'
  <2>1. WantedBy(app, groups') = WantedBy(app, groups)
    <3>1. app.groups \cap Standing(groups') = app.groups \cap Standing(groups)
      BY <1>4, <1>5 DEF WebInv, GroupsKept
    <3>2. \A h \in app.groups \cap Standing(groups) : groups'[h] = groups[h]
      BY <1>4, <1>5
    <3> QED BY <3>1, <3>2 DEF WantedBy
  <2>2. Quiet /\ Suits(app, appClient, groups)
    BY <1>2 DEF WebInv, ClientFollows, Quiet
  <2>3. Suits(app', appClient', groups')
    BY <2>1, <2>2, <1>1 DEF Suits
  <2>4. \A r \in Requests : OnTheWay(requests[r], app, appClient, groups')
    BY <1>2 DEF OnTheWay
  <2> QED BY <2>3, <2>4, <1>1 DEF ClientFollows
<1>10. WebTypes'
  BY <1>1, <1>3, <1>4 DEF WebTypes
<1> QED BY <1>6, <1>7, <1>8, <1>9, <1>10, TypesAlike
        DEF WebInv, WebTypeOK, WebTypes, Rows, Clients, Jobs

LEMMA RenameKeeps ==
    ASSUME WebInv, Serial, FreshNames, NEW r \in Requests, NEW g \in Groups,
           NEW n \in GroupNames, Rename(r, g, n)
    PROVE  WebInv'
<1>1. /\ Free(r) /\ g \in Standing(groups) /\ NewName(n) /\ groups' = [groups EXCEPT ![g] = n]
      /\ UNCHANGED <<members, app, appClient, central, slips>> /\ ThenAll(r, Moving(g))
  BY DEF Rename, Present, Standing
<1>2. WebTypes /\ \A u : ~Waits(u)
  BY <1>1, AtHand
<1>3. /\ groups' \in [Groups -> GroupNames \cup {"", "gone"}] /\ groups'[g] = n
      /\ Standing(groups') = Standing(groups) \cup {g}
      /\ \A h \in Groups : h # g => groups'[h] = groups[h]
      /\ \A h \in Groups : groups[h] # n
      /\ \A u \in People : <<u, n>> \notin central
  BY <1>1, <1>2, NameGiven
<1>4. Standing(groups') = Standing(groups) /\ Standing(groups) \subseteq Groups
  BY <1>1, <1>3 DEF Standing
<1>5. GroupsKept'
  BY <1>1, <1>3, <1>4 DEF WebInv, GroupsKept
<1>6. requests' \in [Requests -> Jobs] /\ OneRequest' /\ ClientFollows'
      /\ \A u : Waits(u)' <=> u \in Moving(g)
  <2>1. Moving(g) \in SUBSET People /\ app' \in Rows /\ app'.there = app.there
    BY <1>1, <1>2 DEF Moving, WebTypes
  <2> QED BY <1>1, <1>5, <2>1, AllFollow DEF GroupsKept
<1>7. CentralAgrees'
  <2> SUFFICES ASSUME NEW u \in People, NEW h \in Standing(groups'), u \notin Moving(g)
               PROVE  <<u, groups'[h]>> \in central <=> <<u, h>> \in members
    BY <1>1, <1>6 DEF CentralAgrees
  <2>1. CASE h = g
    BY <2>1, <1>3 DEF Moving
  <2>2. CASE h # g
    <3>1. h \in Standing(groups) /\ groups'[h] = groups[h]
      BY <2>2, <1>3, <1>4
    <3> QED BY <3>1, <1>2 DEF WebInv, CentralAgrees
  <2> QED BY <2>1, <2>2
<1>8. WebTypes'
  BY <1>1, <1>2, <1>3, <1>6 DEF WebTypes
<1> QED BY <1>5, <1>6, <1>7, <1>8, TypesAlike DEF WebInv, WebTypeOK, WebTypes, Rows, Clients, Jobs

\* What nach_keycloak leaves behind: of one account everything, of the others nothing changed.
LEMMA CarriesOne ==
    ASSUME WebTypes, NEW u \in People, NEW m \in SUBSET (People \X Standing(groups)),
           \A g, h \in Standing(groups) : groups[g] = groups[h] => g = h
    PROVE  /\ Carries(u, m) \in SUBSET (People \X GroupNames)
           /\ \A v \in People, g \in Standing(groups) :
                 /\ v # u => (<<v, groups[g]>> \in Carries(u, m) <=> <<v, groups[g]>> \in central)
                 /\ <<u, groups[g]>> \in Carries(u, m) <=> <<u, g>> \in m
<1>1. GroupsOf(u, m) = {g \in Standing(groups) : <<u, g>> \in m}
  BY DEF GroupsOf, Present, Standing
<1>2. Carries(u, m) \in SUBSET (People \X GroupNames)
  <2>1. {c \in central : c[1] # u} \subseteq People \X GroupNames
    BY DEF WebTypes
  <2>2. \A g \in Standing(groups) : <<u, groups[g]>> \in People \X GroupNames
    BY DEF Standing
  <2>3. {<<u, groups[g]>> : g \in GroupsOf(u, m)} \subseteq People \X GroupNames
    BY <1>1, <2>2
  <2> QED BY <2>1, <2>3 DEF Carries
<1>3. ASSUME NEW v \in People, NEW g \in Standing(groups), v # u
      PROVE  <<v, groups[g]>> \in Carries(u, m) <=> <<v, groups[g]>> \in central
  BY <1>3 DEF Carries
<1>4. ASSUME NEW g \in Standing(groups)
      PROVE  <<u, groups[g]>> \in Carries(u, m) <=> <<u, g>> \in m
  BY <1>1 DEF Carries
<1> QED BY <1>2, <1>3, <1>4

LEMMA TransferKeeps ==
    ASSUME WebInv, Serial, "transfer" \notin Slipping, NEW r \in Requests, NEW u \in People,
           Transfer(r, u)
    PROVE  WebInv'
<1> DEFINE m == requests[r]
           left == m.left \ {u}
           next == IF left # {} THEN Job(m.kind, m.pc, m.app, m.soll, left)
                   ELSE IF m.kind = "follow" THEN Job(m.kind, "read", m.app, m.soll, {})
                   ELSE NoWork
<1>1. /\ m.pc = "transfer" /\ u \in m.left /\ central' = Carries(u, members)
      /\ UNCHANGED <<groups, members, app, appClient, slips>>
  BY NotSlipping DEF Transfer, Stands
<1>2. WebTypes /\ m \in Jobs /\ OnTheWay(m, app, appClient, groups)
  BY AtHand
<1>3. m = Job(m.kind, m.pc, m.app, m.soll, m.left)
      /\ m.kind \in {"none", "create", "edit", "delete", "follow"}
      /\ m.app \in Rows /\ m.soll \in SUBSET GroupNames /\ m.left \in SUBSET People
  BY <1>2 DEF Job, Jobs
<1>4. next \in Jobs /\ next.left = left
  <2>1. Job(m.kind, m.pc, m.app, m.soll, left) \in Jobs
        /\ Job(m.kind, "read", m.app, m.soll, {}) \in Jobs /\ NoWork \in Jobs
    BY <1>1, <1>3, JobsOf
  <2> QED BY <2>1 DEF Job, NoWork
<1>5. requests' = [requests EXCEPT ![r] = next]
  <2>1. requests' = [requests EXCEPT ![r] =
             IF left # {} THEN [m EXCEPT !.left = left]
             ELSE IF m.kind = "follow" THEN [m EXCEPT !.pc = "read", !.left = {}] ELSE NoWork]
    BY DEF Transfer
  <2>2. [m EXCEPT !.left = left] = Job(m.kind, m.pc, m.app, m.soll, left)
    BY <1>2 DEF Job, Jobs
  <2>3. [m EXCEPT !.pc = "read", !.left = {}] = Job(m.kind, "read", m.app, m.soll, {})
    <3>1. PICK m1 : m1 = Job(m.kind, "read", m.app, m.soll, m.left)
      OBVIOUS
    <3>2. [m EXCEPT !.pc = "read"] = m1
      BY <1>2, <3>1 DEF Job, Jobs
    <3>3. [m1 EXCEPT !.left = {}] = Job(m.kind, "read", m.app, m.soll, {})
      BY <3>1 DEF Job
    <3>4. [m EXCEPT !.pc = "read", !.left = {}] = [[m EXCEPT !.pc = "read"] EXCEPT !.left = {}]
      OBVIOUS
    <3> HIDE DEF m
    <3> QED BY <3>2, <3>3, <3>4
  <2> HIDE DEF m, left
  <2> QED BY <2>1, <2>2, <2>3
<1>6. OnTheWay(next, app', appClient', groups')
  <2>1. m.kind \in {"follow", "none"}
        /\ (m.kind = "follow" => app = m.app /\ app.there /\ appClient.there
                                 /\ (appClient.bound => appClient.checks))
        /\ (m.kind = "none" => ~app.there /\ (~appClient.there \/ ~appClient.told))
    BY <1>1, <1>2 DEF OnTheWay
  <2>2. app.groups \subseteq Standing(groups)
    BY DEF WebInv, GroupsKept
  <2>3. CASE left # {}
    BY <1>1, <2>1, <2>3 DEF OnTheWay, Job
  <2>4. CASE left = {} /\ m.kind = "follow"
    BY <1>1, <2>1, <2>2, <2>4 DEF OnTheWay, Job
  <2>5. CASE left = {} /\ m.kind = "none"
    BY <2>5 DEF OnTheWay, NoWork
  <2> QED BY <2>1, <2>3, <2>4, <2>5
<1>7. next.pc = "idle" => Suits(app', appClient', groups')
  <2>1. next.pc = "idle" => m.kind # "follow"
    BY <1>1 DEF Job
  <2> QED BY <1>1, <1>2, <2>1 DEF OnTheWay, Suits
<1>8. next.pc # "transfer" => next.left = {}
  BY <1>1 DEF Job, NoWork
<1>9. requests' \in [Requests -> Jobs] /\ OneRequest' /\ ClientFollows'
      /\ \A v : Waits(v)' <=> v \in left
  <2> HIDE DEF next
  <2>1. PICK w \in Jobs : w = next
    BY <1>4
  <2> QED BY <1>1, <1>4, <1>5, <1>6, <1>7, <1>8, <2>1, OneMoves
<1>10. GroupsKept'
  BY <1>1 DEF WebInv, GroupsKept, Standing
<1>11. /\ Carries(u, members) \in SUBSET (People \X GroupNames)
       /\ \A v \in People, g \in Standing(groups) :
             /\ v # u => (<<v, groups[g]>> \in Carries(u, members) <=> <<v, groups[g]>> \in central)
             /\ <<u, groups[g]>> \in Carries(u, members) <=> <<u, g>> \in members
  BY <1>2, CarriesOne DEF WebInv, GroupsKept
<1>12. CentralAgrees'
  <2> SUFFICES ASSUME NEW v \in People, NEW g \in Standing(groups), v \notin left
               PROVE  <<v, groups[g]>> \in central' <=> <<v, g>> \in members
    BY <1>1, <1>9 DEF CentralAgrees
  <2>1. CASE v = u
    BY <2>1, <1>1, <1>11
  <2>2. CASE v # u
    <3>1. ~Waits(v)
      BY <2>2, <1>1, AtHand DEF Free
    <3> QED BY <2>2, <3>1, <1>1, <1>11 DEF WebInv, CentralAgrees
  <2> QED BY <2>1, <2>2
<1>13. WebTypes'
  BY <1>1, <1>2, <1>9, <1>11 DEF WebTypes
<1> QED BY <1>9, <1>10, <1>12, <1>13, TypesAlike
        DEF WebInv, WebTypeOK, WebTypes, Rows, Clients, Jobs

LEMMA MemberKeeps ==
    ASSUME WebInv, Serial, "transfer" \notin Slipping, NEW u \in People,
           NEW G \in SUBSET Groups, Member(u, G)
    PROVE  WebInv'
<1>1. /\ G \subseteq Standing(groups)
      /\ members' = {m \in members : m[1] # u} \cup ({u} \X G)
      /\ central' = Carries(u, members')
      /\ UNCHANGED <<groups, app, appClient, requests, slips>>
  BY NotSlipping DEF Member, Present, Standing
<1>2. WebTypes
  BY TypesAlike DEF WebInv
<1>3. members' \in SUBSET (People \X Standing(groups)) /\ Standing(groups) \subseteq Groups
  BY <1>1 DEF WebInv, GroupsKept, Standing
<1>4. GroupsKept'
  BY <1>1, <1>3 DEF WebInv, GroupsKept
<1>5. /\ central' \in SUBSET (People \X GroupNames)
      /\ \A v \in People, g \in Standing(groups) :
            /\ v # u => (<<v, groups[g]>> \in central' <=> <<v, groups[g]>> \in central)
            /\ <<u, groups[g]>> \in central' <=> <<u, g>> \in members'
  <2>1. PICK m \in SUBSET (People \X Standing(groups)) : m = members'
    BY <1>3
  <2> QED BY <1>1, <1>2, <2>1, CarriesOne DEF WebInv, GroupsKept
<1>6. CentralAgrees'
  <2> SUFFICES ASSUME NEW v \in People, NEW g \in Standing(groups), ~Waits(v)
               PROVE  <<v, groups[g]>> \in central' <=> <<v, g>> \in members'
    BY <1>1 DEF CentralAgrees, Waits
  <2>1. CASE v = u
    BY <2>1, <1>5
  <2>2. CASE v # u
    <3>1. <<v, g>> \in members' <=> <<v, g>> \in members
      BY <2>2, <1>1
    <3> QED BY <2>2, <3>1, <1>5 DEF WebInv, CentralAgrees
  <2> QED BY <2>1, <2>2
<1>7. OneRequest' /\ ClientFollows'
  BY <1>1 DEF WebInv, OneRequest, ClientFollows, Quiet
<1>8. WebTypes'
  BY <1>1, <1>2, <1>3, <1>5 DEF WebTypes
<1> QED BY <1>4, <1>6, <1>7, <1>8, TypesAlike
        DEF WebInv, WebTypeOK, WebTypes, Rows, Clients, Jobs

-----------------------------------------------------------------------------
LEMMA WebInit_Inv == WebAppsAssumption /\ WebInit => WebInv
<1> SUFFICES ASSUME WebAppsAssumption, WebInit PROVE WebInv
  OBVIOUS
<1>1. Standing(groups) = {} /\ \A g \in Groups : groups[g] = ""
  BY DEF WebInit, WebAppsAssumption, Standing
<1>2. \A r \in Requests : requests[r].pc = "idle" /\ requests[r].left = {}
  BY DEF WebInit, NoWork
<1>3. WebTypes
  <2>1. slips \in 0 .. MaxSlips
    <3>1. slips = 0 /\ MaxSlips \in Nat
      BY DEF WebInit, WebAppsAssumption
    <3> QED BY <3>1
  <2> QED BY <2>1, JobsOf DEF WebInit, WebTypes
<1>4. OneRequest /\ GroupsKept /\ CentralAgrees
  BY <1>1, <1>2 DEF WebInit, NoApp, OneRequest, GroupsKept, CentralAgrees
<1>5. ClientFollows
  <2>1. Suits(app, appClient, groups)
    BY DEF WebInit, NoApp, NoClient, Suits
  <2>2. \A r \in Requests : OnTheWay(requests[r], app, appClient, groups)
    BY <1>2 DEF OnTheWay
  <2> QED BY <2>1, <2>2 DEF ClientFollows
<1> QED BY <1>3, <1>4, <1>5, TypesAlike DEF WebInv

LEMMA WebStep_Inv ==
    ASSUME WebAppsAssumption, Serial, FreshNames, Slipping \subseteq {"create", "lost", "undo"},
           WebInv, [WebNext]_webVars
    PROVE  WebInv'
<1>0. \A kind \in {"edit", "delete", "transfer", "silent"} : kind \notin Slipping
  OBVIOUS
<1>1. ASSUME NEW r \in Requests, NEW G \in SUBSET Present, NEW all \in BOOLEAN,
             Create(r, G, all) \/ \E moved \in BOOLEAN : Edit(r, G, all, moved)
      PROVE  WebInv'
  BY <1>0, <1>1, CreateKeeps, EditKeeps
<1>2. ASSUME NEW r \in Requests,
             Remove(r) \/ RemoveClient(r) \/ Access(r) \/ AccessFails(r) \/ Undo(r) \/ Restart(r)
      PROVE  WebInv'
  BY <1>0, <1>2, RemoveKeeps, EndsBare, AccessKeeps, AccessFailsKeeps, RestartKeeps
<1>3. ASSUME NEW r \in Requests, NEW g \in Groups,
             DeleteGroup(r, g) \/ \E n \in GroupNames : Rename(r, g, n)
      PROVE  WebInv'
  BY <1>3, DeleteGroupKeeps, RenameKeeps
<1>4. ASSUME NEW r \in Requests, NEW u \in People, Transfer(r, u) PROVE WebInv'
  BY <1>0, <1>4, TransferKeeps
<1>5. ASSUME NEW g \in Groups, NEW n \in GroupNames, CreateGroup(g, n) PROVE WebInv'
  BY <1>5, CreateGroupKeeps
<1>6. ASSUME NEW u \in People, NEW G \in SUBSET Groups, Member(u, G) PROVE WebInv'
  BY <1>0, <1>6, MemberKeeps
<1>7. CASE UNCHANGED webVars
  BY <1>7 DEF webVars, WebInv, WebTypeOK, OneRequest, GroupsKept, CentralAgrees, ClientFollows,
              Waits, Quiet
<1>8. CASE NewSecret
  BY <1>8, NewSecretKeeps
<1> QED BY <1>1, <1>2, <1>3, <1>4, <1>5, <1>6, <1>7, <1>8 DEF WebNext

LEMMA WebInv_Lets == WebInv => LetsInMembers
<1> SUFFICES ASSUME WebInv, Quiet
             PROVE  IF app.there THEN LetIn = MayEnter ELSE ~appClient.there \/ ~appClient.told
  BY DEF LetsInMembers
<1>1. Suits(app, appClient, groups) /\ \A u : ~Waits(u)
  BY DEF WebInv, ClientFollows, Quiet, OneRequest, Waits
<1>2. app.groups \subseteq Standing(groups)
  BY DEF WebInv, GroupsKept
<1>3. CASE ~app.there \/ (app.there /\ app.all)
  BY <1>1, <1>3 DEF LetIn, MayEnter, Suits
<1>4. CASE app.there /\ ~app.all
  <2>1. /\ appClient.there /\ appClient.bound /\ appClient.checks
        /\ appClient.mapped = {groups[g] : g \in app.groups}
    <3>1. app.groups \cap Standing(groups) = app.groups
      BY <1>2
    <3> QED BY <1>1, <1>4, <3>1 DEF Suits, WantedBy
  <2>2. \A u \in People, g \in app.groups :
            <<u, groups[g]>> \in central <=> <<u, g>> \in members
    BY <1>1, <1>2 DEF WebInv, CentralAgrees
  <2> QED BY <1>4, <2>1, <2>2 DEF LetIn, MayEnter
<1> QED BY <1>3, <1>4

\* Whatever a request does to itself, and whatever else a step leaves, the types are kept.
LEMMA JobMoves ==
    ASSUME WebTypes, NEW r \in Requests, NEW w \in Jobs, requests' = [requests EXCEPT ![r] = w],
           app' \in Rows, appClient' \in Clients, central' \in SUBSET (People \X GroupNames),
           members' \in SUBSET (People \X Groups), groups' \in [Groups -> GroupNames \cup {"", "gone"}],
           slips' \in 0 .. MaxSlips
    PROVE  WebTypes'
<1>1. requests' \in [Requests -> Jobs]
  BY DEF WebTypes
<1> QED BY <1>1 DEF WebTypes

LEMMA HereNow ==
    ASSUME WebTypes, NEW r \in Requests
    PROVE  /\ requests[r] \in Jobs /\ requests \in [Requests -> Jobs] /\ app \in Rows
           /\ appClient \in Clients /\ NoWork \in Jobs /\ NoClient \in Clients /\ NoApp \in Rows
           /\ central \in SUBSET (People \X GroupNames) /\ members \in SUBSET (People \X Groups)
           /\ groups \in [Groups -> GroupNames \cup {"", "gone"}] /\ slips \in 0 .. MaxSlips
           /\ requests[r].app \in Rows /\ requests[r].soll \in SUBSET GroupNames
           /\ requests[r].left \in SUBSET People
           /\ requests[r].kind \in {"none", "create", "edit", "delete", "follow"}
BY JobsOf DEF WebTypes, Jobs

LEMMA PcMoves ==
    ASSUME WebTypes, NEW r \in Requests,
           NEW pc \in {"idle", "client", "read", "map", "unmap", "bind", "save", "undo", "transfer"},
           Moves(r, pc)
    PROVE  \E w \in Jobs : requests' = [requests EXCEPT ![r] = w]
<1> DEFINE w == Job(requests[r].kind, pc, requests[r].app, requests[r].soll, requests[r].left)
<1>1. /\ requests[r].app \in Rows /\ requests[r].soll \in SUBSET GroupNames
      /\ requests[r].left \in SUBSET People
      /\ requests[r].kind \in {"none", "create", "edit", "delete", "follow"}
  BY HereNow
<1>2. w \in Jobs
  BY <1>1, JobsOf
<1>3. requests' = [requests EXCEPT ![r] = w]
  BY HereNow, RequestsWrite
<1> QED BY <1>2, <1>3

LEMMA DoneMoves ==
    ASSUME WebTypes, NEW r \in Requests, Done(r)
    PROVE  \E w \in Jobs : requests' = [requests EXCEPT ![r] = w]
BY HereNow DEF Done

LEMMA AppTyped ==
    ASSUME WebAppsAssumption, WebTypes, NEW r \in Requests,
           \/ \E G \in SUBSET Present, all \in BOOLEAN :
                 \/ Create(r, G, all)
                 \/ \E moved \in BOOLEAN : Edit(r, G, all, moved)
           \/ Remove(r) \/ RemoveClient(r) \/ AccessFails(r) \/ Undo(r)
    PROVE  WebTypes'
<1>0. NewClient \in Clients /\ NoClient \in Clients /\ appClient \in Clients
  BY HereNow, ClientTurns
<1>1. ASSUME NEW G \in SUBSET Present, NEW all \in BOOLEAN, NEW kind \in {"create", "edit"},
             requests' = [requests EXCEPT ![r] = [NoWork EXCEPT !.kind = kind, !.pc = "read",
                    !.app = [there |-> TRUE, groups |-> G, all |-> all]]],
             appClient' \in Clients, UNCHANGED <<groups, members, app, central, slips>>
      PROVE  WebTypes'
  <2> DEFINE row == [there |-> TRUE, groups |-> G, all |-> all]
  <2>1. row \in Rows
    BY DEF Rows, Present
  <2> HIDE DEF row
  <2>2. Job(kind, "read", row, {}, {}) \in Jobs
    BY <2>1, JobsOf
  <2>3. [NoWork EXCEPT !.kind = kind, !.pc = "read", !.app = row] = Job(kind, "read", row, {}, {})
    BY NewJob
  <2>4. requests' = [requests EXCEPT ![r] = [NoWork EXCEPT !.kind = kind, !.pc = "read", !.app = row]]
    BY <1>1 DEF row
  <2>5. requests' = [requests EXCEPT ![r] = Job(kind, "read", row, {}, {})]
    BY <2>3, <2>4
  <2> QED BY <1>1, <2>2, <2>5, HereNow, JobMoves
<1>2. ASSUME NEW G \in SUBSET Present, NEW all \in BOOLEAN, Create(r, G, all) PROVE WebTypes'
  <2>1. CASE Slips("lost") /\ UNCHANGED requests
    BY <1>0, <1>2, <2>1, SlipsOrNot DEF Create, WebTypes
  <2>2. CASE UNCHANGED slips
    BY <1>0, <1>1, <1>2, <2>2 DEF Create, Slips, WebTypes
  <2> QED BY <1>2, <2>1, <2>2 DEF Create
<1>3. ASSUME NEW G \in SUBSET Present, NEW all \in BOOLEAN, NEW moved \in BOOLEAN, Edit(r, G, all, moved)
      PROVE  WebTypes'
  <2>1. appClient' \in Clients
    BY <1>0, <1>3 DEF Edit
  <2>2. CASE Slips("edit") /\ UNCHANGED requests
    BY <1>3, <2>1, <2>2, SlipsOrNot DEF Edit, WebTypes
  <2>3. CASE UNCHANGED slips
    BY <1>1, <1>3, <2>1, <2>3 DEF Edit, Slips, WebTypes
  <2> QED BY <1>3, <2>2, <2>3 DEF Edit
<1>4. CASE Remove(r)
  <2>1. Job("delete", "client", NoApp, {}, {}) \in Jobs
    BY JobsOf
  <2>2. requests' = [requests EXCEPT ![r] = Job("delete", "client", NoApp, {}, {})]
    BY <1>4, NewJob DEF Remove
  <2>3. appClient' \in Clients
    BY <1>0, <1>4, ClientTurns DEF Remove
  <2> QED BY <1>4, <2>1, <2>2, <2>3, HereNow, JobMoves DEF Remove
<1>5. CASE RemoveClient(r)
  <2>1. PICK w \in Jobs : requests' = [requests EXCEPT ![r] = w]
    BY <1>5, DoneMoves DEF RemoveClient
  <2>2. slips' \in 0 .. MaxSlips
    BY <1>5, SlipsOrNot DEF RemoveClient
  <2>3. appClient' \in Clients /\ app' \in Rows
    BY <1>5, HereNow DEF RemoveClient
  <2> QED BY <1>5, <2>1, <2>2, <2>3, HereNow, JobMoves DEF RemoveClient
<1>6. CASE AccessFails(r)
  <2>1. PICK w \in Jobs : requests' = [requests EXCEPT ![r] = w]
    <3>1. Moves(r, "undo") \/ Done(r)
      BY <1>6 DEF AccessFails
    <3> QED BY <3>1, PcMoves, DoneMoves
  <2>2. slips' \in 0 .. MaxSlips
    BY <1>6, SlipsOrNot DEF AccessFails
  <2>3. appClient' \in Clients
    BY <1>6, AccessHalfway
  <2> QED BY <1>6, <2>1, <2>2, <2>3, HereNow, JobMoves DEF AccessFails
<1>7. CASE Undo(r)
  <2>1. PICK w \in Jobs : requests' = [requests EXCEPT ![r] = w]
    BY <1>7, DoneMoves DEF Undo
  <2>2. slips' \in 0 .. MaxSlips
    BY <1>7, SlipsOrNot DEF Undo
  <2>3. appClient' \in Clients
    BY <1>7, HereNow DEF Undo
  <2> QED BY <1>7, <2>1, <2>2, <2>3, HereNow, JobMoves DEF Undo
<1> QED BY <1>2, <1>3, <1>4, <1>5, <1>6, <1>7

LEMMA AccessTyped ==
    ASSUME WebAppsAssumption, WebTypes, NEW r \in Requests, Access(r)
    PROVE  WebTypes'
<1>0. UNCHANGED <<groups, members, central>> /\ (UNCHANGED slips \/ Slips("silent"))
  BY DEF Access, Heard
<1>1. slips' \in 0 .. MaxSlips
  BY <1>0, SlipsOrNot
<1>2. /\ appClient \in Clients /\ requests[r].soll \in SUBSET GroupNames
      /\ requests[r].app \in Rows /\ requests[r].app.all \in BOOLEAN
      /\ appClient.mapped \in SUBSET GroupNames /\ appClient.told \in BOOLEAN
  BY HereNow DEF Rows, Clients
<1>3. (\E w \in Jobs : requests' = [requests EXCEPT ![r] = w]) /\ app' \in Rows /\ appClient' \in Clients
  <2>1. CASE requests' = [requests EXCEPT ![r].pc = "map", ![r].soll = Wanted(r)] /\ UNCHANGED <<app, appClient>>
    <3>1. Wanted(r) \in SUBSET GroupNames
      BY HereNow, WantedAlike
    <3> DEFINE w == [requests[r] EXCEPT !.pc = "map", !.soll = Wanted(r)]
    <3>2. w \in Jobs
      <4>1. \A j \in Jobs, s \in SUBSET GroupNames : [j EXCEPT !.pc = "map", !.soll = s] \in Jobs
        BY DEF Jobs
      <4> QED BY <3>1, <4>1, HereNow
    <3>3. requests' = [requests EXCEPT ![r] = w]
      <4>1. requests' = [[requests EXCEPT ![r].pc = "map"] EXCEPT ![r].soll = Wanted(r)]
        BY <2>1
      <4> HIDE DEF w
      <4>2. requests \in [Requests -> Jobs]
        BY HereNow
      <4> QED BY <4>1, <4>2 DEF w
    <3> QED BY <2>1, <3>2, <3>3, HereNow
  <2>2. CASE Done(r) /\ UNCHANGED <<app, appClient>>
    BY <2>2, DoneMoves, HereNow
  <2>3. CASE Moves(r, "unmap") /\ UNCHANGED app
             /\ \E names \in SUBSET Added(r) : appClient' = Mapped(appClient, names)
    <3>1. PICK names \in SUBSET GroupNames : appClient' = Mapped(appClient, names)
      BY <1>2, <2>3 DEF Added
    <3>2. appClient' \in Clients
      BY <1>2, <3>1, ClientTurns
    <3> QED BY <2>3, <3>2, PcMoves, HereNow
  <2>4. CASE Moves(r, "bind") /\ UNCHANGED app
             /\ \E names \in SUBSET TooMany(r) : appClient' = Unmapped(appClient, names)
    <3>1. PICK names \in SUBSET GroupNames : appClient' = Unmapped(appClient, names)
      BY <1>2, <2>4 DEF TooMany
    <3>2. appClient' \in Clients
      BY <1>2, <3>1, ClientTurns
    <3> QED BY <2>4, <3>2, PcMoves, HereNow
  <2>5. CASE /\ \E heard \in BOOLEAN : appClient' = Bound(appClient, requests[r].app.all, heard)
             /\ Done(r) \/ Moves(r, "save")
             /\ UNCHANGED app
    <3>1. appClient' \in Clients
      BY <1>2, <2>5, FlowTurns
    <3> QED BY <2>5, <3>1, PcMoves, DoneMoves, HereNow
  <2>6. CASE Done(r) /\ app' = [requests[r].app EXCEPT !.groups = @ \cap Present]
             /\ appClient' = [appClient EXCEPT !.told = @ \/ requests[r].kind = "create"]
    <3>1. app' \in Rows
      BY <1>2, <2>6 DEF Rows
    <3>2. (appClient.told \/ requests[r].kind = "create") \in BOOLEAN
      BY <1>2
    <3>3. appClient' \in Clients
      BY <1>2, <2>6, <3>2, ClientTurns
    <3> QED BY <2>6, <3>1, <3>3, DoneMoves
  <2> QED BY <2>1, <2>2, <2>3, <2>4, <2>5, <2>6 DEF Access
<1>4. PICK w \in Jobs : requests' = [requests EXCEPT ![r] = w]
  BY <1>3
<1> QED BY <1>0, <1>1, <1>3, <1>4, HereNow, JobMoves

LEMMA CarriesTyped ==
    ASSUME WebTypes, NEW u \in People, NEW m PROVE Carries(u, m) \in SUBSET (People \X GroupNames)
<1>1. {c \in central : c[1] # u} \subseteq People \X GroupNames
  BY DEF WebTypes
<1>2. \A g \in GroupsOf(u, m) : <<u, groups[g]>> \in People \X GroupNames
  BY DEF GroupsOf, Present
<1> QED BY <1>1, <1>2 DEF Carries

LEMMA GroupTyped ==
    ASSUME WebAppsAssumption, WebTypes, NEW r \in Requests,
           \/ \E g \in Groups : DeleteGroup(r, g)
           \/ \E g \in Groups, n \in GroupNames : Rename(r, g, n)
           \/ \E u \in People : Transfer(r, u)
           \/ Restart(r)
    PROVE  WebTypes'
<1>1. ASSUME NEW g \in Groups, DeleteGroup(r, g) PROVE WebTypes'
  <2>1. app' \in Rows
    BY <1>1, HereNow DEF DeleteGroup, Rows
  <2>2. PICK left \in SUBSET People : left = {} /\ ThenAll(r, left)
    BY <1>1 DEF DeleteGroup
  <2>3. PICK w \in Jobs : requests' = [requests EXCEPT ![r] = w]
    BY <2>1, <2>2, AllCarried
  <2>4. groups' \in [Groups -> GroupNames \cup {"", "gone"}]
    BY <1>1, HereNow DEF DeleteGroup
  <2>5. members' \in SUBSET (People \X Groups)
    BY <1>1, HereNow DEF DeleteGroup
  <2> QED BY <1>1, <2>1, <2>3, <2>4, <2>5, HereNow, JobMoves DEF DeleteGroup
<1>2. ASSUME NEW g \in Groups, NEW n \in GroupNames, Rename(r, g, n) PROVE WebTypes'
  <2>1. app' \in Rows
    BY <1>2, HereNow DEF Rename
  <2>2. Moving(g) \in SUBSET People /\ ThenAll(r, Moving(g))
    BY <1>2 DEF Rename, Moving
  <2>3. PICK w \in Jobs : requests' = [requests EXCEPT ![r] = w]
    BY <2>1, <2>2, AllCarried
  <2>4. groups' \in [Groups -> GroupNames \cup {"", "gone"}]
    BY <1>2, HereNow DEF Rename
  <2> QED BY <1>2, <2>1, <2>3, <2>4, HereNow, JobMoves DEF Rename
<1>3. ASSUME NEW u \in People, Transfer(r, u) PROVE WebTypes'
  <2> DEFINE m == requests[r]
             left == m.left \ {u}
             w == IF left # {} THEN [m EXCEPT !.left = left]
                  ELSE IF m.kind = "follow" THEN [m EXCEPT !.pc = "read", !.left = {}] ELSE NoWork
  <2>1. w \in Jobs
    <3>1. \A j \in Jobs, s \in SUBSET People :
             [j EXCEPT !.left = s] \in Jobs /\ [j EXCEPT !.pc = "read", !.left = s] \in Jobs
      BY DEF Jobs
    <3>2. left \in SUBSET People /\ {} \in SUBSET People /\ m \in Jobs
      BY HereNow
    <3> HIDE DEF left, m
    <3> QED BY <3>1, <3>2, HereNow
  <2>2. requests' = [requests EXCEPT ![r] = w]
    BY <1>3 DEF Transfer
  <2>3. slips' \in 0 .. MaxSlips
    BY <1>3, SlipsOrNot DEF Transfer
  <2>4. central' \in SUBSET (People \X GroupNames)
    BY <1>3, CarriesTyped, HereNow DEF Transfer
  <2> HIDE DEF w
  <2> QED BY <1>3, <2>1, <2>2, <2>3, <2>4, HereNow, JobMoves DEF Transfer
<1>4. CASE Restart(r)
  <2>1. app' \in Rows
    BY <1>4, HereNow DEF Restart
  <2>2. PICK left \in SUBSET People : left = {} /\ ThenAll(r, left)
    BY <1>4 DEF Restart
  <2>3. PICK w \in Jobs : requests' = [requests EXCEPT ![r] = w]
    BY <2>1, <2>2, AllCarried
  <2> QED BY <1>4, <2>1, <2>3, HereNow, JobMoves DEF Restart
<1> QED BY <1>1, <1>2, <1>3, <1>4

LEMMA MembersTyped ==
    ASSUME WebAppsAssumption, WebTypes,
           \/ \E g \in Groups, n \in GroupNames : CreateGroup(g, n)
           \/ \E u \in People, G \in SUBSET Groups : Member(u, G)
           \/ NewSecret
    PROVE  WebTypes'
<1>1. ASSUME NEW g \in Groups, NEW n \in GroupNames, CreateGroup(g, n) PROVE WebTypes'
  <2>1. groups' \in [Groups -> GroupNames \cup {"", "gone"}]
    BY <1>1 DEF CreateGroup, WebTypes
  <2> QED BY <1>1, <2>1 DEF CreateGroup, WebTypes
<1>2. ASSUME NEW u \in People, NEW G \in SUBSET Groups, Member(u, G) PROVE WebTypes'
  <2>1. members' \subseteq People \X Groups
    BY <1>2 DEF Member, WebTypes
  <2>2. slips' \in 0 .. MaxSlips
    BY <1>2, SlipsOrNot DEF Member
  <2>3. PICK m : m = members'
    OBVIOUS
  <2>4. central' = Carries(u, m) \/ central' = central
    BY <1>2, <2>3 DEF Member
  <2>5. central' \subseteq People \X GroupNames
    BY <2>4, CarriesTyped DEF WebTypes
  <2> QED BY <1>2, <2>1, <2>2, <2>5 DEF Member, WebTypes
<1>3. CASE NewSecret
  <2>1. appClient' \in Clients
    BY <1>3, ClientTurns DEF NewSecret, WebTypes
  <2> QED BY <1>3, <2>1 DEF NewSecret, WebTypes
<1> QED BY <1>1, <1>2, <1>3

\* The rows, the client, Keycloak's groups and the requests are of their types, with requests side by
\* side, names that come again and any call that fails.
THEOREM WebTypesKept == ASSUME WebAppsAssumption PROVE WebSpec => []WebTypeOK
<1>1. WebInit => WebTypes
  <2> SUFFICES ASSUME WebInit PROVE WebTypes
    OBVIOUS
  <2>1. app \in Rows /\ appClient \in Clients /\ requests \in [Requests -> Jobs]
    BY JobsOf DEF WebInit
  <2>2. slips \in 0 .. MaxSlips
    <3>1. slips = 0 /\ MaxSlips \in Nat
      BY DEF WebInit, WebAppsAssumption
    <3> QED BY <3>1
  <2>3. groups \in [Groups -> GroupNames \cup {"", "gone"}] /\ members = {} /\ central = {}
    BY DEF WebInit
  <2> QED BY <2>1, <2>2, <2>3 DEF WebTypes
<1>2. WebTypes /\ [WebNext]_webVars => WebTypes'
  <2>1. WebTypes /\ WebNext => WebTypes'
    BY AppTyped, AccessTyped, GroupTyped, MembersTyped DEF WebNext
  <2>2. WebTypes /\ UNCHANGED webVars => WebTypes'
    BY DEF WebTypes, webVars
  <2> QED BY <2>1, <2>2
<1> QED BY <1>1, <1>2, TypesAlike, PTL DEF WebSpec

\* Keycloak lets into the application exactly the members of its groups, or everybody
\* if it is for all, whenever no request is under way: whatever was created, renamed,
\* deleted or carried over in between, also when calls of a creation failed or their answers
\* were lost; a client left behind without a row is nobody's (_zugang, zugang_alle, anlegen).
THEOREM MembersGetIn ==
    ASSUME WebAppsAssumption, Serial, FreshNames, Slipping \subseteq {"create", "lost", "undo"}
    PROVE  WebSpec => []LetsInMembers
BY WebInit_Inv, WebStep_Inv, WebInv_Lets, PTL DEF WebSpec
=============================================================================
