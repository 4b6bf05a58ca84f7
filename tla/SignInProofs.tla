------------------------------ MODULE SignInProofs ------------------------------
(* Theorems about signing in, for every number of browsers, tabs, senders and     *)
(* requests: a sign-in lasts until somebody ends it and no longer                 *)
(* (BrowserSessions), a sender is locked for its own mistakes (LocalLogin), who   *)
(* signs in at Forgejo finds his own account there (Git), each side of a group    *)
(* changes only its own half (Groups), and who moves to Keycloak can sign in      *)
(* there (Accounts).                                                              *)
EXTENDS BrowserSessions, LocalLogin, Git, Groups, Accounts, FiniteSetTheorems, TLAPS

-----------------------------------------------------------------------------
(* BrowserSessions: the invariants.                                            *)

Open == {c \in Sources : changes[c] >= 0}
Half == IdleTime \div 2
Here(t) == BrowserOf(t)

\* Each revocation under way will raise the epoch, and there are not too many.
Bounded ==
    /\ epoch <= revoked /\ revoked + Cardinality(Open) <= MaxRevocations
    /\ \A c \in Sources : changes[c] <= revoked

\* One change of his own password at a time, and until it is done the account is OTA's own.
OwnAlone ==
    \A t \in Tabs : answers[t].kind = "own" =>
        /\ local /\ changes["own"] >= 0
        /\ \A u \in Tabs : (u # t => answers[u].kind # "own")

\* An account of OTA's own has no session of Keycloak to keep awake.
LocalAsleep ==
    local => (\A b \in Browsers : awake[b] = "none") /\ (\A t \in Tabs : ~answers[t].stamp)

\* An answer that nothing has overtaken is of the sign-in that its browser has.
AnswersFresh ==
    \A t \in Tabs : ~answers[t].late /\ signedIn[Here(t)] =>
        /\ answers[t].kind # "moved"
        /\ (answers[t].kind = "work" => answers[t].epoch = -1 \/ answers[t].epoch = epoch)
        /\ (answers[t].kind = "changed" => answers[t].epoch = epoch /\ local)

\* A cookie lasts for half its lifetime after an answer, and so does the one that an answer
\* on its way leaves behind.
Stays(b) == signedIn[b] /\ ~overtaken[b] /\ ~Changing(b)
CookiesLast ==
    \A b \in Browsers : Stays(b) =>
        quiet[b] > Half \/ (cookie[b].epoch = epoch /\ cookie[b].left + quiet[b] > Half)
AnswersLast ==
    \A t \in Tabs : answers[t].kind = "work" /\ answers[t].epoch = -1 /\ Stays(Here(t)) =>
        cookie[Here(t)].epoch = epoch /\ cookie[Here(t)].left > Half

\* Keycloak has been told when the browser says so, or by the request that is being answered.
Heard(b) == signedIn[b] /\ ~unheard[b] /\ ~overtaken[b]
FreshIsAwake ==
    \A b \in Browsers : Heard(b) /\ awake[b] = "fresh" => sso[b] = IdleTime
AnswersAwake ==
    \A t \in Tabs : answers[t].kind = "work" /\ ~answers[t].late /\ Heard(Here(t)) =>
        sso[Here(t)] = IdleTime \/ (awake[Here(t)] = "none" /\ ~answers[t].stamp)

\* A tab at Keycloak and its note have the same clock.
NotesLast ==
    \A t \in Tabs : page[t].at = "keycloak" => notes[Here(t)][t] + page[t].for >= NoteTime

BrowserInv == BrowserTypeOK /\ Bounded
StayInv ==
    /\ BrowserInv /\ OwnAlone /\ LocalAsleep /\ AnswersFresh
    /\ CookiesLast /\ AnswersLast
    /\ FreshIsAwake /\ AnswersAwake /\ OneClock
    /\ NotesLast /\ TabsDontDisturb

\* With one revocation at a time the epoch counts them, and so does what is made in it.
EpochsAgree ==
    /\ epoch = revoked
    /\ \A c \in Sources : changes[c] >= 0 => changes[c] = epoch
    /\ \A c, d \in Sources : changes[c] >= 0 /\ changes[d] >= 0 => c = d
    /\ \A b \in Browsers : cookie[b].epoch >= 0 => cookie[b].born = cookie[b].epoch
    /\ \A t \in Tabs : answers[t].epoch >= 0 => answers[t].born = answers[t].epoch

-----------------------------------------------------------------------------
(* Lemmas about the operators.                                                 *)

LEMMA Constants ==
    ASSUME BrowserSessionsAssumption
    PROVE  /\ IdleTime \in Nat \ {0} /\ NoteTime \in Nat \ {0} /\ MaxRevocations \in Nat
           /\ \A t \in Tabs : BrowserOf(t) \in Browsers /\ Here(t) \in Browsers
           /\ Half \in Nat /\ Half < IdleTime
BY DEF BrowserSessionsAssumption, Half, Here

LEMMA OpenIsFinite == IsFiniteSet(Open) /\ Cardinality(Open) \in Nat
<1>1. IsFiniteSet((({} \cup {"own"}) \cup {"office"}) \cup {"keycloak"})
  BY FS_EmptySet, FS_AddElement
<1>2. Open \subseteq (({} \cup {"own"}) \cup {"office"}) \cup {"keycloak"}
  BY DEF Open, Sources
<1> QED BY <1>1, <1>2, FS_Subset, FS_CardinalityType

LEMMA ReadsCounts ==
    ASSUME BrowserSessionsAssumption, BrowserInv, NEW c \in Sources, Reads(c),
           UNCHANGED <<epoch, revoked>>
    PROVE  Bounded' /\ changes' \in [Sources -> -1 .. MaxRevocations]
<1>1. changes' \in [Sources -> -1 .. MaxRevocations] /\ changes'[c] = epoch
        /\ \A d \in Sources \ {c} : changes'[d] = changes[d]
  BY DEF Reads, BrowserInv, BrowserTypeOK
<1>2. Open' = Open \cup {c} /\ c \notin Open
  BY <1>1 DEF Open, Reads, BrowserInv, BrowserTypeOK
<1>3. Cardinality(Open') = Cardinality(Open) + 1
  BY <1>2, OpenIsFinite, FS_AddElement
<1>4. revoked + Cardinality(Open) < MaxRevocations
  BY DEF Reads, Open
<1>5. revoked' + Cardinality(Open') <= MaxRevocations
  BY <1>3, <1>4, OpenIsFinite DEF BrowserInv, BrowserTypeOK, BrowserSessionsAssumption
<1>6. epoch' <= revoked' /\ \A d \in Sources : changes'[d] <= revoked'
  BY <1>1 DEF BrowserInv, Bounded
<1> QED BY <1>1, <1>5, <1>6 DEF Bounded

LEMMA CommitsCounts ==
    ASSUME BrowserSessionsAssumption, BrowserInv, NEW c \in Sources, Commits(c)
    PROVE  /\ Bounded' /\ changes' \in [Sources -> -1 .. MaxRevocations]
           /\ epoch' \in 1 .. MaxRevocations /\ revoked' \in 1 .. MaxRevocations
           /\ epoch' = changes[c] + 1 /\ revoked' = revoked + 1
           /\ changes'[c] = -1 /\ \A d \in Sources \ {c} : changes'[d] = changes[d]
<1>1. /\ changes' \in [Sources -> -1 .. MaxRevocations] /\ changes'[c] = -1
      /\ \A d \in Sources \ {c} : changes'[d] = changes[d]
  BY DEF Commits, BrowserInv, BrowserTypeOK, BrowserSessionsAssumption
<1>2. Open' = Open \ {c} /\ c \in Open
  BY <1>1 DEF Open, Commits, BrowserInv, BrowserTypeOK
<1>3. Cardinality(Open') = Cardinality(Open) - 1
  BY <1>2, OpenIsFinite, FS_RemoveElement
<1>4. Cardinality(Open') \in Nat
  BY <1>2, OpenIsFinite, FS_Subset, FS_CardinalityType, FS_RemoveElement
<1>5. revoked + Cardinality(Open) <= MaxRevocations /\ changes[c] <= revoked
      /\ epoch \in Nat /\ revoked \in Nat /\ changes[c] \in Nat
  BY DEF BrowserInv, Bounded, BrowserTypeOK, Commits
<1>6. epoch' = changes[c] + 1 /\ revoked' = revoked + 1
  BY DEF Commits, Raised
<1>7. revoked' + Cardinality(Open') <= MaxRevocations /\ epoch' <= revoked'
      /\ epoch' \in 1 .. MaxRevocations /\ revoked' \in 1 .. MaxRevocations
  BY <1>3, <1>4, <1>5, <1>6, OpenIsFinite DEF BrowserSessionsAssumption
<1>8. \A d \in Sources : changes'[d] <= revoked'
  BY <1>1, <1>5, <1>6 DEF BrowserInv, Bounded, BrowserTypeOK
<1> QED BY <1>1, <1>6, <1>7, <1>8 DEF Bounded

LEMMA SameCounts ==
    ASSUME BrowserInv, UNCHANGED <<epoch, revoked, changes>>
    PROVE  Bounded'
BY DEF BrowserInv, Bounded, Open

-----------------------------------------------------------------------------
(* BrowserSessions: the types.                                                 *)

BrowserTypes ==
    /\ cookie \in [Browsers -> Cookie] /\ awake \in [Browsers -> {"none", "fresh", "due"}]
    /\ sso \in [Browsers -> 0 .. IdleTime] /\ quiet \in [Browsers -> 0 .. IdleTime]
    /\ signedIn \in [Browsers -> BOOLEAN] /\ unheard \in [Browsers -> BOOLEAN]
    /\ overtaken \in [Browsers -> BOOLEAN]
Pages == [at : {"ota", "keycloak", "error"}, for : 0 .. NoteTime + 1]
Answers == [kind : {"none", "work", "own", "changed", "moved"}, epoch : -1 .. MaxRevocations,
            born : 0 .. MaxRevocations, stamp : BOOLEAN, late : BOOLEAN]

LEMMA NewValues ==
    ASSUME BrowserSessionsAssumption
    PROVE  /\ NoCookie \in Cookie /\ NoAnswer \in Answers /\ InOTA \in Pages
           /\ \A e \in -1 .. MaxRevocations, n \in 0 .. MaxRevocations :
                [epoch |-> e, left |-> IdleTime, born |-> n] \in Cookie
BY DEF BrowserSessionsAssumption, NoCookie, Cookie, NoAnswer, Answers, InOTA, Pages

\* What overtakes the answers to a browser changes nothing else about them.
LEMMA OvertakesMarks ==
    ASSUME answers \in [Tabs -> Answers], NEW b
    PROVE  /\ Overtakes(b) \in [Tabs -> Answers]
           /\ \A t \in Tabs : /\ Overtakes(b)[t].kind = answers[t].kind
                             /\ Overtakes(b)[t].epoch = answers[t].epoch
                             /\ Overtakes(b)[t].born = answers[t].born
                             /\ Overtakes(b)[t].stamp = answers[t].stamp
           /\ \A t \in Tabs : (Here(t) = b /\ ~Free(t) => Overtakes(b)[t].late)
           /\ \A t \in Tabs : (Here(t) # b => Overtakes(b)[t] = answers[t])
<1>1. ASSUME NEW t \in Tabs
      PROVE  /\ [answers[t] EXCEPT !.late = TRUE] \in Answers
             /\ [answers[t] EXCEPT !.late = TRUE].kind = answers[t].kind
             /\ [answers[t] EXCEPT !.late = TRUE].epoch = answers[t].epoch
             /\ [answers[t] EXCEPT !.late = TRUE].born = answers[t].born
             /\ [answers[t] EXCEPT !.late = TRUE].stamp = answers[t].stamp
             /\ [answers[t] EXCEPT !.late = TRUE].late
  <2>1. answers[t] \in Answers
    OBVIOUS
  <2> QED BY <2>1 DEF Answers
<1> QED BY <1>1 DEF Overtakes, Here

LEMMA RevokeTypes ==
    ASSUME BrowserSessionsAssumption, BrowserInv,
           \/ \E t \in Tabs : OwnChangeReads(t) \/ PasswordChanged(t) \/ Moved(t) \/ OwnChangeFails(t)
           \/ OfficeReads \/ NoticeReads \/ NoticeLost \/ RevocationCommits
    PROVE  BrowserInv'
<1>1. CASE OfficeReads
  BY <1>1, ReadsCounts DEF OfficeReads, BrowserInv, BrowserTypeOK, browserState, Sources
<1>2. CASE NoticeReads
  BY <1>2, ReadsCounts DEF NoticeReads, BrowserInv, BrowserTypeOK, browserState, Sources
<1>3. CASE NoticeLost
  BY <1>3, SameCounts DEF NoticeLost, BrowserInv, BrowserTypeOK, browserState
<1>4. CASE RevocationCommits
  BY <1>4, CommitsCounts DEF RevocationCommits, BrowserInv, BrowserTypeOK, Sources
<1>5. ASSUME NEW t \in Tabs, OwnChangeReads(t) PROVE BrowserInv'
  <2>1. Bounded' /\ changes' \in [Sources -> -1 .. MaxRevocations]
    BY <1>5, ReadsCounts DEF OwnChangeReads, Sources
  <2>2. [NoAnswer EXCEPT !.kind = "own"] \in Answers
    <3>1. NoAnswer \in Answers
      BY NewValues
    <3> QED BY <3>1 DEF Answers
  <2>3. answers' \in [Tabs -> Answers]
    BY <1>5, <2>2 DEF OwnChangeReads, BrowserInv, BrowserTypeOK, Answers
  <2> QED BY <1>5, <2>1, <2>3 DEF OwnChangeReads, BrowserInv, BrowserTypeOK, browserState, Answers
<1>6. ASSUME NEW t \in Tabs, PasswordChanged(t) PROVE BrowserInv'
  <2>1. /\ Bounded' /\ changes' \in [Sources -> -1 .. MaxRevocations]
        /\ epoch' \in 0 .. MaxRevocations /\ revoked' \in 0 .. MaxRevocations
        /\ Raised("own") = epoch' /\ revoked + 1 = revoked'
    BY <1>6, CommitsCounts, Constants DEF PasswordChanged, Sources, Raised
  <2>2. PICK new : new = [NoAnswer EXCEPT !.kind = "changed", !.epoch = Raised("own"), !.born = revoked + 1]
    OBVIOUS
  <2>3. new \in Answers
    <3>1. new = [kind |-> "changed", epoch |-> epoch', born |-> revoked', stamp |-> FALSE, late |-> FALSE]
      BY <2>1, <2>2 DEF NoAnswer
    <3>2. epoch' \in -1 .. MaxRevocations
      BY <2>1, Constants
    <3> QED BY <2>1, <3>1, <3>2 DEF Answers
  <2>4. answers \in [Tabs -> Answers]
    BY DEF BrowserInv, BrowserTypeOK, Answers
  <2>5. answers' = [Overtakes(BrowserOf(t)) EXCEPT ![t] = new]
    BY <1>6, <2>2 DEF PasswordChanged
  <2>6. answers' \in [Tabs -> Answers]
    BY <2>3, <2>4, <2>5, OvertakesMarks
  <2>7. signedIn' \in [Browsers -> BOOLEAN]
    BY <1>6 DEF PasswordChanged, BrowserInv, BrowserTypeOK
  <2> QED BY <1>6, <2>1, <2>6, <2>7 DEF PasswordChanged, BrowserInv, BrowserTypeOK, Answers
<1>7. ASSUME NEW t \in Tabs, Moved(t) PROVE BrowserInv'
  <2>1. /\ Bounded' /\ changes' \in [Sources -> -1 .. MaxRevocations]
        /\ epoch' \in 0 .. MaxRevocations /\ revoked' \in 0 .. MaxRevocations
    BY <1>7, CommitsCounts, Constants DEF Moved, Sources
  <2>2. [NoAnswer EXCEPT !.kind = "moved"] \in Answers
    <3>1. NoAnswer \in Answers
      BY NewValues
    <3> QED BY <3>1 DEF Answers
  <2>3. answers' \in [Tabs -> Answers]
    BY <1>7, <2>2 DEF Moved, BrowserInv, BrowserTypeOK, Answers
  <2> QED BY <1>7, <2>1, <2>3 DEF Moved, BrowserInv, BrowserTypeOK, Answers
<1>8. ASSUME NEW t \in Tabs, OwnChangeFails(t) PROVE BrowserInv'
  <2>1. changes' \in [Sources -> -1 .. MaxRevocations]
    <3>1. -1 \in -1 .. MaxRevocations
      BY Constants
    <3> QED BY <1>8, <3>1 DEF OwnChangeFails, BrowserInv, BrowserTypeOK
  <2>2. Open' \subseteq Open /\ \A c \in Sources : changes'[c] <= revoked
    <3>1. changes' = [changes EXCEPT !["own"] = -1] /\ revoked \in Nat
      BY <1>8 DEF OwnChangeFails, BrowserInv, BrowserTypeOK
    <3>2. \A c \in Sources : changes'[c] = changes[c] \/ changes'[c] = -1
      BY <3>1 DEF BrowserInv, BrowserTypeOK
    <3> QED BY <3>1, <3>2 DEF Open, BrowserInv, Bounded
  <2>3. Cardinality(Open') <= Cardinality(Open) /\ Cardinality(Open') \in Nat
    BY <2>2, OpenIsFinite, FS_Subset, FS_CardinalityType
  <2>4. revoked + Cardinality(Open') <= MaxRevocations
    BY <2>3, OpenIsFinite, Constants DEF BrowserInv, BrowserTypeOK, Bounded
  <2>5. answers' \in [Tabs -> Answers]
    BY <1>8, NewValues DEF OwnChangeFails, BrowserInv, BrowserTypeOK, Answers
  <2> QED BY <1>8, <2>1, <2>2, <2>4, <2>5
          DEF OwnChangeFails, BrowserInv, BrowserTypeOK, browserState, Bounded, Answers
<1> QED BY <1>1, <1>2, <1>3, <1>4, <1>5, <1>6, <1>7, <1>8

LEMMA RequestTypes ==
    ASSUME BrowserSessionsAssumption, BrowserInv, NEW t \in Tabs,
           \/ \E heard \in BOOLEAN : Served(t, heard)
           \/ Answered(t) \/ OwnChangeAnswered(t) \/ Away(t) \/ Callback(t) \/ CallbackLate(t) \/ CallbackRefused(t)
    PROVE  BrowserInv'
<1>0. Bounded'
  BY SameCounts DEF Served, Answered, OwnChangeAnswered, Away, Callback, CallbackLate, CallbackRefused, accountState
<1>1. /\ local' \in BOOLEAN /\ epoch' \in 0 .. MaxRevocations /\ revoked' \in 0 .. MaxRevocations
      /\ changes' \in [Sources -> -1 .. MaxRevocations] /\ notices' \in BOOLEAN
  BY DEF Served, Answered, OwnChangeAnswered, Away, Callback, CallbackLate, CallbackRefused, accountState,
         BrowserInv, BrowserTypeOK
<1>2. ASSUME NEW heard \in BOOLEAN, Served(t, heard) PROVE BrowserInv'
  <2>1. answers' \in [Tabs -> Answers]
    <3>1. [kind |-> "work", epoch |-> IF Renewed(cookie[BrowserOf(t)]) THEN epoch ELSE -1,
           born |-> revoked, stamp |-> awake[BrowserOf(t)] = "due", late |-> FALSE] \in Answers
      BY Constants DEF Answers, BrowserInv, BrowserTypeOK
    <3> QED BY <1>2, <3>1 DEF Served, BrowserInv, BrowserTypeOK, Answers
  <2>2. sso' \in [Browsers -> 0 .. IdleTime]
    BY <1>2, Constants DEF Served, Refreshed, BrowserInv, BrowserTypeOK
  <2>3. unheard' \in [Browsers -> BOOLEAN]
    BY <1>2 DEF Served, BrowserInv, BrowserTypeOK
  <2> QED BY <1>0, <1>1, <1>2, <2>1, <2>2, <2>3 DEF Served, BrowserInv, BrowserTypeOK, Answers
<1>3. CASE Answered(t)
  <2>1. cookie' \in [Browsers -> Cookie] /\ answers' \in [Tabs -> Answers]
    <3>1. answers[t] \in Answers /\ answers[t].epoch \in -1 .. MaxRevocations
            /\ answers[t].born \in 0 .. MaxRevocations
      BY DEF BrowserInv, BrowserTypeOK, Answers
    <3>2. answers[t].epoch >= 0 =>
            [epoch |-> answers[t].epoch, left |-> IdleTime, born |-> answers[t].born] \in Cookie
      BY <3>1, NewValues, Constants
    <3>3. cookie' = cookie \/ \E c \in Cookie : cookie' = [cookie EXCEPT ![BrowserOf(t)] = c]
      BY <1>3, <3>1, <3>2 DEF Answered
    <3>4. cookie' \in [Browsers -> Cookie]
      BY <3>3 DEF BrowserInv, BrowserTypeOK
    <3> QED BY <1>3, <3>4, NewValues DEF Answered, BrowserInv, BrowserTypeOK, Answers
  <2>2. quiet' \in [Browsers -> 0 .. IdleTime]
    BY <1>3, Constants DEF Answered, BrowserInv, BrowserTypeOK
  <2>3. awake' \in [Browsers -> {"none", "fresh", "due"}]
    BY <1>3 DEF Answered, BrowserInv, BrowserTypeOK
  <2>4. overtaken' \in [Browsers -> BOOLEAN]
    BY <1>3 DEF Answered, BrowserInv, BrowserTypeOK
  <2> QED BY <1>0, <1>1, <1>3, <2>1, <2>2, <2>3, <2>4 DEF Answered, BrowserInv, BrowserTypeOK, Answers
<1>9. CASE OwnChangeAnswered(t)
  <2>1. PICK a \in Answers : a = answers[t]
    BY DEF BrowserInv, BrowserTypeOK, Answers
  <2>2. answers' \in [Tabs -> Answers] /\ overtaken' \in [Browsers -> BOOLEAN]
    BY <1>9, <2>1, NewValues DEF OwnChangeAnswered, BrowserInv, BrowserTypeOK, Answers
  <2>3. quiet' \in [Browsers -> 0 .. IdleTime]
    BY <1>9, Constants DEF OwnChangeAnswered, BrowserInv, BrowserTypeOK
  <2>4. awake' \in [Browsers -> {"none", "fresh", "due"}]
    <3>1. awake' = awake \/ awake' = [awake EXCEPT ![BrowserOf(t)] = "none"]
      BY <1>9 DEF OwnChangeAnswered
    <3> QED BY <3>1 DEF BrowserInv, BrowserTypeOK
  <2>5. cookie' = [cookie EXCEPT ![BrowserOf(t)] = NoCookie]
          \/ (a.kind = "changed" /\ cookie' = [cookie EXCEPT ![BrowserOf(t)] =
                                                [epoch |-> a.epoch, left |-> IdleTime, born |-> a.born]])
    BY <1>9, <2>1 DEF OwnChangeAnswered
  <2>6. [epoch |-> a.epoch, left |-> IdleTime, born |-> a.born] \in Cookie
    BY <2>1, NewValues DEF Answers
  <2>7. cookie' \in [Browsers -> Cookie]
    BY <2>5, <2>6, NewValues DEF BrowserInv, BrowserTypeOK
  <2> QED BY <1>0, <1>1, <1>9, <2>2, <2>3, <2>4, <2>7 DEF OwnChangeAnswered, BrowserInv, BrowserTypeOK, Answers
<1>4. CASE Away(t)
  <2>1. notes' \in [Browsers -> [Tabs -> 0 .. NoteTime]]
    BY <1>4, Constants DEF Away, BrowserInv, BrowserTypeOK
  <2>2. page' \in [Tabs -> Pages]
    BY <1>4, Constants DEF Away, BrowserInv, BrowserTypeOK, Pages
  <2>3. signedIn' \in [Browsers -> BOOLEAN]
    BY <1>4 DEF Away, BrowserInv, BrowserTypeOK
  <2> QED BY <1>0, <1>1, <1>4, <2>1, <2>2, <2>3 DEF Away, BrowserInv, BrowserTypeOK, Pages
<1>5. Dropped(BrowserOf(t), t) \in [Browsers -> [Tabs -> 0 .. NoteTime]]
  BY Constants DEF Dropped, BrowserInv, BrowserTypeOK
<1>6. CASE Callback(t)
  <2>1. page' \in [Tabs -> Pages]
    BY <1>6, NewValues DEF Callback, BrowserInv, BrowserTypeOK, Pages
  <2>2. sso' \in [Browsers -> 0 .. IdleTime]
    BY <1>6, Constants DEF Callback, BrowserInv, BrowserTypeOK
  <2>3. BrowserTypes'
    BY <1>6, <2>2, NewValues, Constants
       DEF Callback, SignsIn, NewCookie, BrowserInv, BrowserTypeOK, BrowserTypes
  <2>4. answers' \in [Tabs -> Answers]
    BY <1>6, OvertakesMarks DEF Callback, SignsIn, BrowserInv, BrowserTypeOK, Answers
  <2> QED BY <1>0, <1>1, <1>5, <1>6, <2>1, <2>3, <2>4
          DEF Callback, BrowserInv, BrowserTypeOK, BrowserTypes, Pages, Answers
<1>7. CASE CallbackLate(t)
  <2>1. page' \in [Tabs -> Pages]
    BY <1>7, NewValues DEF CallbackLate, BrowserInv, BrowserTypeOK, Pages
  <2> QED BY <1>0, <1>1, <1>5, <1>7, <2>1
          DEF CallbackLate, browserState, BrowserInv, BrowserTypeOK, Pages
<1>8. CASE CallbackRefused(t)
  <2>1. page' \in [Tabs -> Pages]
    BY <1>8, NewValues DEF CallbackRefused, BrowserInv, BrowserTypeOK, Pages
  <2> QED BY <1>0, <1>1, <1>5, <1>8, <2>1
          DEF CallbackRefused, browserState, BrowserInv, BrowserTypeOK, Pages
<1> QED BY <1>2, <1>3, <1>4, <1>6, <1>7, <1>8, <1>9

LEMMA SignTypes ==
    ASSUME BrowserSessionsAssumption, BrowserInv, NEW b \in Browsers,
           SignInHere(b) \/ TokenSignsIn(b) \/ LogOut(b) \/ KeycloakEnds(b)
    PROVE  BrowserInv'
<1>0. Bounded'
  BY SameCounts DEF SignInHere, TokenSignsIn, LogOut, KeycloakEnds, accountState
<1>1. /\ local' \in BOOLEAN /\ epoch' \in 0 .. MaxRevocations /\ revoked' \in 0 .. MaxRevocations
      /\ changes' \in [Sources -> -1 .. MaxRevocations] /\ notices' \in BOOLEAN
      /\ UNCHANGED <<notes, page>>
  BY DEF SignInHere, TokenSignsIn, LogOut, KeycloakEnds, accountState, BrowserInv, BrowserTypeOK
<1>2. CASE SignInHere(b) \/ TokenSignsIn(b)
  <2>1. SignsIn(b, "none") /\ UNCHANGED sso
    BY <1>2 DEF SignInHere, TokenSignsIn
  <2>2. BrowserTypes'
    <3>1. cookie' \in [Browsers -> Cookie]
      <4>1. epoch \in -1 .. MaxRevocations /\ revoked \in 0 .. MaxRevocations
        BY Constants DEF BrowserInv, BrowserTypeOK
      <4>2. NewCookie(epoch) \in Cookie
        BY <4>1, NewValues DEF NewCookie
      <4> QED BY <2>1, <4>2 DEF SignsIn, BrowserInv, BrowserTypeOK
    <3>2. awake' \in [Browsers -> {"none", "fresh", "due"}] /\ sso' \in [Browsers -> 0 .. IdleTime]
      BY <2>1 DEF SignsIn, BrowserInv, BrowserTypeOK
    <3>3. quiet' \in [Browsers -> 0 .. IdleTime]
      BY <2>1, Constants DEF SignsIn, BrowserInv, BrowserTypeOK
    <3>4. /\ signedIn' \in [Browsers -> BOOLEAN] /\ unheard' \in [Browsers -> BOOLEAN]
          /\ overtaken' \in [Browsers -> BOOLEAN]
      BY <2>1 DEF SignsIn, BrowserInv, BrowserTypeOK
    <3> QED BY <3>1, <3>2, <3>3, <3>4 DEF BrowserTypes
  <2>3. answers' \in [Tabs -> Answers]
    BY <2>1, OvertakesMarks DEF SignsIn, BrowserInv, BrowserTypeOK, Answers
  <2> QED BY <1>0, <1>1, <2>2, <2>3 DEF BrowserInv, BrowserTypeOK, BrowserTypes, Answers
<1>3. CASE LogOut(b)
  <2>1. BrowserTypes'
    BY <1>3, NewValues, Constants DEF LogOut, BrowserInv, BrowserTypeOK, BrowserTypes
  <2> QED BY <1>0, <1>1, <1>3, <2>1 DEF LogOut, BrowserInv, BrowserTypeOK, BrowserTypes
<1>4. CASE KeycloakEnds(b)
  <2>1. BrowserTypes'
    BY <1>4, Constants DEF KeycloakEnds, BrowserInv, BrowserTypeOK, BrowserTypes
  <2> QED BY <1>0, <1>1, <1>4, <2>1 DEF KeycloakEnds, BrowserInv, BrowserTypeOK, BrowserTypes
<1> QED BY <1>2, <1>3, <1>4

LEMMA TickTypes ==
    ASSUME BrowserSessionsAssumption, BrowserInv, Tick
    PROVE  BrowserInv'
<1>1. Bounded'
  BY SameCounts DEF Tick, accountState
<1>2. cookie' \in [Browsers -> Cookie]
  <2>1. ASSUME NEW c \in Cookie, c.left > 1 PROVE [c EXCEPT !.left = @ - 1] \in Cookie
    <3>1. c.left - 1 \in 0 .. IdleTime
      BY <2>1, Constants DEF Cookie
    <3> QED BY <3>1 DEF Cookie
  <2>2. \A b \in Browsers : cookie[b] \in Cookie /\ cookie[b].left \in 0 .. IdleTime
    BY DEF BrowserInv, BrowserTypeOK, Cookie
  <2>3. \A b \in Browsers : (IF cookie[b].left <= 1 THEN NoCookie
                              ELSE [cookie[b] EXCEPT !.left = @ - 1]) \in Cookie
    BY <2>1, <2>2, NewValues, Constants
  <2> QED BY <2>3 DEF Tick
<1>3. sso' \in [Browsers -> 0 .. IdleTime] /\ quiet' \in [Browsers -> 0 .. IdleTime]
  BY Constants DEF Tick, Less, BrowserInv, BrowserTypeOK
<1>4. notes' \in [Browsers -> [Tabs -> 0 .. NoteTime]]
  BY Constants DEF Tick, Less, BrowserInv, BrowserTypeOK
<1>5. page' \in [Tabs -> Pages]
  <2>1. ASSUME NEW p \in Pages, p.for <= NoteTime PROVE [p EXCEPT !.for = @ + 1] \in Pages
    <3>1. p.for + 1 \in 0 .. NoteTime + 1
      BY <2>1, Constants DEF Pages
    <3> QED BY <3>1 DEF Pages
  <2> QED BY <2>1 DEF Tick, BrowserInv, BrowserTypeOK, Pages
<1>6. awake' \in [Browsers -> {"none", "fresh", "due"}]
  BY DEF Tick, BrowserInv, BrowserTypeOK
<1> QED BY <1>1, <1>2, <1>3, <1>4, <1>5, <1>6 DEF Tick, accountState, BrowserInv, BrowserTypeOK, Pages

LEMMA StepBrowserTypes ==
    ASSUME BrowserSessionsAssumption, BrowserInv, [BrowserNext]_sessionVars
    PROVE  BrowserInv'
<1>1. CASE UNCHANGED sessionVars
  BY <1>1, SameCounts DEF sessionVars, accountState, browserState, BrowserInv, BrowserTypeOK
<1>2. CASE BrowserNext
  BY <1>2, RevokeTypes, RequestTypes, SignTypes, TickTypes DEF BrowserNext
<1> QED BY <1>1, <1>2

LEMMA InitBrowserTypes ==
    ASSUME BrowserSessionsAssumption, BrowserInit
    PROVE  BrowserInv
<1>1. Open = {}
  BY DEF BrowserInit, Open, Sources
<1>2. Cardinality(Open) = 0
  BY <1>1, FS_EmptySet
<1>3. Bounded
  BY <1>2, Constants DEF BrowserInit, Bounded
<1>4. BrowserTypes
  BY NewValues, Constants DEF BrowserInit, BrowserTypes
<1>5. /\ changes \in [Sources -> -1 .. MaxRevocations]
      /\ epoch \in 0 .. MaxRevocations /\ revoked \in 0 .. MaxRevocations
      /\ notes \in [Browsers -> [Tabs -> 0 .. NoteTime]]
  BY Constants DEF BrowserInit
<1>6. page \in [Tabs -> Pages] /\ answers \in [Tabs -> Answers]
  BY NewValues DEF BrowserInit
<1> QED BY <1>3, <1>4, <1>5, <1>6
        DEF BrowserInit, BrowserInv, BrowserTypeOK, BrowserTypes, Pages, Answers

-----------------------------------------------------------------------------
(* BrowserSessions: who stays signed in.                                       *)

Revokes ==
    \/ \E t \in Tabs : OwnChangeReads(t) \/ PasswordChanged(t) \/ Moved(t) \/ OwnChangeFails(t)
    \/ OfficeReads \/ NoticeReads \/ NoticeLost \/ RevocationCommits
Asks(t) == (\E heard \in BOOLEAN : Served(t, heard)) \/ Answered(t) \/ OwnChangeAnswered(t)
Comes(t) == Away(t) \/ Callback(t) \/ CallbackLate(t) \/ CallbackRefused(t)
Signs(b) == SignInHere(b) \/ TokenSignsIn(b) \/ LogOut(b) \/ KeycloakEnds(b)

LEMMA Steps ==
    BrowserNext => \/ Revokes \/ Tick
                   \/ \E t \in Tabs : Asks(t) \/ Comes(t)
                   \/ \E b \in Browsers : Signs(b)
BY DEF BrowserNext, Revokes, Asks, Comes, Signs

\* Notes and tabs: only a tab itself and time move them.
LEMMA TabsStep ==
    ASSUME BrowserSessionsAssumption, StayInv, BrowserNext
    PROVE  NotesLast' /\ TabsDontDisturb'
<1> USE DEF Here
<1>1. CASE UNCHANGED <<notes, page>>
  BY <1>1 DEF StayInv, NotesLast, TabsDontDisturb
<1>2. Revokes => UNCHANGED <<notes, page>>
  BY DEF Revokes, OwnChangeReads, PasswordChanged, Moved, OwnChangeFails, OfficeReads, NoticeReads,
         NoticeLost, RevocationCommits
<1>3. \A t \in Tabs : Asks(t) => UNCHANGED <<notes, page>>
  BY DEF Asks, Served, Answered, OwnChangeAnswered
<1>4. \A b \in Browsers : Signs(b) => UNCHANGED <<notes, page>>
  BY DEF Signs, SignInHere, TokenSignsIn, LogOut, KeycloakEnds
<1>5. ASSUME NEW t \in Tabs, Away(t) PROVE NotesLast' /\ TabsDontDisturb'
  BY <1>5, Constants DEF Away, StayInv, BrowserInv, BrowserTypeOK, NotesLast, TabsDontDisturb
<1>6. ASSUME NEW t \in Tabs, Callback(t) \/ CallbackRefused(t) PROVE NotesLast' /\ TabsDontDisturb'
  <2>1. page' = [page EXCEPT ![t] = InOTA] /\ notes' = Dropped(BrowserOf(t), t)
    BY <1>6 DEF Callback, CallbackRefused
  <2>2. page'[t].at = "ota" /\ \A u \in Tabs \ {t} : page'[u] = page[u]
    BY <2>1 DEF InOTA, StayInv, BrowserInv, BrowserTypeOK
  <2>3. \A u \in Tabs \ {t} : notes'[BrowserOf(u)][u] = notes[BrowserOf(u)][u]
    BY <2>1, Constants DEF Dropped, StayInv, BrowserInv, BrowserTypeOK
  <2> QED BY <2>2, <2>3 DEF StayInv, NotesLast, TabsDontDisturb
<1>7. ASSUME NEW t \in Tabs, CallbackLate(t) PROVE NotesLast' /\ TabsDontDisturb'
  BY <1>7, Constants DEF CallbackLate, Dropped, NoteOf, InOTA, StayInv, BrowserInv, BrowserTypeOK,
                         NotesLast, TabsDontDisturb
<1>8. CASE Tick
  BY <1>8, Constants DEF Tick, Less, StayInv, BrowserInv, BrowserTypeOK, NotesLast, TabsDontDisturb
<1> QED BY <1>1, <1>2, <1>3, <1>4, <1>5, <1>6, <1>7, <1>8, Steps DEF Comes

\* What a step makes of the answers.
LEMMA OwnAnswer ==
    ASSUME StayInv, NEW t \in Tabs,
           answers' = [answers EXCEPT ![t] = [NoAnswer EXCEPT !.kind = "own"]]
    PROVE  /\ answers'[t].kind = "own" /\ ~answers'[t].stamp /\ answers'[t].epoch = -1
           /\ \A u \in Tabs \ {t} : answers'[u] = answers[u]
BY DEF StayInv, BrowserInv, BrowserTypeOK, NoAnswer

LEMMA AnswerGone ==
    ASSUME StayInv, NEW t \in Tabs, answers' = [answers EXCEPT ![t] = NoAnswer]
    PROVE  /\ answers'[t].kind = "none" /\ ~answers'[t].stamp /\ answers'[t].epoch = -1
           /\ \A u \in Tabs \ {t} : answers'[u] = answers[u]
BY DEF StayInv, BrowserInv, BrowserTypeOK, NoAnswer

LEMMA WorkAnswer ==
    ASSUME StayInv, NEW t \in Tabs, NEW heard \in BOOLEAN, Served(t, heard)
    PROVE  /\ answers'[t].kind = "work" /\ answers'[t].born = revoked
           /\ answers'[t].epoch = IF Renewed(cookie[Here(t)]) THEN epoch ELSE -1
           /\ answers'[t].stamp = (awake[Here(t)] = "due")
           /\ \A u \in Tabs \ {t} : answers'[u] = answers[u]
BY DEF StayInv, BrowserInv, BrowserTypeOK, Served, Here

LEMMA ChangedAnswer ==
    ASSUME StayInv, NEW t \in Tabs, PasswordChanged(t)
    PROVE  /\ answers'[t].kind = "changed" /\ ~answers'[t].stamp
           /\ answers'[t].epoch = epoch' /\ answers'[t].born = revoked'
           /\ \A u \in Tabs \ {t} : /\ answers'[u].kind = answers[u].kind
                                   /\ answers'[u].epoch = answers[u].epoch
                                   /\ answers'[u].born = answers[u].born
                                   /\ answers'[u].stamp = answers[u].stamp
                                   /\ (Here(u) = Here(t) /\ ~Free(u) => answers'[u].late)
                                   /\ (Here(u) # Here(t) => answers'[u] = answers[u])
<1>1. answers \in [Tabs -> Answers]
  BY DEF StayInv, BrowserInv, BrowserTypeOK, Answers
<1>2. PICK new : new = [NoAnswer EXCEPT !.kind = "changed", !.epoch = Raised("own"), !.born = revoked + 1]
  OBVIOUS
<1>3. /\ new.kind = "changed" /\ ~new.stamp
      /\ new.epoch = Raised("own") /\ new.born = revoked + 1
  BY <1>2 DEF NoAnswer
<1>4. answers' = [Overtakes(Here(t)) EXCEPT ![t] = new]
  BY <1>2 DEF PasswordChanged, Here
<1>5. Overtakes(Here(t)) \in [Tabs -> Answers]
  BY <1>1, OvertakesMarks
<1>6. answers'[t] = new /\ \A u \in Tabs \ {t} : answers'[u] = Overtakes(Here(t))[u]
  BY <1>4, <1>5
<1>7. epoch' = Raised("own") /\ revoked' = revoked + 1
  BY DEF PasswordChanged, Commits
<1> QED BY <1>1, <1>3, <1>6, <1>7, OvertakesMarks

LEMMA MovedAnswer ==
    ASSUME StayInv, NEW t \in Tabs, Moved(t)
    PROVE  /\ answers'[t].kind = "moved" /\ ~answers'[t].stamp /\ answers'[t].epoch = -1
           /\ \A u \in Tabs \ {t} : answers'[u] = answers[u]
BY DEF StayInv, BrowserInv, BrowserTypeOK, NoAnswer, Moved

LEMMA AnswersMarked ==
    ASSUME StayInv, NEW b \in Browsers, NEW state, SignsIn(b, state)
    PROVE  \A t \in Tabs : /\ answers'[t].kind = answers[t].kind /\ answers'[t].epoch = answers[t].epoch
                           /\ answers'[t].born = answers[t].born /\ answers'[t].stamp = answers[t].stamp
                           /\ (Here(t) = b /\ ~Free(t) => answers'[t].late)
                           /\ (Here(t) # b => answers'[t] = answers[t])
<1>1. answers \in [Tabs -> Answers] /\ answers' = Overtakes(b)
  BY DEF SignsIn, StayInv, BrowserInv, BrowserTypeOK, Answers
<1> QED BY <1>1, OvertakesMarks

LEMMA OwnStep ==
    ASSUME BrowserSessionsAssumption, StayInv, BrowserNext
    PROVE  OwnAlone' /\ LocalAsleep'
<1> USE DEF OwnAlone, LocalAsleep
<1>0. OwnAlone /\ LocalAsleep
  BY DEF StayInv
<1>1. CASE UNCHANGED <<local, awake, answers>> /\ changes'["own"] = changes["own"]
  BY <1>0, <1>1
<1>2. ASSUME NEW t \in Tabs, OwnChangeReads(t) PROVE OwnAlone' /\ LocalAsleep'
  <2>1. local /\ local' /\ awake' = awake /\ changes["own"] = -1
    BY <1>2 DEF OwnChangeReads, browserState, Reads
  <2>2. changes'["own"] >= 0
    BY <1>2 DEF OwnChangeReads, Reads, StayInv, BrowserInv, BrowserTypeOK, Sources
  <2>3. answers' = [answers EXCEPT ![t] = [NoAnswer EXCEPT !.kind = "own"]]
    BY <1>2 DEF OwnChangeReads
  <2>4. /\ answers'[t].kind = "own" /\ ~answers'[t].stamp
        /\ \A u \in Tabs \ {t} : answers'[u] = answers[u]
    BY <2>3, OwnAnswer
  <2>5. \A u \in Tabs : answers[u].kind # "own"
    BY <1>0, <2>1
  <2>6. OwnAlone'
    BY <2>1, <2>2, <2>4, <2>5
  <2>7. LocalAsleep'
    BY <1>0, <2>1, <2>4
  <2> QED BY <2>6, <2>7
<1>3. ASSUME NEW t \in Tabs, PasswordChanged(t) PROVE OwnAlone' /\ LocalAsleep'
  <2>1. answers[t].kind = "own" /\ local' = local /\ awake' = awake
    BY <1>3 DEF PasswordChanged
  <2>2. \A u \in Tabs : answers'[u].kind # "own"
    BY <1>0, <1>3, <2>1, ChangedAnswer
  <2>3. \A u \in Tabs : ~answers[u].stamp => ~answers'[u].stamp
    BY <1>3, ChangedAnswer
  <2> QED BY <1>0, <2>1, <2>2, <2>3
<1>4. ASSUME NEW t \in Tabs, OwnChangeFails(t) PROVE OwnAlone' /\ LocalAsleep'
  <2>1. answers[t].kind = "own" /\ local' = local /\ awake' = awake
    BY <1>4 DEF OwnChangeFails, browserState
  <2>2. /\ answers'[t].kind = "none" /\ ~answers'[t].stamp
        /\ \A u \in Tabs \ {t} : answers'[u] = answers[u]
    BY <1>4, AnswerGone DEF OwnChangeFails
  <2>3. \A u \in Tabs : answers'[u].kind # "own"
    BY <1>0, <2>1, <2>2
  <2>4. LocalAsleep'
    BY <1>0, <2>1, <2>2
  <2> QED BY <2>3, <2>4
<1>m. ASSUME NEW t \in Tabs, Moved(t) PROVE OwnAlone' /\ LocalAsleep'
  <2>1. answers[t].kind = "own" /\ ~local'
    BY <1>m DEF Moved
  <2> QED BY <1>0, <1>m, <2>1, MovedAnswer
<1>5. OfficeReads \/ NoticeReads \/ NoticeLost \/ RevocationCommits =>
        UNCHANGED <<local, awake, answers>> /\ changes'["own"] = changes["own"]
  BY DEF OfficeReads, NoticeReads, NoticeLost, RevocationCommits, Reads, Commits, browserState,
         StayInv, BrowserInv, BrowserTypeOK, Sources
<1>6. ASSUME NEW t \in Tabs, NEW heard \in BOOLEAN, Served(t, heard) PROVE OwnAlone' /\ LocalAsleep'
  <2>1. UNCHANGED <<local, awake, changes>>
    BY <1>6 DEF Served, accountState
  <2>2. /\ answers'[t].kind = "work" /\ answers'[t].stamp = (awake[Here(t)] = "due")
        /\ \A u \in Tabs \ {t} : answers'[u] = answers[u]
    BY <1>6, WorkAnswer
  <2>3. OwnAlone'
    BY <1>0, <2>1, <2>2
  <2>4. LocalAsleep'
    BY <1>0, <2>1, <2>2, Constants
  <2> QED BY <2>3, <2>4
<1>7. ASSUME NEW t \in Tabs, Answered(t) \/ OwnChangeAnswered(t) PROVE OwnAlone' /\ LocalAsleep'
  <2>1. UNCHANGED <<local, changes>> /\ answers' = [answers EXCEPT ![t] = NoAnswer]
    BY <1>7 DEF Answered, OwnChangeAnswered, accountState
  <2>2. /\ answers'[t].kind = "none" /\ ~answers'[t].stamp
        /\ \A u \in Tabs \ {t} : answers'[u] = answers[u]
    BY <2>1, AnswerGone
  <2>3. ASSUME local, NEW b \in Browsers PROVE awake'[b] = "none"
    <3>1. awake[b] = "none" /\ ~answers[t].stamp
      BY <1>0, <2>3
    <3>2. \/ awake' = [awake EXCEPT ![BrowserOf(t)] = "none"]
          \/ awake' = awake
      BY <1>7, <3>1 DEF Answered, OwnChangeAnswered
    <3> QED BY <3>1, <3>2 DEF StayInv, BrowserInv, BrowserTypeOK
  <2>4. OwnAlone'
    BY <1>0, <2>1, <2>2
  <2>5. LocalAsleep'
    BY <1>0, <2>1, <2>2, <2>3
  <2> QED BY <2>4, <2>5
<1>s. ASSUME NEW b \in Browsers, NEW state, SignsIn(b, state), UNCHANGED <<local, changes>>,
             local => state = "none"
      PROVE  OwnAlone' /\ LocalAsleep'
  <2>1. awake' = [awake EXCEPT ![b] = state]
    BY <1>s DEF SignsIn
  <2>2. \A t \in Tabs : answers'[t].kind = answers[t].kind /\ answers'[t].stamp = answers[t].stamp
    BY <1>s, AnswersMarked
  <2> QED BY <1>0, <1>s, <2>1, <2>2 DEF StayInv, BrowserInv, BrowserTypeOK
<1>8. ASSUME NEW t \in Tabs, Comes(t) PROVE OwnAlone' /\ LocalAsleep'
  <2>1. CASE Callback(t)
    <3>1. SignsIn(BrowserOf(t), "fresh") /\ UNCHANGED <<local, changes>> /\ ~local
      BY <2>1 DEF Callback, accountState
    <3> QED BY <1>s, <3>1, Constants
  <2>2. CASE Away(t) \/ CallbackLate(t) \/ CallbackRefused(t)
    <3>1. UNCHANGED <<local, answers, changes, awake>>
      BY <2>2 DEF Away, CallbackLate, CallbackRefused, accountState, browserState
    <3> QED BY <1>0, <3>1
  <2> QED BY <1>8, <2>1, <2>2 DEF Comes
<1>9. ASSUME NEW b \in Browsers, Signs(b) PROVE OwnAlone' /\ LocalAsleep'
  <2>1. CASE SignInHere(b) \/ TokenSignsIn(b)
    <3>1. SignsIn(b, "none") /\ UNCHANGED <<local, changes>>
      BY <2>1 DEF SignInHere, TokenSignsIn, accountState
    <3> QED BY <1>s, <3>1
  <2>2. CASE LogOut(b) \/ KeycloakEnds(b)
    <3>1. UNCHANGED <<local, answers, changes>> /\ (awake' = awake \/ awake' = [awake EXCEPT ![b] = "none"])
      BY <2>2 DEF LogOut, KeycloakEnds
    <3> QED BY <1>0, <3>1 DEF StayInv, BrowserInv, BrowserTypeOK
  <2> QED BY <1>9, <2>1, <2>2 DEF Signs
<1>10. CASE Tick
  <2>1. UNCHANGED <<local, answers, changes>>
        /\ \A b \in Browsers : awake'[b] = IF awake[b] = "fresh" THEN "due" ELSE awake[b]
    BY <1>10 DEF Tick, accountState
  <2> QED BY <1>0, <2>1
<1> QED BY <1>1, <1>2, <1>3, <1>4, <1>m, <1>5, <1>6, <1>7, <1>8, <1>9, <1>10, Steps DEF Revokes, Asks

\* What is not overtaken is of the sign-in that the browser has.
LEMMA FreshKept ==
    ASSUME StayInv, UNCHANGED <<epoch, local>>,
           \A t \in Tabs : answers'[t] = answers[t] \/ answers'[t].late \/ answers'[t].kind \in {"none", "own"},
           \A b \in Browsers : signedIn'[b] => signedIn[b],
           \A t \in Tabs : Here(t) \in Browsers
    PROVE  AnswersFresh'
BY DEF StayInv, AnswersFresh

LEMMA SignsInFresh ==
    ASSUME BrowserSessionsAssumption, StayInv, NEW b \in Browsers, NEW state, SignsIn(b, state),
           UNCHANGED <<epoch, local>>
    PROVE  AnswersFresh'
<1>1. \A c \in Browsers \ {b} : signedIn'[c] = signedIn[c]
  BY DEF SignsIn, StayInv, BrowserInv, BrowserTypeOK
<1>2. ASSUME NEW t \in Tabs, Here(t) = b, ~answers'[t].late PROVE answers'[t].kind = "none"
  BY <1>2, AnswersMarked DEF Free
<1>3. \A t \in Tabs : Here(t) # b => answers'[t] = answers[t]
  BY AnswersMarked
<1>4. ASSUME NEW t \in Tabs, ~answers'[t].late, signedIn'[Here(t)], answers'[t].kind # "none"
      PROVE  answers'[t] = answers[t] /\ ~answers[t].late /\ signedIn[Here(t)]
  BY <1>1, <1>2, <1>3, <1>4, Constants
<1> QED BY <1>4 DEF StayInv, AnswersFresh

LEMMA FreshStep ==
    ASSUME BrowserSessionsAssumption, StayInv, BrowserNext
    PROVE  AnswersFresh'
<1>n. ASSUME \A b \in Browsers : ~signedIn'[b] PROVE AnswersFresh'
  BY <1>n, Constants DEF AnswersFresh
<1>1. CASE OfficeReads \/ NoticeReads \/ NoticeLost
  BY <1>1, FreshKept, Constants DEF OfficeReads, NoticeReads, NoticeLost, browserState
<1>2. CASE RevocationCommits \/ \E t \in Tabs : Moved(t)
  BY <1>2, <1>n DEF RevocationCommits, Moved
<1>3. ASSUME NEW t \in Tabs, OwnChangeReads(t) PROVE AnswersFresh'
  BY <1>3, FreshKept, OwnAnswer, Constants DEF OwnChangeReads, browserState
<1>4. ASSUME NEW t \in Tabs, OwnChangeFails(t) PROVE AnswersFresh'
  BY <1>4, FreshKept, AnswerGone, Constants DEF OwnChangeFails, browserState
<1>5. ASSUME NEW t \in Tabs, PasswordChanged(t) PROVE AnswersFresh'
  <2>1. local' /\ \A b \in Browsers : signedIn'[b] => b = Here(t)
    BY <1>5 DEF PasswordChanged, StayInv, OwnAlone, Here
  <2>2. answers'[t].kind = "changed" /\ answers'[t].epoch = epoch'
    BY <1>5, ChangedAnswer
  <2>3. ASSUME NEW u \in Tabs \ {t}, ~answers'[u].late, signedIn'[Here(u)] PROVE answers'[u].kind = "none"
    BY <1>5, <2>1, <2>3, ChangedAnswer, Constants DEF Free
  <2> QED BY <2>1, <2>2, <2>3 DEF AnswersFresh
<1>6. ASSUME NEW t \in Tabs, NEW heard \in BOOLEAN, Served(t, heard) PROVE AnswersFresh'
  <2>1. UNCHANGED <<epoch, local, signedIn>>
    BY <1>6 DEF Served, accountState
  <2>2. /\ answers'[t].kind = "work" /\ (answers'[t].epoch = epoch \/ answers'[t].epoch = -1)
        /\ \A u \in Tabs \ {t} : answers'[u] = answers[u]
    BY <1>6, WorkAnswer
  <2> QED BY <2>1, <2>2 DEF StayInv, AnswersFresh
<1>7. ASSUME NEW t \in Tabs, Answered(t) \/ OwnChangeAnswered(t) PROVE AnswersFresh'
  BY <1>7, FreshKept, AnswerGone, Constants DEF Answered, OwnChangeAnswered, accountState
<1>8. ASSUME NEW t \in Tabs, Comes(t) PROVE AnswersFresh'
  <2>1. CASE Callback(t)
    BY <2>1, SignsInFresh, Constants DEF Callback, accountState
  <2>2. CASE Away(t)
    <3>1. UNCHANGED <<epoch, local, answers>>
      BY <2>2 DEF Away, accountState
    <3>2. \A b \in Browsers : signedIn'[b] => signedIn[b]
      BY <2>2 DEF Away, StayInv, BrowserInv, BrowserTypeOK
    <3> QED BY <3>1, <3>2, FreshKept, Constants
  <2>3. CASE CallbackLate(t) \/ CallbackRefused(t)
    BY <2>3, FreshKept, Constants DEF CallbackLate, CallbackRefused, accountState, browserState
  <2> QED BY <1>8, <2>1, <2>2, <2>3 DEF Comes
<1>9. ASSUME NEW b \in Browsers, Signs(b) PROVE AnswersFresh'
  <2>1. CASE SignInHere(b) \/ TokenSignsIn(b)
    BY <2>1, SignsInFresh DEF SignInHere, TokenSignsIn, accountState
  <2>2. CASE LogOut(b) \/ KeycloakEnds(b)
    <3>1. UNCHANGED <<epoch, local, answers>>
      BY <2>2 DEF LogOut, KeycloakEnds
    <3>2. \A c \in Browsers : signedIn'[c] => signedIn[c]
      BY <2>2 DEF LogOut, KeycloakEnds, StayInv, BrowserInv, BrowserTypeOK
    <3> QED BY <3>1, <3>2, FreshKept, Constants
  <2> QED BY <1>9, <2>1, <2>2 DEF Signs
<1>10. CASE Tick
  BY <1>10, FreshKept, Constants DEF Tick, accountState
<1> QED BY <1>1, <1>2, <1>3, <1>4, <1>5, <1>6, <1>7, <1>8, <1>9, <1>10, Steps DEF Revokes, Asks

\* Whoever has signed in keeps the cookie for as long as he works.
LEMMA LessSigned ==
    ASSUME StayInv, UNCHANGED <<epoch, quiet, answers, overtaken>>,
           \A b \in Browsers : signedIn'[b] => signedIn[b] /\ cookie'[b] = cookie[b],
           \A t \in Tabs : Here(t) \in Browsers
    PROVE  CookiesLast' /\ AnswersLast'
BY DEF StayInv, CookiesLast, AnswersLast, Stays, Changing

LEMMA SignsInLasts ==
    ASSUME BrowserSessionsAssumption, StayInv, NEW b \in Browsers, NEW state, SignsIn(b, state),
           UNCHANGED epoch
    PROVE  CookiesLast' /\ AnswersLast'
<1>1. /\ cookie'[b].epoch = epoch /\ cookie'[b].left = IdleTime /\ quiet'[b] = 0 /\ epoch' = epoch
      /\ \A c \in Browsers \ {b} : cookie'[c] = cookie[c] /\ quiet'[c] = quiet[c]
                                  /\ signedIn'[c] = signedIn[c] /\ overtaken'[c] = overtaken[c]
  BY DEF SignsIn, NewCookie, StayInv, BrowserInv, BrowserTypeOK
<1>2. \A t \in Tabs : answers'[t].kind = answers[t].kind /\ answers'[t].epoch = answers[t].epoch
  BY AnswersMarked
<1>3. \A c \in Browsers \ {b} : Stays(c)' => Stays(c)
  BY <1>1, <1>2 DEF Stays, Changing
<1>4. CookiesLast'
  BY <1>1, <1>3, Constants DEF StayInv, CookiesLast
<1>5. AnswersLast'
  BY <1>1, <1>2, <1>3, Constants DEF StayInv, AnswersLast
<1> QED BY <1>4, <1>5

LEMMA NobodySigned ==
    ASSUME \A b \in Browsers : ~Stays(b)', \A t \in Tabs : Here(t) \in Browsers
    PROVE  CookiesLast' /\ AnswersLast'
BY DEF CookiesLast, AnswersLast

\* An answer that is not there any more, or that does not work, leaves the others as they are.
LEMMA OthersLast ==
    ASSUME StayInv, NEW t \in Tabs, UNCHANGED <<epoch, cookie, quiet, signedIn, overtaken>>,
           answers[t].kind # "changed", answers'[t].kind \in {"none", "own"},
           \A u \in Tabs \ {t} : answers'[u] = answers[u]
    PROVE  CookiesLast' /\ AnswersLast'
<1>1. \A b \in Browsers : Stays(b)' => Stays(b)
  BY DEF Stays, Changing
<1>2. \A u \in Tabs : Stays(Here(u))' => Stays(Here(u))
  BY DEF Stays, Changing
<1> QED BY <1>1, <1>2 DEF StayInv, CookiesLast, AnswersLast

LEMMA RevokesLasts ==
    ASSUME BrowserSessionsAssumption, StayInv, Revokes
    PROVE  CookiesLast' /\ AnswersLast'
<1>1. CASE OfficeReads \/ NoticeReads \/ NoticeLost
  BY <1>1, LessSigned, Constants DEF OfficeReads, NoticeReads, NoticeLost, browserState
<1>2. CASE RevocationCommits \/ \E t \in Tabs : Moved(t)
  <2>1. \A b \in Browsers : ~Stays(b)'
    BY <1>2 DEF RevocationCommits, Moved, Stays
  <2> QED BY <2>1, NobodySigned, Constants
<1>3. ASSUME NEW t \in Tabs, OwnChangeReads(t) PROVE CookiesLast' /\ AnswersLast'
  <2>1. UNCHANGED <<epoch, cookie, quiet, signedIn, overtaken>> /\ answers[t].kind = "none"
    BY <1>3 DEF OwnChangeReads, browserState, Free
  <2>2. answers'[t].kind = "own" /\ \A u \in Tabs \ {t} : answers'[u] = answers[u]
    BY <1>3, OwnAnswer DEF OwnChangeReads
  <2> QED BY <2>1, <2>2, OthersLast
<1>4. ASSUME NEW t \in Tabs, OwnChangeFails(t) PROVE CookiesLast' /\ AnswersLast'
  <2>1. UNCHANGED <<epoch, cookie, quiet, signedIn, overtaken>> /\ answers[t].kind = "own"
    BY <1>4 DEF OwnChangeFails, browserState
  <2>2. answers'[t].kind = "none" /\ \A u \in Tabs \ {t} : answers'[u] = answers[u]
    BY <1>4, AnswerGone DEF OwnChangeFails
  <2> QED BY <2>1, <2>2, OthersLast
<1>6. ASSUME NEW t \in Tabs, PasswordChanged(t) PROVE CookiesLast' /\ AnswersLast'
  <2>1. \A b \in Browsers : signedIn'[b] => b = Here(t)
    BY <1>6 DEF PasswordChanged, Here
  <2>2. Changing(Here(t))'
    BY <1>6, ChangedAnswer DEF Changing, Here
  <2>3. \A b \in Browsers : ~Stays(b)'
    BY <2>1, <2>2 DEF Stays
  <2> QED BY <2>3, NobodySigned, Constants
<1> QED BY <1>1, <1>2, <1>3, <1>4, <1>6 DEF Revokes

LEMMA ServedLasts ==
    ASSUME BrowserSessionsAssumption, StayInv, NEW t \in Tabs, NEW heard \in BOOLEAN, Served(t, heard)
    PROVE  CookiesLast' /\ AnswersLast'
<1>1. UNCHANGED <<epoch, cookie, quiet, signedIn, overtaken>> /\ Valid(cookie[Here(t)])
  BY DEF Served, accountState, SignedInAt, Here
<1>2. /\ answers'[t].epoch = IF Renewed(cookie[Here(t)]) THEN epoch ELSE -1
      /\ answers'[t].kind = "work" /\ \A u \in Tabs \ {t} : answers'[u] = answers[u]
  BY WorkAnswer
<1>3. answers[t].kind = "none"
  BY DEF Served, Free
<1>4. /\ \A b \in Browsers : Stays(b)' => Stays(b)
      /\ \A u \in Tabs : Stays(Here(u))' => Stays(Here(u))
  BY <1>1, <1>2, <1>3 DEF Stays, Changing
<1>5. epoch \in Nat /\ (~Renewed(cookie[Here(t)]) => cookie[Here(t)].left > Half)
  BY Constants DEF Renewed, Half, StayInv, BrowserInv, BrowserTypeOK, Cookie
<1>6. CookiesLast'
  BY <1>1, <1>4 DEF StayInv, CookiesLast
<1>7. AnswersLast'
  BY <1>1, <1>2, <1>4, <1>5 DEF StayInv, AnswersLast, Valid
<1> QED BY <1>6, <1>7

LEMMA AnsweredLasts ==
    ASSUME BrowserSessionsAssumption, StayInv, NEW t \in Tabs, Answered(t)
    PROVE  CookiesLast' /\ AnswersLast'
<1> DEFINE b == Here(t)
<1>1. /\ UNCHANGED <<epoch, signedIn>> /\ answers[t].kind = "work" /\ b \in Browsers
      /\ quiet'[b] = 0
      /\ \A c \in Browsers \ {b} : cookie'[c] = cookie[c] /\ quiet'[c] = quiet[c]
                                  /\ overtaken'[c] = overtaken[c]
  BY Constants DEF Answered, accountState, Here, StayInv, BrowserInv, BrowserTypeOK
<1>2. /\ answers[t].epoch < 0 => cookie'[b] = cookie[b]
      /\ answers[t].epoch >= 0 => cookie'[b].epoch = answers[t].epoch /\ cookie'[b].left = IdleTime
  BY Constants DEF Answered, Here, StayInv, BrowserInv, BrowserTypeOK
<1>3. /\ answers'[t].kind = "none"
      /\ \A u \in Tabs \ {t} : answers'[u] = answers[u]
  BY AnswerGone DEF Answered
<1>4. epoch \in Nat /\ answers[t].epoch \in Int /\ answers[t].epoch >= -1
  BY Constants DEF StayInv, BrowserInv, BrowserTypeOK
<1>5. overtaken'[b] = (overtaken[b] \/ (answers[t].late /\ (answers[t].epoch >= 0 \/ answers[t].stamp)))
  BY <1>1 DEF Answered, Here, StayInv, BrowserInv, BrowserTypeOK
<1>6. \A c \in Browsers : Stays(c)' => Stays(c)
  <2>1. \A c \in Browsers : Changing(c) => Changing(c)'
    BY <1>1, <1>3 DEF Changing
  <2>2. \A c \in Browsers : ~overtaken'[c] => ~overtaken[c]
    BY <1>1, <1>5
  <2> QED BY <1>1, <2>1, <2>2 DEF Stays
<1>7. Stays(b)' => cookie'[b].epoch = epoch /\ cookie'[b].left > Half
  <2>1. SUFFICES ASSUME Stays(b)' PROVE cookie'[b].epoch = epoch /\ cookie'[b].left > Half
    OBVIOUS
  <2>2. CASE answers[t].epoch = -1
    <3>1. cookie'[b] = cookie[b]
      BY <1>2, <2>2
    <3>2. Stays(Here(t))
      BY <1>1, <1>6, <2>1
    <3>3. cookie[b].epoch = epoch /\ cookie[b].left > Half
      BY <1>1, <2>2, <3>2 DEF StayInv, AnswersLast
    <3> QED BY <3>1, <3>3
  <2>3. CASE answers[t].epoch # -1
    <3>1. answers[t].epoch >= 0
      BY <1>4, <2>3
    <3>2. ~answers[t].late /\ signedIn[b]
      BY <1>1, <1>5, <2>1, <3>1 DEF Stays
    <3>3. answers[t].epoch = epoch
      BY <1>1, <2>3, <3>2 DEF StayInv, AnswersFresh
    <3> QED BY <1>2, <3>1, <3>3, Constants
  <2> QED BY <2>2, <2>3
<1>8. CookiesLast'
  <2>1. cookie'[b].left \in Nat
    BY <1>1, <1>2, <1>4, Constants DEF StayInv, BrowserInv, BrowserTypeOK, Cookie
  <2>2. Stays(b)' => cookie'[b].left + quiet'[b] > Half
    BY <1>1, <1>7, <2>1, Constants
  <2> QED BY <1>1, <1>6, <1>7, <2>2 DEF StayInv, CookiesLast
<1>9. AnswersLast'
  BY <1>1, <1>3, <1>6, <1>7, Constants DEF StayInv, AnswersLast
<1> QED BY <1>8, <1>9

LEMMA OwnAnsweredLasts ==
    ASSUME BrowserSessionsAssumption, StayInv, NEW t \in Tabs, OwnChangeAnswered(t)
    PROVE  CookiesLast' /\ AnswersLast'
<1> DEFINE b == Here(t)
<1>1. /\ UNCHANGED <<epoch, signedIn>> /\ b \in Browsers /\ overtaken'[b] = answers[t].late
      /\ \A c \in Browsers \ {b} : cookie'[c] = cookie[c] /\ quiet'[c] = quiet[c]
                                  /\ overtaken'[c] = overtaken[c]
  BY Constants DEF OwnChangeAnswered, accountState, Here, StayInv, BrowserInv, BrowserTypeOK
<1>2. /\ answers'[t].kind = "none"
      /\ \A u \in Tabs \ {t} : answers'[u] = answers[u]
  BY AnswerGone DEF OwnChangeAnswered
<1>3. \A c \in Browsers \ {b} : Stays(c)' => Stays(c)
  BY <1>1, <1>2 DEF Stays, Changing, Here
<1>4. Stays(b)' => cookie'[b].epoch = epoch /\ cookie'[b].left = IdleTime /\ quiet'[b] = 0
  <2>1. SUFFICES ASSUME Stays(b)'
                 PROVE  cookie'[b].epoch = epoch /\ cookie'[b].left = IdleTime /\ quiet'[b] = 0
    OBVIOUS
  <2>2. ~answers[t].late /\ signedIn[Here(t)]
    BY <1>1, <2>1 DEF Stays
  <2>3. answers[t].kind # "moved" /\ (answers[t].kind = "changed" => answers[t].epoch = epoch)
    BY <2>2 DEF StayInv, AnswersFresh
  <2>4. /\ quiet' = [quiet EXCEPT ![b] = 0]
        /\ cookie' = [cookie EXCEPT ![b] =
                         [epoch |-> answers[t].epoch, left |-> IdleTime, born |-> answers[t].born]]
        /\ answers[t].kind = "changed"
    BY <2>3 DEF OwnChangeAnswered, Here
  <2> QED BY <1>1, <2>3, <2>4 DEF StayInv, BrowserInv, BrowserTypeOK
<1>5. CookiesLast'
  BY <1>1, <1>3, <1>4, Constants DEF StayInv, CookiesLast
<1>6. AnswersLast'
  BY <1>1, <1>2, <1>3, <1>4, Constants DEF StayInv, AnswersLast
<1> QED BY <1>5, <1>6

LEMMA TickLasts ==
    ASSUME BrowserSessionsAssumption, StayInv, Tick
    PROVE  CookiesLast' /\ AnswersLast'
<1>1. AnswersLast'
  BY DEF Tick, Free, AnswersLast
<1>2. ASSUME NEW b \in Browsers, Stays(b)
      PROVE  quiet'[b] > Half \/ (cookie'[b].epoch = epoch /\ cookie'[b].left + quiet'[b] > Half)
  <2>1. cookie[b] \in Cookie /\ cookie[b].left \in Nat /\ quiet[b] \in Nat /\ quiet[b] <= IdleTime
    BY Constants DEF StayInv, BrowserInv, BrowserTypeOK, Cookie
  <2>2. quiet'[b] = IF quiet[b] < IdleTime THEN quiet[b] + 1 ELSE IdleTime
    BY DEF Tick
  <2>3. quiet[b] > Half \/ (cookie[b].epoch = epoch /\ cookie[b].left + quiet[b] > Half)
    BY <1>2 DEF StayInv, CookiesLast
  <2>4. CASE quiet[b] > Half \/ cookie[b].left <= 1
    BY <2>1, <2>2, <2>3, <2>4, Constants
  <2>5. CASE cookie[b].left > 1 /\ quiet[b] <= Half
    <3>1. cookie'[b].epoch = cookie[b].epoch /\ cookie'[b].left = cookie[b].left - 1
      BY <2>1, <2>5 DEF Tick, Cookie
    <3> QED BY <2>1, <2>2, <2>3, <2>5, <3>1, Constants
  <2> QED BY <2>1, <2>4, <2>5, Constants
<1>3. UNCHANGED epoch /\ \A b \in Browsers : Stays(b)' => Stays(b)
  BY DEF Tick, accountState, Stays, Changing
<1> QED BY <1>1, <1>2, <1>3 DEF CookiesLast

LEMMA CookiesStep ==
    ASSUME BrowserSessionsAssumption, StayInv, BrowserNext
    PROVE  CookiesLast' /\ AnswersLast'
<1>1. ASSUME NEW t \in Tabs, Comes(t) PROVE CookiesLast' /\ AnswersLast'
  <2>1. CASE Away(t)
    <3>1. UNCHANGED <<epoch, quiet, answers, cookie, overtaken>>
      BY <2>1 DEF Away, accountState
    <3>2. \A b \in Browsers : signedIn'[b] => signedIn[b]
      BY <2>1 DEF Away, StayInv, BrowserInv, BrowserTypeOK
    <3> QED BY <3>1, <3>2, LessSigned, Constants
  <2>2. CASE Callback(t)
    BY <2>2, SignsInLasts, Constants DEF Callback, accountState
  <2>3. CASE CallbackLate(t) \/ CallbackRefused(t)
    BY <2>3, LessSigned, Constants DEF CallbackLate, CallbackRefused, accountState, browserState
  <2> QED BY <1>1, <2>1, <2>2, <2>3 DEF Comes
<1>2. ASSUME NEW b \in Browsers, Signs(b) PROVE CookiesLast' /\ AnswersLast'
  <2>1. CASE SignInHere(b) \/ TokenSignsIn(b)
    BY <2>1, SignsInLasts DEF SignInHere, TokenSignsIn, accountState
  <2>2. CASE LogOut(b) \/ KeycloakEnds(b)
    <3>1. UNCHANGED <<epoch, quiet, answers, overtaken>>
      BY <2>2 DEF LogOut, KeycloakEnds
    <3>2. \A c \in Browsers : signedIn'[c] => signedIn[c] /\ cookie'[c] = cookie[c]
      BY <2>2 DEF LogOut, KeycloakEnds, StayInv, BrowserInv, BrowserTypeOK
    <3> QED BY <3>1, <3>2, LessSigned, Constants
  <2> QED BY <1>2, <2>1, <2>2 DEF Signs
<1> QED BY <1>1, <1>2, RevokesLasts, ServedLasts, AnsweredLasts, OwnAnsweredLasts, TickLasts, Steps DEF Asks

\* Keycloak's session lives as long as the cookie.
Clocks == FreshIsAwake /\ AnswersAwake /\ OneClock

LEMMA LessClocked ==
    ASSUME StayInv, UNCHANGED <<sso, answers>>,
           \A b \in Browsers : Heard(b)' => Heard(b) /\ cookie'[b] = cookie[b] /\ awake'[b] = awake[b],
           \A t \in Tabs : Here(t) \in Browsers
    PROVE  Clocks'
<1>1. \A t \in Tabs : Heard(Here(t))' => Heard(Here(t)) /\ awake'[Here(t)] = awake[Here(t)]
  BY DEF Heard
<1>2. FreshIsAwake' /\ OneClock'
  BY DEF StayInv, FreshIsAwake, OneClock, Heard
<1>3. AnswersAwake'
  BY <1>1 DEF StayInv, AnswersAwake
<1> QED BY <1>2, <1>3 DEF Clocks

LEMMA SignsInClocked ==
    ASSUME BrowserSessionsAssumption, StayInv, NEW b \in Browsers, NEW state, SignsIn(b, state),
           \/ state = "none" /\ sso' = sso
           \/ sso' = [sso EXCEPT ![b] = IdleTime]
    PROVE  Clocks'
<1>1. /\ cookie'[b].left = IdleTime /\ awake'[b] = state /\ IdleTime \in Nat
      /\ state = "none" \/ sso'[b] = IdleTime
      /\ \A c \in Browsers \ {b} : /\ cookie'[c] = cookie[c] /\ awake'[c] = awake[c]
                                  /\ signedIn'[c] = signedIn[c] /\ unheard'[c] = unheard[c]
                                  /\ overtaken'[c] = overtaken[c] /\ sso'[c] = sso[c]
  BY Constants DEF SignsIn, NewCookie, StayInv, BrowserInv, BrowserTypeOK
<1>2. FreshIsAwake'
  BY <1>1 DEF StayInv, FreshIsAwake, Heard
<1>3. OneClock'
  BY <1>1 DEF StayInv, OneClock
<1>4. ASSUME NEW t \in Tabs, answers'[t].kind = "work", ~answers'[t].late
      PROVE  Here(t) # b /\ answers'[t] = answers[t]
  <2>1. answers'[t].kind = answers[t].kind
    BY AnswersMarked
  <2>2. ~Free(t)
    BY <1>4, <2>1 DEF Free
  <2> QED BY <1>4, <2>2, AnswersMarked
<1>5. AnswersAwake'
  <2>1. SUFFICES ASSUME NEW t \in Tabs, answers'[t].kind = "work", ~answers'[t].late, Heard(Here(t))'
                 PROVE  sso'[Here(t)] = IdleTime \/ (awake'[Here(t)] = "none" /\ ~answers'[t].stamp)
    BY DEF AnswersAwake
  <2>2. Here(t) \in Browsers \ {b} /\ answers'[t] = answers[t]
    BY <1>4, <2>1, Constants
  <2>3. Heard(Here(t))
    BY <1>1, <2>1, <2>2 DEF Heard
  <2> QED BY <1>1, <2>1, <2>2, <2>3 DEF StayInv, AnswersAwake
<1> QED BY <1>2, <1>3, <1>5 DEF Clocks

LEMMA OthersClocked ==
    ASSUME StayInv, NEW t \in Tabs, UNCHANGED <<sso, cookie, awake, signedIn, unheard, overtaken>>,
           answers'[t].kind \in {"none", "own"}, \A u \in Tabs \ {t} : answers'[u] = answers[u]
    PROVE  Clocks'
<1>1. AnswersAwake'
  BY DEF StayInv, AnswersAwake, Heard
<1> QED BY <1>1 DEF StayInv, FreshIsAwake, OneClock, Clocks, Heard

LEMMA RevokesClocked ==
    ASSUME BrowserSessionsAssumption, StayInv, Revokes
    PROVE  Clocks'
<1>1. CASE OfficeReads \/ NoticeReads \/ NoticeLost
  BY <1>1, LessClocked, Constants DEF OfficeReads, NoticeReads, NoticeLost, browserState, Heard
<1>2. CASE RevocationCommits \/ \E t \in Tabs : Moved(t)
  <2>1. \A b \in Browsers : ~signedIn'[b]
    BY <1>2 DEF RevocationCommits, Moved
  <2> QED BY <2>1, Constants DEF FreshIsAwake, AnswersAwake, OneClock, Clocks, Heard
<1>3. ASSUME NEW t \in Tabs, OwnChangeReads(t) PROVE Clocks'
  <2>1. UNCHANGED <<sso, cookie, awake, signedIn, unheard, overtaken>>
    BY <1>3 DEF OwnChangeReads, browserState
  <2>2. answers'[t].kind = "own" /\ \A u \in Tabs \ {t} : answers'[u] = answers[u]
    BY <1>3, OwnAnswer DEF OwnChangeReads
  <2> QED BY <2>1, <2>2, OthersClocked
<1>4. ASSUME NEW t \in Tabs, OwnChangeFails(t) PROVE Clocks'
  <2>1. UNCHANGED <<sso, cookie, awake, signedIn, unheard, overtaken>>
    BY <1>4 DEF OwnChangeFails, browserState
  <2>2. answers'[t].kind = "none" /\ \A u \in Tabs \ {t} : answers'[u] = answers[u]
    BY <1>4, AnswerGone DEF OwnChangeFails
  <2> QED BY <2>1, <2>2, OthersClocked
<1>5. ASSUME NEW t \in Tabs, PasswordChanged(t) PROVE Clocks'
  <2>1. local /\ UNCHANGED awake
    BY <1>5 DEF PasswordChanged, StayInv, OwnAlone
  <2>2. /\ \A b \in Browsers : awake'[b] = "none"
        /\ \A u \in Tabs : ~answers[u].stamp
    BY <2>1 DEF StayInv, LocalAsleep
  <2>3. \A u \in Tabs : ~answers'[u].stamp
    BY <1>5, <2>2, ChangedAnswer
  <2> QED BY <2>2, <2>3, Constants DEF FreshIsAwake, AnswersAwake, OneClock, Clocks
<1> QED BY <1>1, <1>2, <1>3, <1>4, <1>5 DEF Revokes

LEMMA ServedClocked ==
    ASSUME BrowserSessionsAssumption, StayInv, NEW t \in Tabs, NEW heard \in BOOLEAN, Served(t, heard)
    PROVE  Clocks'
<1> DEFINE b == Here(t)
<1>1. /\ UNCHANGED <<cookie, awake, signedIn, overtaken>> /\ b \in Browsers
      /\ sso'[b] = IF awake[b] = "due" /\ heard THEN IdleTime ELSE sso[b]
      /\ \A c \in Browsers \ {b} : sso'[c] = sso[c] /\ unheard'[c] = unheard[c]
      /\ awake[b] # "due" => heard
  BY Constants DEF Served, Refreshed, Here, StayInv, BrowserInv, BrowserTypeOK
<1>2. ~unheard'[b] => ~unheard[b] /\ heard
  BY <1>1 DEF Served, Here, StayInv, BrowserInv, BrowserTypeOK
<1>3. sso'[b] >= sso[b] /\ sso'[b] \in Nat /\ sso[b] \in Nat /\ sso[b] <= IdleTime
      /\ cookie[b].left \in Nat
  BY <1>1, Constants DEF StayInv, BrowserInv, BrowserTypeOK, Cookie
<1>h. /\ \A c \in Browsers : Heard(c)' => Heard(c)
      /\ \A u \in Tabs : Heard(Here(u))' => Heard(Here(u))
  BY <1>1, <1>2, Constants DEF Heard
<1>4. FreshIsAwake'
  BY <1>1, <1>h DEF StayInv, FreshIsAwake
<1>5. OneClock'
  BY <1>1, <1>2, <1>3 DEF StayInv, OneClock
<1>6. /\ answers'[t].stamp = (awake[b] = "due")
      /\ \A u \in Tabs \ {t} : answers'[u] = answers[u]
  BY WorkAnswer
<1>7. Heard(b)' => sso'[b] = IdleTime \/ awake[b] = "none"
  BY <1>1, <1>2, <1>h DEF StayInv, FreshIsAwake, BrowserInv, BrowserTypeOK, Heard
<1>8. \A u \in Tabs : sso[Here(u)] = IdleTime => sso'[Here(u)] = IdleTime
  BY <1>1, Constants
<1>9. AnswersAwake'
  BY <1>1, <1>h, <1>6, <1>7, <1>8, Constants DEF StayInv, AnswersAwake
<1> QED BY <1>4, <1>5, <1>9 DEF Clocks

LEMMA AnsweredClocked ==
    ASSUME BrowserSessionsAssumption, StayInv, NEW t \in Tabs, Answered(t)
    PROVE  Clocks'
<1> DEFINE b == Here(t)
<1>1. /\ UNCHANGED <<sso, signedIn, unheard>> /\ answers[t].kind = "work" /\ b \in Browsers
      /\ \A c \in Browsers \ {b} : /\ cookie'[c] = cookie[c] /\ awake'[c] = awake[c]
                                  /\ overtaken'[c] = overtaken[c]
      /\ awake'[b] = IF answers[t].stamp THEN "fresh" ELSE awake[b]
  BY Constants DEF Answered, Here, StayInv, BrowserInv, BrowserTypeOK
<1>2. /\ cookie'[b] = cookie[b] \/ (answers[t].epoch >= 0 /\ cookie'[b].left = IdleTime)
      /\ cookie[b].left \in Nat /\ cookie[b].left <= IdleTime
  BY Constants DEF Answered, Here, StayInv, BrowserInv, BrowserTypeOK, Cookie
<1>3. /\ answers'[t].kind = "none"
      /\ \A u \in Tabs \ {t} : answers'[u] = answers[u]
  BY AnswerGone DEF Answered
<1>o. overtaken'[b] = (overtaken[b] \/ (answers[t].late /\ (answers[t].epoch >= 0 \/ answers[t].stamp)))
  BY <1>1 DEF Answered, Here, StayInv, BrowserInv, BrowserTypeOK
<1>h. /\ \A c \in Browsers : Heard(c)' => Heard(c)
      /\ \A u \in Tabs : Heard(Here(u))' => Heard(Here(u))
  <2>1. \A c \in Browsers : ~overtaken'[c] => ~overtaken[c]
    BY <1>1, <1>o
  <2> QED BY <1>1, <2>1, Constants DEF Heard
<1>4. Heard(b)' /\ ~answers[t].late => sso[b] = IdleTime \/ (awake[b] = "none" /\ ~answers[t].stamp)
  BY <1>1, <1>h DEF StayInv, AnswersAwake
<1>l. Heard(b)' /\ answers[t].late => ~answers[t].stamp /\ cookie'[b] = cookie[b]
  BY <1>2, <1>o DEF Heard
<1>5. FreshIsAwake'
  BY <1>1, <1>4, <1>l, <1>h DEF StayInv, FreshIsAwake
<1>6. OneClock'
  <2>1. ASSUME Heard(b)', awake'[b] # "none" PROVE sso'[b] >= cookie'[b].left
    <3>1. CASE answers[t].late
      <4>1. awake'[b] = awake[b] /\ cookie'[b] = cookie[b]
        BY <1>1, <1>l, <2>1, <3>1
      <4> QED BY <1>1, <1>h, <2>1, <4>1 DEF StayInv, OneClock, Heard
    <3>2. CASE ~answers[t].late
      <4>1. sso[b] = IdleTime
        BY <1>1, <1>4, <2>1, <3>2
      <4> QED BY <1>1, <1>2, <4>1, Constants
    <3> QED BY <3>1, <3>2
  <2> QED BY <1>1, <2>1 DEF StayInv, OneClock, Heard
<1>7. AnswersAwake'
  <2>1. SUFFICES ASSUME NEW u \in Tabs, answers'[u].kind = "work", ~answers'[u].late, Heard(Here(u))'
                 PROVE  sso'[Here(u)] = IdleTime \/ (awake'[Here(u)] = "none" /\ ~answers'[u].stamp)
    BY DEF AnswersAwake
  <2>2. u # t /\ answers'[u] = answers[u] /\ Here(u) \in Browsers /\ Heard(Here(u))
    BY <1>3, <1>h, <2>1, Constants
  <2>3. sso[Here(u)] = IdleTime \/ (awake[Here(u)] = "none" /\ ~answers[u].stamp)
    BY <2>1, <2>2 DEF StayInv, AnswersAwake
  <2>4. CASE Here(u) = b
    BY <1>1, <1>4, <1>l, <2>1, <2>2, <2>3, <2>4
  <2>5. CASE Here(u) # b
    BY <1>1, <2>2, <2>3, <2>5
  <2> QED BY <2>4, <2>5
<1> QED BY <1>5, <1>6, <1>7 DEF Clocks

LEMMA OwnAnsweredClocked ==
    ASSUME BrowserSessionsAssumption, StayInv, NEW t \in Tabs, OwnChangeAnswered(t)
    PROVE  Clocks'
<1> DEFINE b == Here(t)
<1>1. /\ UNCHANGED <<sso, signedIn, unheard, local>> /\ b \in Browsers /\ overtaken'[b] = answers[t].late
      /\ \A c \in Browsers \ {b} : /\ cookie'[c] = cookie[c] /\ awake'[c] = awake[c]
                                  /\ overtaken'[c] = overtaken[c]
      /\ awake'[b] = awake[b] \/ awake'[b] = "none"
  BY Constants DEF OwnChangeAnswered, accountState, Here, StayInv, BrowserInv, BrowserTypeOK
<1>2. /\ answers'[t].kind = "none"
      /\ \A u \in Tabs \ {t} : answers'[u] = answers[u]
  BY AnswerGone DEF OwnChangeAnswered
<1>3. ASSUME Heard(b)' PROVE awake'[b] = "none" /\ \A u \in Tabs : ~answers[u].stamp
  <2>1. ~answers[t].late /\ signedIn[Here(t)]
    BY <1>1, <1>3 DEF Heard
  <2>2. answers[t].kind = "changed"
    BY <2>1 DEF OwnChangeAnswered, StayInv, AnswersFresh
  <2>3. local
    BY <2>1, <2>2 DEF StayInv, AnswersFresh
  <2> QED BY <1>1, <2>3 DEF StayInv, LocalAsleep
<1>4. \A c \in Browsers \ {b} : Heard(c)' => Heard(c)
  BY <1>1 DEF Heard
<1>5. FreshIsAwake'
  BY <1>1, <1>3, <1>4 DEF StayInv, FreshIsAwake
<1>6. OneClock'
  BY <1>1, <1>3 DEF StayInv, OneClock, Heard
<1>7. AnswersAwake'
  <2>1. SUFFICES ASSUME NEW u \in Tabs, answers'[u].kind = "work", ~answers'[u].late, Heard(Here(u))'
                 PROVE  sso'[Here(u)] = IdleTime \/ (awake'[Here(u)] = "none" /\ ~answers'[u].stamp)
    BY DEF AnswersAwake
  <2>2. u # t /\ answers'[u] = answers[u] /\ Here(u) \in Browsers
    BY <1>2, <2>1, Constants
  <2>3. CASE Here(u) = b
    BY <1>3, <2>1, <2>2, <2>3
  <2>4. CASE Here(u) # b
    BY <1>1, <1>4, <2>1, <2>2, <2>4 DEF StayInv, AnswersAwake
  <2> QED BY <2>3, <2>4
<1> QED BY <1>5, <1>6, <1>7 DEF Clocks

LEMMA TickClocked ==
    ASSUME BrowserSessionsAssumption, StayInv, Tick
    PROVE  Clocks'
<1>1. AnswersAwake'
  BY DEF Tick, Free, AnswersAwake
<1>2. UNCHANGED <<signedIn, unheard, overtaken>> /\ \A b \in Browsers :
        awake'[b] # "fresh" /\ (awake'[b] = "none" <=> awake[b] = "none")
  BY DEF Tick
<1>3. FreshIsAwake'
  BY <1>2 DEF FreshIsAwake
<1>4. ASSUME NEW b \in Browsers, sso[b] >= cookie[b].left PROVE sso'[b] >= cookie'[b].left
  <2>1. cookie[b] \in Cookie /\ cookie[b].left \in Nat /\ sso[b] \in Nat
    BY Constants DEF StayInv, BrowserInv, BrowserTypeOK, Cookie
  <2>2. cookie'[b].left = IF cookie[b].left <= 1 THEN 0 ELSE cookie[b].left - 1
    BY <2>1 DEF Tick, NoCookie, Cookie
  <2>3. sso'[b] = IF sso[b] > 0 THEN sso[b] - 1 ELSE 0
    BY DEF Tick, Less
  <2> QED BY <1>4, <2>1, <2>2, <2>3
<1>5. OneClock'
  BY <1>2, <1>4 DEF StayInv, OneClock
<1> QED BY <1>1, <1>3, <1>5 DEF Clocks

LEMMA ClocksStep ==
    ASSUME BrowserSessionsAssumption, StayInv, BrowserNext
    PROVE  Clocks'
<1>1. ASSUME NEW t \in Tabs, Comes(t) PROVE Clocks'
  <2>1. CASE Away(t)
    <3>1. UNCHANGED <<sso, answers, cookie, awake, unheard, overtaken>>
      BY <2>1 DEF Away
    <3>2. \A b \in Browsers : signedIn'[b] => signedIn[b]
      BY <2>1 DEF Away, StayInv, BrowserInv, BrowserTypeOK
    <3> QED BY <3>1, <3>2, LessClocked, Constants DEF Heard
  <2>2. CASE Callback(t)
    BY <2>2, SignsInClocked, Constants DEF Callback
  <2>3. CASE CallbackLate(t) \/ CallbackRefused(t)
    BY <2>3, LessClocked, Constants DEF CallbackLate, CallbackRefused, browserState, Heard
  <2> QED BY <1>1, <2>1, <2>2, <2>3 DEF Comes
<1>2. ASSUME NEW b \in Browsers, Signs(b) PROVE Clocks'
  <2>1. CASE SignInHere(b) \/ TokenSignsIn(b)
    BY <2>1, SignsInClocked DEF SignInHere, TokenSignsIn
  <2>2. CASE LogOut(b) \/ KeycloakEnds(b)
    <3>1. /\ UNCHANGED <<unheard, overtaken, answers>> /\ ~signedIn'[b]
          /\ \A c \in Browsers \ {b} : /\ signedIn'[c] = signedIn[c] /\ cookie'[c] = cookie[c]
                                      /\ awake'[c] = awake[c] /\ sso'[c] = sso[c]
      BY <2>2 DEF LogOut, KeycloakEnds, StayInv, BrowserInv, BrowserTypeOK
    <3> QED BY <3>1, Constants DEF StayInv, FreshIsAwake, AnswersAwake, OneClock, Clocks, Heard
  <2> QED BY <1>2, <2>1, <2>2 DEF Signs
<1> QED BY <1>1, <1>2, RevokesClocked, ServedClocked, AnsweredClocked, OwnAnsweredClocked, TickClocked,
        Steps DEF Asks

LEMMA StepStays ==
    ASSUME BrowserSessionsAssumption, StayInv, [BrowserNext]_sessionVars
    PROVE  StayInv'
<1>1. BrowserInv'
  BY StepBrowserTypes DEF StayInv
<1>2. CASE UNCHANGED sessionVars
  BY <1>1, <1>2 DEF sessionVars, accountState, browserState, StayInv, OwnAlone, LocalAsleep, AnswersFresh,
     Stays, Changing, Heard, CookiesLast, AnswersLast, FreshIsAwake, AnswersAwake, OneClock, NotesLast, TabsDontDisturb
<1>3. CASE BrowserNext
  BY <1>1, <1>3, OwnStep, FreshStep, CookiesStep, ClocksStep, TabsStep DEF StayInv, Clocks
<1> QED BY <1>2, <1>3

LEMMA InitStays ==
    ASSUME BrowserSessionsAssumption, BrowserInit
    PROVE  StayInv
<1>1. BrowserInv
  BY InitBrowserTypes
<1>2. \A t \in Tabs : Here(t) \in Browsers
  BY Constants
<1>3. NotesLast /\ TabsDontDisturb
  BY DEF BrowserInit, InOTA, NotesLast, TabsDontDisturb
<1>4. OwnAlone /\ LocalAsleep
  BY DEF BrowserInit, NoAnswer, OwnAlone, LocalAsleep
<1>5. \A b \in Browsers : ~signedIn[b]
  BY DEF BrowserInit
<1> QED BY <1>1, <1>2, <1>3, <1>4, <1>5
        DEF StayInv, AnswersFresh, Stays, Heard, CookiesLast, AnswersLast, FreshIsAwake, AnswersAwake, OneClock

LEMMA WorkingStays ==
    ASSUME BrowserSessionsAssumption, StayInv
    PROVE  WorkingUserStays
BY Constants DEF StayInv, CookiesLast, Stays, WorkingUserStays, SignedInAt, Valid, Half, BrowserInv,
   BrowserTypeOK, Cookie

-----------------------------------------------------------------------------
(* BrowserSessions: a revocation ends what there is.                           *)

\* A new cookie or answer is of the epoch and of the number of revocations it was made in.
LEMMA CookiesAgree ==
    ASSUME EpochsAgree, UNCHANGED <<epoch, revoked, changes>>,
           \A b \in Browsers : cookie'[b].epoch >= 0 => cookie'[b].born = cookie'[b].epoch,
           \A t \in Tabs : answers'[t].epoch >= 0 => answers'[t].born = answers'[t].epoch
    PROVE  EpochsAgree'
BY DEF EpochsAgree

LEMMA ReadsAgrees ==
    ASSUME ~Overlap, StayInv, EpochsAgree, NEW c \in Sources, Reads(c),
           UNCHANGED <<epoch, revoked, cookie>>,
           \A t \in Tabs : answers'[t].epoch >= 0 => answers'[t].born = answers'[t].epoch
    PROVE  EpochsAgree'
<1>1. \A d \in Sources : changes'[d] = IF d = c THEN epoch ELSE -1
  BY DEF Reads, NoneUnderWay, StayInv, BrowserInv, BrowserTypeOK
<1> QED BY <1>1 DEF EpochsAgree

LEMMA CommitsAgrees ==
    ASSUME BrowserSessionsAssumption, StayInv, EpochsAgree, NEW c \in Sources, Commits(c),
           \A b \in Browsers : cookie'[b].epoch >= 0 => cookie'[b].born = cookie'[b].epoch,
           \A t \in Tabs : answers'[t].epoch >= 0 => answers'[t].born = answers'[t].epoch
    PROVE  EpochsAgree'
<1>1. /\ changes'[c] = -1 /\ \A d \in Sources \ {c} : changes'[d] = changes[d]
      /\ epoch' = changes[c] + 1 /\ revoked' = revoked + 1
  BY CommitsCounts DEF StayInv
<1>2. changes[c] >= 0
  BY DEF Commits
<1> QED BY <1>1, <1>2 DEF EpochsAgree

LEMMA StepAgrees ==
    ASSUME BrowserSessionsAssumption, ~Overlap, StayInv, EpochsAgree, [BrowserNext]_sessionVars
    PROVE  EpochsAgree'
<1> DEFINE CookiesFit == \A b \in Browsers : cookie[b].epoch >= 0 => cookie[b].born = cookie[b].epoch
           AnswersFit == \A t \in Tabs : answers[t].epoch >= 0 => answers[t].born = answers[t].epoch
<1>0. CookiesFit /\ AnswersFit /\ NoCookie.epoch = -1 /\ {"own", "office", "keycloak"} = Sources
  BY DEF EpochsAgree, NoCookie, Sources
<1>1. CASE UNCHANGED sessionVars
  BY <1>0, <1>1, CookiesAgree DEF sessionVars, accountState, browserState
<1>2. CASE OfficeReads \/ NoticeReads
  BY <1>0, <1>2, ReadsAgrees DEF OfficeReads, NoticeReads, browserState
<1>3. CASE NoticeLost
  BY <1>0, <1>3, CookiesAgree DEF NoticeLost, browserState
<1>4. CASE RevocationCommits
  BY <1>0, <1>4, CommitsAgrees DEF RevocationCommits
<1>5. ASSUME NEW t \in Tabs, OwnChangeReads(t) PROVE EpochsAgree'
  <2>1. AnswersFit'
    <3>1. answers'[t].epoch = -1 /\ \A u \in Tabs \ {t} : answers'[u] = answers[u]
      BY <1>5, OwnAnswer DEF OwnChangeReads
    <3> QED BY <1>0, <3>1
  <2> QED BY <1>0, <1>5, <2>1, ReadsAgrees DEF OwnChangeReads, browserState
<1>6. ASSUME NEW t \in Tabs, PasswordChanged(t) PROVE EpochsAgree'
  <2>1. epoch' = revoked' /\ UNCHANGED cookie
    BY <1>0, <1>6 DEF PasswordChanged, Commits, Raised, EpochsAgree
  <2>2. AnswersFit'
    BY <1>0, <1>6, <2>1, ChangedAnswer
  <2> QED BY <1>0, <1>6, <2>1, <2>2, CommitsAgrees DEF PasswordChanged
<1>7. ASSUME NEW t \in Tabs, Moved(t) PROVE EpochsAgree'
  <2>1. AnswersFit'
    BY <1>0, <1>7, MovedAnswer
  <2> QED BY <1>0, <1>7, <2>1, CommitsAgrees DEF Moved
<1>8. ASSUME NEW t \in Tabs, OwnChangeFails(t) PROVE EpochsAgree'
  <2>1. AnswersFit'
    <3>1. answers'[t].epoch = -1 /\ \A u \in Tabs \ {t} : answers'[u] = answers[u]
      BY <1>8, AnswerGone DEF OwnChangeFails
    <3> QED BY <1>0, <3>1
  <2>2. \A c \in Sources : changes'[c] = changes[c] \/ changes'[c] = -1
    BY <1>8 DEF OwnChangeFails, StayInv, BrowserInv, BrowserTypeOK
  <2> QED BY <1>8, <2>1, <2>2 DEF OwnChangeFails, browserState, EpochsAgree
<1>9. ASSUME NEW t \in Tabs, NEW heard \in BOOLEAN, Served(t, heard) PROVE EpochsAgree'
  <2>1. AnswersFit'
    BY <1>0, <1>9, WorkAnswer DEF EpochsAgree
  <2> QED BY <1>0, <1>9, <2>1, CookiesAgree DEF Served, accountState
<1>10. ASSUME NEW t \in Tabs, Answered(t) PROVE EpochsAgree'
  <2>1. AnswersFit'
    <3>1. answers'[t].epoch = -1 /\ \A u \in Tabs \ {t} : answers'[u] = answers[u]
      BY <1>10, AnswerGone DEF Answered
    <3> QED BY <1>0, <3>1
  <2>2. CookiesFit'
    BY <1>0, <1>10, Constants DEF Answered, Here, StayInv, BrowserInv, BrowserTypeOK
  <2> QED BY <1>10, <2>1, <2>2, CookiesAgree DEF Answered, accountState
<1>o. ASSUME NEW t \in Tabs, OwnChangeAnswered(t) PROVE EpochsAgree'
  <2>1. AnswersFit'
    <3>1. answers'[t].epoch = -1 /\ \A u \in Tabs \ {t} : answers'[u] = answers[u]
      BY <1>o, AnswerGone DEF OwnChangeAnswered
    <3> QED BY <1>0, <3>1
  <2>2. CookiesFit'
    <3>1. PICK c : /\ c.epoch >= 0 => c.born = c.epoch
                   /\ cookie' = [cookie EXCEPT ![BrowserOf(t)] = c]
      <4>1. CASE answers[t].kind = "changed"
        <5>1. PICK c : c = [epoch |-> answers[t].epoch, left |-> IdleTime, born |-> answers[t].born]
          OBVIOUS
        <5>2. cookie' = [cookie EXCEPT ![BrowserOf(t)] = c]
          BY <1>o, <4>1, <5>1 DEF OwnChangeAnswered
        <5>3. c.epoch >= 0 => c.born = c.epoch
          BY <1>0, <5>1
        <5> QED BY <5>2, <5>3
      <4>2. CASE answers[t].kind # "changed"
        BY <1>0, <1>o, <4>2 DEF OwnChangeAnswered
      <4> QED BY <4>1, <4>2
    <3> QED BY <1>0, <3>1 DEF StayInv, BrowserInv, BrowserTypeOK
  <2> QED BY <1>o, <2>1, <2>2, CookiesAgree DEF OwnChangeAnswered, accountState
<1>11. ASSUME NEW b \in Browsers, NEW state, SignsIn(b, state), UNCHANGED accountState
       PROVE  EpochsAgree'
  <2>1. CookiesFit'
    BY <1>0, <1>11 DEF SignsIn, NewCookie, EpochsAgree, StayInv, BrowserInv, BrowserTypeOK
  <2>2. AnswersFit'
    BY <1>0, <1>11, AnswersMarked
  <2> QED BY <1>11, <2>1, <2>2, CookiesAgree DEF accountState
<1>12. ASSUME NEW t \in Tabs, Comes(t) PROVE EpochsAgree'
  <2>1. CASE Away(t) \/ CallbackLate(t) \/ CallbackRefused(t)
    BY <1>0, <2>1, CookiesAgree DEF Away, CallbackLate, CallbackRefused, accountState, browserState
  <2>2. CASE Callback(t)
    BY <1>11, <2>2, Constants DEF Callback
  <2> QED BY <1>12, <2>1, <2>2 DEF Comes
<1>13. ASSUME NEW b \in Browsers, Signs(b) PROVE EpochsAgree'
  <2>1. CASE SignInHere(b) \/ TokenSignsIn(b)
    BY <1>11, <2>1 DEF SignInHere, TokenSignsIn
  <2>2. CASE LogOut(b)
    <3>1. CookiesFit'
      BY <1>0, <2>2 DEF LogOut, StayInv, BrowserInv, BrowserTypeOK
    <3> QED BY <1>0, <2>2, <3>1, CookiesAgree DEF LogOut
  <2>3. CASE KeycloakEnds(b)
    BY <1>0, <2>3, CookiesAgree DEF KeycloakEnds
  <2> QED BY <1>13, <2>1, <2>2, <2>3 DEF Signs
<1>14. CASE Tick
  <2>1. ASSUME NEW b \in Browsers
        PROVE  \/ cookie'[b] = NoCookie
               \/ cookie'[b].epoch = cookie[b].epoch /\ cookie'[b].born = cookie[b].born
    <3>1. cookie[b] \in Cookie
      BY DEF StayInv, BrowserInv, BrowserTypeOK
    <3>2. CASE cookie[b].left <= 1
      BY <1>14, <3>2 DEF Tick
    <3>3. CASE ~(cookie[b].left <= 1)
      BY <1>14, <3>1, <3>3 DEF Tick, Cookie
    <3> QED BY <3>2, <3>3
  <2>2. CookiesFit'
    BY <1>0, <2>1
  <2> QED BY <1>0, <1>14, <2>2, CookiesAgree DEF Tick, accountState
<1>15. CASE Revokes
  BY <1>2, <1>3, <1>4, <1>5, <1>6, <1>7, <1>8, <1>15 DEF Revokes
<1> QED BY <1>1, <1>9, <1>10, <1>o, <1>12, <1>13, <1>14, <1>15, Steps DEF Asks

-----------------------------------------------------------------------------
(* BrowserSessions: the theorems.                                              *)

\* Cookies, answers on their way, notes and the account have their types.
THEOREM BrowserTypesHold ==
    ASSUME BrowserSessionsAssumption PROVE BrowserSpec => []BrowserTypeOK
<1>1. BrowserInit => BrowserInv
  BY InitBrowserTypes
<1>2. BrowserInv /\ [BrowserNext]_sessionVars => BrowserInv'
  BY StepBrowserTypes
<1>3. BrowserInv => BrowserTypeOK
  BY DEF BrowserInv
<1> QED BY <1>1, <1>2, <1>3, PTL DEF BrowserSpec

\* Who works stays signed in, also whoever changes the own password while other tabs are asking,
\* Keycloak knows whom OTA knows, and tabs leave each other alone (_renew, change_password,
\* _keycloak_wach, oidc_callback), also while revocations overlap; an answer that comes in after
\* the newer cookie it was older than is the one exception, and it lasts until the next sign-in.
THEOREM WhoWorksStays ==
    ASSUME BrowserSessionsAssumption
    PROVE  BrowserSpec => [](WorkingUserStays /\ OneClock /\ TabsDontDisturb)
<1>1. BrowserInit => StayInv
  BY InitStays
<1>2. StayInv /\ [BrowserNext]_sessionVars => StayInv'
  BY StepStays
<1>3. StayInv => WorkingUserStays /\ OneClock /\ TabsDontDisturb
  BY WorkingStays DEF StayInv
<1> QED BY <1>1, <1>2, <1>3, PTL DEF BrowserSpec

\* A revocation ends every sign-in there is, whatever answers are on their way, and nothing else ends
\* one but an answer older than the cookie it replaces (current_user, authz, the revocations of
\* admin.py, auth.py and internal.py), if revocations of one account do not overlap.
THEOREM SignInsEndAndHold ==
    ASSUME BrowserSessionsAssumption, ~Overlap
    PROVE  BrowserSpec => []SignInsHold
<1>1. BrowserInit => StayInv /\ EpochsAgree
  <2>1. SUFFICES ASSUME BrowserInit PROVE EpochsAgree
    BY InitStays
  <2> QED BY <2>1 DEF BrowserInit, EpochsAgree, NoCookie, NoAnswer
<1>2. StayInv /\ EpochsAgree /\ [BrowserNext]_sessionVars => StayInv' /\ EpochsAgree'
  BY StepStays, StepAgrees
<1>3. StayInv /\ EpochsAgree => SignInsHold
  <2>1. SUFFICES ASSUME StayInv, EpochsAgree PROVE EndsAll
    BY WorkingStays DEF StayInv, SignInsHold
  <2> QED BY <2>1 DEF EndsAll, SignedInAt, Valid, EpochsAgree, StayInv, BrowserInv, BrowserTypeOK
<1> QED BY <1>1, <1>2, <1>3, PTL DEF BrowserSpec

-----------------------------------------------------------------------------
(* LocalLogin: the types.                                                      *)

InFlight(s) == {r \in Requests : requests[r].pc = "login" /\ requests[r].sender = s}
Room == BrakeAfter + 1 + Cardinality(Requests)

\* The brake counts no more than it lets pass, and the requests that are past it already.
LoginRoom ==
    /\ \A s \in Senders : brake[s].left > 0 => brake[s].count + Cardinality(InFlight(s)) <= Room
    /\ \A r \in Requests : requests[r].pc = "login" => requests[r].sender \in Senders

LoginInv == LoginTypeOK /\ LoginRoom

Brakes == [count : 0 .. BrakeAfter + Cardinality(Requests) + 1, left : 0 .. BrakeTime]
Request == [pc : {"idle", "login", "renew", "disable"}, row : Account,
            sender : Senders \cup {NoSender}, input : Input]

LEMMA LoginConstants ==
    ASSUME LocalLoginAssumption
    PROVE  /\ LockAfter \in Nat \ {0} /\ LockTime \in Nat \ {0} /\ BrakeAfter \in Nat \ {0}
           /\ BrakeTime \in Nat \ {0} /\ Patience \in Nat /\ NoSender \notin Senders
           /\ IsFiniteSet(Requests) /\ Cardinality(Requests) \in Nat
           /\ Room \in Nat /\ Room = BrakeAfter + Cardinality(Requests) + 1
           /\ OneAtATime \in BOOLEAN
<1>1. Cardinality(Requests) \in Nat
  BY FS_CardinalityType DEF LocalLoginAssumption
<1> QED BY <1>1 DEF LocalLoginAssumption, Room

LEMMA FlightsCount ==
    ASSUME LocalLoginAssumption, NEW s
    PROVE  /\ IsFiniteSet(InFlight(s)) /\ Cardinality(InFlight(s)) \in Nat
           /\ Cardinality(InFlight(s)) <= Cardinality(Requests)
BY FS_Subset, FS_CardinalityType, LoginConstants DEF InFlight

LEMMA WrittenIs ==
    ASSUME account \in Account, NEW record \in Account, NEW seen \in Account, account' = Written(record, seen)
    PROVE  /\ account' \in Account
           /\ account'.failed = IF record.failed = seen.failed THEN account.failed ELSE record.failed
           /\ account'.from = IF record.from = seen.from THEN account.from ELSE record.from
           /\ account'.lock = IF record.lock = seen.lock THEN account.lock ELSE record.lock
BY DEF Account, Written

LEMMA TidyIs ==
    ASSUME LocalLoginAssumption, LoginTypeOK
    PROVE  /\ Tidy \in [Senders -> Brakes]
           /\ \A u \in Senders : Tidy[u] = brake[u] \/ (Tidy[u].count = 0 /\ Tidy[u].left = 0)
<1>1. [count |-> 0, left |-> 0] \in Brakes
  BY LoginConstants DEF Brakes
<1> QED BY <1>1 DEF Tidy, LoginTypeOK, Brakes

\* A mistake of a sender leaves every other entry as it was, or empty.
LEMMA CountedIs ==
    ASSUME LocalLoginAssumption, LoginTypeOK, NEW s \in Senders, Counted(s),
           brake[s].left > 0 => brake[s].count + 1 <= Room
    PROVE  /\ brake' \in [Senders -> Brakes]
           /\ \A u \in Senders :
                 \/ brake'[u] = brake[u]
                 \/ brake'[u].left = 0
                 \/ u = s /\ (brake'[u].count = 1 \/
                             (brake[u].left > 0 /\ brake'[u].count = brake[u].count + 1))
<1>1. CASE Full
  BY <1>1, TidyIs DEF Counted
<1>2. CASE ~Full
  <2> DEFINE new == [count |-> (IF Tidy[s].left = 0 THEN 0 ELSE Tidy[s].count) + 1, left |-> BrakeTime]
  <2>1. brake' = [Tidy EXCEPT ![s] = new]
    BY <1>2 DEF Counted
  <2>2. Tidy[s] \in Brakes /\ brake[s] \in Brakes
    BY TidyIs DEF LoginTypeOK, Brakes
  <2>3. new.count = 1 \/ (brake[s].left > 0 /\ new.count = brake[s].count + 1)
    BY <2>2, TidyIs, LoginConstants DEF Brakes
  <2>4. new.count \in 0 .. Room /\ new.left \in 0 .. BrakeTime
    BY <2>2, <2>3, LoginConstants DEF Brakes
  <2>5. new \in Brakes
    BY <2>4, LoginConstants DEF Brakes
  <2> HIDE DEF new
  <2> QED BY <2>1, <2>3, <2>5, TidyIs
<1> QED BY <1>1, <1>2

LEMMA AccountChanges ==
    ASSUME LocalLoginAssumption, NEW a \in Account
    PROVE  /\ \A s \in Senders : [a EXCEPT !.from = s, !.failed = 0, !.lock = 0] \in Account
           /\ [a EXCEPT !.failed = 0, !.lock = LockTime] \in Account
           /\ ~(a.failed + 1 >= LockAfter) => [a EXCEPT !.failed = @ + 1] \in Account
           /\ \A c \in SUBSET Codes :
                  [a EXCEPT !.failed = 0, !.lock = 0, !.from = NoSender, !.codes = c] \in Account
           /\ [a EXCEPT !.lock = IF @ > 0 THEN @ - 1 ELSE 0] \in Account
<1>1. 0 \in 0 .. LockAfter - 1 /\ 0 \in 0 .. LockTime /\ LockTime \in 0 .. LockTime
  BY LoginConstants
<1>2. ~(a.failed + 1 >= LockAfter) => a.failed + 1 \in 0 .. LockAfter - 1
  BY LoginConstants DEF Account
<1>3. (IF a.lock > 0 THEN a.lock - 1 ELSE 0) \in 0 .. LockTime
  BY LoginConstants DEF Account
<1> QED BY <1>1, <1>2, <1>3 DEF Account

LEMMA ErrsTypes ==
    ASSUME LocalLoginAssumption, LoginTypeOK, NEW s \in Senders, Errs(s)
    PROVE  mistakes' \in [Senders -> 0 .. Patience]
BY LoginConstants DEF Errs, LoginTypeOK

LEMMA RequestMoves ==
    ASSUME LoginTypeOK, NEW r \in Requests, NEW q \in Request, requests' = [requests EXCEPT ![r] = q]
    PROVE  /\ requests' \in [Requests -> Request] /\ requests'[r] = q
           /\ \A o \in Requests \ {r} : requests'[o] = requests[o]
BY DEF LoginTypeOK, Request

LEMMA Fresh ==
    ASSUME LocalLoginAssumption
    PROVE  FreshAccount \in Account /\ NoRequest \in Request
<1>1. FreshAccount \in Account
  BY LoginConstants DEF FreshAccount, Account
<1> QED BY <1>1 DEF NoRequest, Request, Input

\* A request that ends is one less that is past the brake.
LEMMA EndsLeaves ==
    ASSUME LocalLoginAssumption, LoginInv, NEW r \in Requests, Ends(r)
    PROVE  /\ requests' \in [Requests -> Request] /\ requests'[r].pc = "idle"
           /\ \A o \in Requests \ {r} : requests'[o] = requests[o]
           /\ \A s : InFlight(s)' = InFlight(s) \ {r}
<1>1. /\ requests' \in [Requests -> Request] /\ requests'[r] = NoRequest
      /\ \A o \in Requests \ {r} : requests'[o] = requests[o]
  BY RequestMoves, Fresh DEF Ends, LoginInv
<1>2. requests'[r].pc = "idle"
  <2>1. NoRequest.pc = "idle"
    BY DEF NoRequest
  <2> QED BY <1>1, <2>1
<1>3. \A s : InFlight(s)' = InFlight(s) \ {r}
  BY <1>1, <1>2 DEF InFlight
<1> QED BY <1>1, <1>2, <1>3

LEMMA EndsRoom ==
    ASSUME LocalLoginAssumption, LoginInv, NEW r \in Requests, Ends(r), UNCHANGED brake
    PROVE  LoginRoom'
<1>1. ASSUME NEW s \in Senders, brake[s].left > 0
      PROVE  brake[s].count + Cardinality(InFlight(s)') <= Room
  <2>1. Cardinality(InFlight(s)') <= Cardinality(InFlight(s)) /\ Cardinality(InFlight(s)') \in Nat
    BY EndsLeaves, FlightsCount, FS_Subset, FS_CardinalityType
  <2>2. brake[s].count + Cardinality(InFlight(s)) <= Room /\ brake[s].count \in Nat
    BY <1>1 DEF LoginInv, LoginRoom, LoginTypeOK
  <2> QED BY <2>1, <2>2, FlightsCount, LoginConstants
<1> QED BY <1>1, EndsLeaves DEF LoginRoom, LoginInv

LEMMA LoginReadsTypes ==
    ASSUME LocalLoginAssumption, LoginInv, NEW r \in Requests, NEW s \in Senders, NEW i \in Input,
           LoginReads(r, s, i)
    PROVE  LoginInv'
<1> DEFINE q == [pc |-> "login", sender |-> s, row |-> account, input |-> i]
<1>1. q \in Request /\ q.pc = "login" /\ q.sender = s
  BY DEF LoginInv, LoginTypeOK, Request
<1>2. requests' = [requests EXCEPT ![r] = q] /\ UNCHANGED <<account, brake, mistakes>> /\ ~Braked(s)
  BY DEF LoginReads
<1> HIDE DEF q
<1>3. /\ requests' \in [Requests -> Request] /\ requests'[r] = q
      /\ \A o \in Requests \ {r} : requests'[o] = requests[o]
  BY <1>1, <1>2, RequestMoves DEF LoginInv
<1>4. ASSUME NEW u \in Senders, brake[u].left > 0
      PROVE  brake[u].count + Cardinality(InFlight(u)') <= Room
  <2>1. CASE u = s
    <3>1. brake[s].count <= BrakeAfter /\ brake[s].count \in Nat
      BY <1>2, <1>4, <2>1, LoginConstants DEF Braked, LoginInv, LoginTypeOK
    <3>2. Cardinality(InFlight(s)') <= Cardinality(Requests) /\ Cardinality(InFlight(s)') \in Nat
      BY FS_Subset, FS_CardinalityType, LoginConstants DEF InFlight
    <3> QED BY <2>1, <3>1, <3>2, LoginConstants
  <2>2. CASE u # s
    <3>1. InFlight(u)' \subseteq InFlight(u)
      BY <1>1, <1>3, <2>2 DEF InFlight
    <3>2. Cardinality(InFlight(u)') <= Cardinality(InFlight(u)) /\ Cardinality(InFlight(u)') \in Nat
      BY <3>1, FlightsCount, FS_Subset, FS_CardinalityType
    <3>3. brake[u].count + Cardinality(InFlight(u)) <= Room /\ brake[u].count \in Nat
      BY <1>4 DEF LoginInv, LoginRoom, LoginTypeOK
    <3> QED BY <3>2, <3>3, FlightsCount, LoginConstants
  <2> QED BY <2>1, <2>2
<1>5. LoginRoom'
  BY <1>1, <1>2, <1>3, <1>4 DEF LoginRoom, LoginInv
<1> QED BY <1>2, <1>3, <1>5 DEF LoginInv, LoginTypeOK, Request

LEMMA MistakeRoom ==
    ASSUME LocalLoginAssumption, LoginInv, NEW s \in Senders, Counted(s),
           brake[s].left > 0 => brake[s].count + 1 <= Room,
           \A u \in Senders : InFlight(u)' \subseteq InFlight(u),
           brake[s].left > 0 => brake[s].count + 1 + Cardinality(InFlight(s)') <= Room,
           \A r \in Requests : requests'[r].pc = "login" => requests'[r].sender \in Senders
    PROVE  LoginRoom'
<1>1. ASSUME NEW u \in Senders, brake'[u].left > 0
      PROVE  brake'[u].count + Cardinality(InFlight(u)') <= Room
  <2>1. /\ Cardinality(InFlight(u)') <= Cardinality(InFlight(u)) /\ Cardinality(InFlight(u)') \in Nat
        /\ Cardinality(InFlight(u)') <= Cardinality(Requests)
    BY FlightsCount, FS_Subset, FS_CardinalityType, LoginConstants
  <2>2. CASE brake'[u] = brake[u]
    <3>1. brake[u].count + Cardinality(InFlight(u)) <= Room /\ brake[u].count \in Nat
      BY <1>1, <2>2 DEF LoginInv, LoginRoom, LoginTypeOK
    <3> QED BY <2>1, <2>2, <3>1, FlightsCount, LoginConstants
  <2>3. CASE u = s /\ brake'[u].count = 1
    BY <2>1, <2>3, LoginConstants
  <2>4. CASE u = s /\ brake[u].left > 0 /\ brake'[u].count = brake[u].count + 1
    BY <2>4
  <2>5. brake'[u].left # 0
    BY <1>1, CountedIs, LoginConstants DEF LoginInv, Brakes
  <2> QED BY <2>2, <2>3, <2>4, <2>5, CountedIs DEF LoginInv
<1> QED BY <1>1 DEF LoginRoom

LEMMA MistakeTypes ==
    ASSUME LocalLoginAssumption, LoginInv, NEW s \in Senders, Errs(s),
           \/ ~Braked(s) /\ UNCHANGED <<account, requests>>
           \/ \E r \in Requests : LoginFails(r) /\ requests[r].sender = s
    PROVE  LoginInv'
<1>1. brake[s].count \in Nat /\ Counted(s)
  BY DEF LoginInv, LoginTypeOK, Errs
<1>2. CASE ~Braked(s) /\ UNCHANGED <<account, requests>>
  <2>1. brake[s].left > 0 => brake[s].count <= BrakeAfter
    BY <1>1, <1>2, LoginConstants DEF Braked
  <2>2. \A u \in Senders : InFlight(u)' = InFlight(u)
    BY <1>2 DEF InFlight
  <2>3. brake[s].left > 0 => brake[s].count + 1 <= Room
                             /\ brake[s].count + 1 + Cardinality(InFlight(s)') <= Room
    BY <1>1, <2>1, <2>2, FlightsCount, LoginConstants
  <2>4. LoginRoom'
    BY <1>1, <1>2, <2>2, <2>3, MistakeRoom DEF LoginInv, LoginRoom
  <2>5. brake' \in [Senders -> Brakes] /\ mistakes' \in [Senders -> 0 .. Patience]
    BY <1>1, <2>3, CountedIs, ErrsTypes DEF LoginInv
  <2> QED BY <1>2, <2>4, <2>5 DEF LoginInv, LoginTypeOK, Brakes
<1>3. ASSUME NEW r \in Requests, LoginFails(r), requests[r].sender = s PROVE LoginInv'
  <2>1. Ends(r) /\ r \in InFlight(s)
    BY <1>3 DEF LoginFails, InFlight
  <2>2. Cardinality(InFlight(s)') = Cardinality(InFlight(s)) - 1
    BY <2>1, EndsLeaves, FlightsCount, FS_RemoveElement
  <2>3. Cardinality(InFlight(s)) \in Nat /\ Cardinality(InFlight(s)') \in Nat
    BY <2>1, EndsLeaves, FlightsCount, FS_RemoveElement, FS_CardinalityType
  <2>4. brake[s].left > 0 => brake[s].count + Cardinality(InFlight(s)) <= Room
    BY DEF LoginInv, LoginRoom
  <2>5. brake[s].left > 0 => brake[s].count + 1 <= Room
                             /\ brake[s].count + 1 + Cardinality(InFlight(s)') <= Room
    BY <1>1, <2>2, <2>3, <2>4, LoginConstants
  <2>6. LoginRoom'
    <3>1. \A u \in Senders : InFlight(u)' \subseteq InFlight(u)
      BY <2>1, EndsLeaves
    <3>2. \A o \in Requests : requests'[o].pc = "login" => requests'[o].sender \in Senders
      BY <2>1, EndsLeaves DEF LoginInv, LoginRoom
    <3> QED BY <1>1, <2>5, <3>1, <3>2, MistakeRoom
  <2>7. account' \in Account
    <3> DEFINE q == requests[r]
               record == OneMore(AsOf(q.row, q.sender))
    <3>1. q.row \in Account /\ account \in Account
      BY DEF LoginInv, LoginTypeOK
    <3>2. AsOf(q.row, q.sender) \in Account
      <4>1. q.sender \in Senders
        BY <1>3
      <4> HIDE DEF q
      <4> QED BY <3>1, <4>1, AccountChanges DEF AsOf
    <3>3. ASSUME NEW a \in Account PROVE OneMore(a) \in Account
      BY AccountChanges DEF OneMore
    <3>4. record \in Account
      BY <3>2, <3>3
    <3>5. account' = Written(record, q.row)
      BY <1>3 DEF LoginFails
    <3> QED BY <3>1, <3>4, <3>5, WrittenIs
  <2>8. brake' \in [Senders -> Brakes] /\ mistakes' \in [Senders -> 0 .. Patience]
    BY <1>1, <2>5, CountedIs, ErrsTypes DEF LoginInv
  <2>9. requests' \in [Requests -> Request]
    BY <2>1, EndsLeaves
  <2> QED BY <2>6, <2>7, <2>8, <2>9 DEF LoginInv, LoginTypeOK, Brakes, Request
<1> QED BY <1>2, <1>3

LEMMA StepLoginTypes ==
    ASSUME LocalLoginAssumption, LoginInv, [LoginNext]_loginVars
    PROVE  LoginInv'
<1>1. CASE UNCHANGED loginVars
  BY <1>1 DEF loginVars, LoginInv, LoginTypeOK, LoginRoom, InFlight
<1>2. ASSUME NEW s \in Senders, UnknownName(s) PROVE LoginInv'
  BY <1>2, MistakeTypes DEF UnknownName
<1>3. ASSUME NEW r \in Requests, NEW s \in Senders, NEW i \in Input, LoginReads(r, s, i) PROVE LoginInv'
  BY <1>3, LoginReadsTypes
<1>4. ASSUME NEW r \in Requests, LoginFails(r) PROVE LoginInv'
  BY <1>4, MistakeTypes DEF LoginFails, LoginInv, LoginRoom
<1>5. ASSUME NEW r \in Requests, Ends(r), UNCHANGED brake, account' \in Account,
             mistakes' \in [Senders -> 0 .. Patience]
      PROVE  LoginInv'
  BY <1>5, EndsRoom, EndsLeaves DEF LoginInv, LoginTypeOK, Request
<1>6. ASSUME NEW r \in Requests, LoginSucceeds(r) PROVE LoginInv'
  <2> DEFINE q == requests[r]
             record == [q.row EXCEPT !.failed = 0, !.lock = 0, !.from = NoSender,
                                  !.codes = IF q.row.secret THEN @ \ {q.input} ELSE @]
  <2>1. q.row \in Account /\ account \in Account
    BY DEF LoginInv, LoginTypeOK
  <2>2. record \in Account
    <3>1. (IF q.row.secret THEN q.row.codes \ {q.input} ELSE q.row.codes) \in SUBSET Codes
      BY <2>1 DEF Account
    <3> HIDE DEF q
    <3> QED BY <2>1, <3>1, AccountChanges
  <2>3. account' = Written(record, q.row)
    BY <1>6 DEF LoginSucceeds
  <2>4. account' \in Account
    BY <2>1, <2>2, <2>3, WrittenIs
  <2>5. mistakes' \in [Senders -> 0 .. Patience]
    <3>1. mistakes' = [mistakes EXCEPT ![q.sender] = 0] /\ 0 \in 0 .. Patience
      BY <1>6, LoginConstants DEF LoginSucceeds
    <3> QED BY <3>1 DEF LoginInv, LoginTypeOK
  <2> QED BY <1>5, <1>6, <2>4, <2>5 DEF LoginSucceeds
<1>7. ASSUME NEW r \in Requests, LoginAsksForCode(r) \/ FactorRefused(r) PROVE LoginInv'
  BY <1>5, <1>7 DEF LoginAsksForCode, FactorRefused, LoginInv, LoginTypeOK
<1>8. ASSUME NEW r \in Requests, CodesRenewed(r) \/ Disabled(r) PROVE LoginInv'
  <2>1. account' \in Account
    BY <1>8 DEF CodesRenewed, Disabled, LoginInv, LoginTypeOK, Account
  <2> QED BY <1>5, <1>8, <2>1 DEF CodesRenewed, Disabled, LoginInv, LoginTypeOK
<1>9. ASSUME NEW r \in Requests, NEW what \in {"renew", "disable"}, FactorReads(r, what) PROVE LoginInv'
  <2> DEFINE q == [NoRequest EXCEPT !.pc = what]
  <2>1. q \in Request /\ q.pc # "login"
    BY Fresh DEF Request
  <2>2. requests' = [requests EXCEPT ![r] = q] /\ UNCHANGED <<account, brake, mistakes>>
    BY <1>9 DEF FactorReads
  <2> HIDE DEF q
  <2>3. /\ requests' \in [Requests -> Request] /\ requests'[r] = q
        /\ \A o \in Requests \ {r} : requests'[o] = requests[o]
    BY <2>1, <2>2, RequestMoves DEF LoginInv
  <2>4. ASSUME NEW u \in Senders, brake[u].left > 0
        PROVE  brake[u].count + Cardinality(InFlight(u)') <= Room
    <3>1. InFlight(u)' \subseteq InFlight(u)
      BY <2>1, <2>3 DEF InFlight
    <3>2. Cardinality(InFlight(u)') <= Cardinality(InFlight(u)) /\ Cardinality(InFlight(u)') \in Nat
      BY <3>1, FlightsCount, FS_Subset, FS_CardinalityType
    <3>3. brake[u].count + Cardinality(InFlight(u)) <= Room /\ brake[u].count \in Nat
      BY <2>4 DEF LoginInv, LoginRoom, LoginTypeOK
    <3> QED BY <3>2, <3>3, FlightsCount, LoginConstants
  <2>5. LoginRoom'
    BY <2>1, <2>2, <2>3, <2>4 DEF LoginRoom, LoginInv
  <2> QED BY <2>2, <2>3, <2>5 DEF LoginInv, LoginTypeOK, Request
<1>10. CASE Activate
  <2>1. account' \in Account
    BY <1>10 DEF Activate, LoginInv, LoginTypeOK, Account
  <2> QED BY <1>10, <2>1 DEF Activate, LoginInv, LoginTypeOK, LoginRoom, InFlight
<1>11. CASE LoginTick
  <2>1. account' \in Account
    BY <1>11, AccountChanges DEF LoginTick, LoginInv, LoginTypeOK
  <2>2. /\ brake' \in [Senders -> Brakes]
        /\ \A s \in Senders : brake'[s].count = brake[s].count /\ (brake'[s].left > 0 => brake[s].left > 0)
    BY <1>11, LoginConstants DEF LoginTick, LoginInv, LoginTypeOK, Brakes
  <2>3. LoginRoom'
    BY <1>11, <2>2 DEF LoginTick, LoginInv, LoginRoom, InFlight
  <2> QED BY <1>11, <2>1, <2>2, <2>3 DEF LoginTick, LoginInv, LoginTypeOK, Brakes
<1> QED BY <1>1, <1>2, <1>3, <1>4, <1>6, <1>7, <1>8, <1>9, <1>10, <1>11 DEF LoginNext, LoginEnds

LEMMA InitLoginTypes ==
    ASSUME LocalLoginAssumption, LoginInit
    PROVE  LoginInv
<1>1. requests \in [Requests -> Request] /\ account \in Account
  BY Fresh DEF LoginInit
<1>2. \A r \in Requests : requests[r].pc = "idle"
  BY DEF LoginInit, NoRequest
<1>3. brake \in [Senders -> Brakes] /\ mistakes \in [Senders -> 0 .. Patience]
  BY LoginConstants DEF LoginInit, Brakes
<1>4. LoginRoom
  BY <1>2 DEF LoginRoom, LoginInit
<1> QED BY <1>1, <1>3, <1>4 DEF LoginInv, LoginTypeOK, Brakes, Request

(***************************************************************************)
(* Who errs locks himself.  The row a request has read is still the row of *)
(* the account when it writes, but for the lock that runs out: OneRuns is  *)
(* what makes it so, and two requests side by side do break it.            *)
(***************************************************************************)
OneRuns == \A r, q \in Requests : requests[r].pc # "idle" /\ requests[q].pc # "idle" => r = q

RowStands ==
    \A r \in Requests : requests[r].pc = "login" =>
       /\ account.failed = requests[r].row.failed
       /\ account.from = requests[r].row.from
       /\ account.lock <= requests[r].row.lock
       /\ requests[r].row.from = requests[r].sender => requests[r].row.lock = 0

OwnCount == \A s \in Senders : account.from = s => mistakes[s] >= account.failed

LockInv == LoginInv /\ OneRuns /\ RowStands /\ OwnCount /\ OwnMistakesOnly

LEMMA LockTyped ==
    ASSUME LoginInv
    PROVE  /\ account \in Account /\ mistakes \in [Senders -> 0 .. Patience]
           /\ \A r \in Requests : requests[r].row \in Account
           /\ \A r \in Requests : requests[r].pc = "login" => requests[r].sender \in Senders
BY DEF LoginInv, LoginTypeOK, LoginRoom

\* When the one request that runs ends, none runs.
LEMMA EndsAlone ==
    ASSUME LocalLoginAssumption, LockInv, NEW r \in Requests, requests[r].pc # "idle", Ends(r)
    PROVE  OneRuns' /\ RowStands'
<1>1. \A q \in Requests : requests'[q].pc = "idle"
  <2>1. requests'[r].pc = "idle" /\ \A o \in Requests \ {r} : requests'[o] = requests[o]
    BY EndsLeaves DEF LockInv
  <2>2. \A o \in Requests \ {r} : requests[o].pc = "idle"
    BY DEF LockInv, OneRuns
  <2> QED BY <2>1, <2>2
<1> QED BY <1>1 DEF OneRuns, RowStands

\* What a mistake makes of the row: the sender's own count goes on, another's begins at zero.
LEMMA OneMoreIs ==
    ASSUME LocalLoginAssumption, NEW a \in Account, NEW s \in Senders
    PROVE  LET b == OneMore(AsOf(a, s)) n == IF a.from = s THEN a.failed + 1 ELSE 1
           IN  /\ b \in Account /\ b.from = s
               /\ b.failed = IF n >= LockAfter THEN 0 ELSE n
               /\ (a.from = s => a.lock = 0) => (b.lock > 0 => n >= LockAfter)
<1> DEFINE c == AsOf(a, s)
<1>1. /\ c \in Account /\ c.from = s /\ c.failed = (IF a.from = s THEN a.failed ELSE 0)
      /\ c.lock = (IF a.from = s THEN a.lock ELSE 0)
  BY AccountChanges DEF AsOf, Account
<1> HIDE DEF c
<1>2. CASE c.failed + 1 >= LockAfter
  <2>1. OneMore(c) = [c EXCEPT !.failed = 0, !.lock = LockTime]
    BY <1>2 DEF OneMore
  <2>2. OneMore(c) \in Account /\ OneMore(c).from = s /\ OneMore(c).failed = 0
    BY <1>1, <2>1, AccountChanges DEF Account
  <2> QED BY <1>1, <1>2, <2>2, LoginConstants DEF Account, c
<1>3. CASE ~(c.failed + 1 >= LockAfter)
  <2>1. OneMore(c) = [c EXCEPT !.failed = @ + 1]
    BY <1>3 DEF OneMore
  <2>2. /\ OneMore(c) \in Account /\ OneMore(c).from = s /\ OneMore(c).failed = c.failed + 1
        /\ OneMore(c).lock = c.lock
    BY <1>1, <1>3, <2>1, AccountChanges DEF Account
  <2> QED BY <1>1, <1>3, <2>2, LoginConstants DEF Account, c
<1> QED BY <1>2, <1>3

LEMMA FailsLocks ==
    ASSUME LocalLoginAssumption, Patience >= LockAfter, LockInv,
           NEW r \in Requests, LoginFails(r)
    PROVE  OwnCount' /\ OwnMistakesOnly'
<1> DEFINE a == requests[r].row
           s == requests[r].sender
           b == OneMore(AsOf(a, s))
           n == IF a.from = s THEN a.failed + 1 ELSE 1
<1>1. s \in Senders /\ a \in Account /\ account \in Account /\ mistakes \in [Senders -> 0 .. Patience]
  BY LockTyped DEF LoginFails, LockInv
<1>2. /\ account.failed = a.failed /\ account.from = a.from /\ account.lock <= a.lock
      /\ a.from = s => a.lock = 0
  BY DEF LoginFails, LockInv, RowStands
<1>3. account.from = s => mistakes[s] >= account.failed
  BY <1>1 DEF LockInv, OwnCount
<1>4. account' = Written(b, a) /\ mistakes' = [mistakes EXCEPT ![s] = IF @ < Patience THEN @ + 1 ELSE @]
  BY DEF LoginFails, Errs
<1> HIDE DEF a, s
<1>5. /\ b \in Account /\ b.from = s /\ b.failed = IF n >= LockAfter THEN 0 ELSE n
      /\ b.lock > 0 => n >= LockAfter
  BY <1>1, <1>2, OneMoreIs
<1> HIDE DEF b
<1>6. account'.from = s /\ account'.failed = b.failed /\ (account'.lock > 0 => b.lock > 0)
  <2>1. /\ account'.failed = (IF b.failed = a.failed THEN account.failed ELSE b.failed)
        /\ account'.from = (IF b.from = a.from THEN account.from ELSE b.from)
        /\ account'.lock = (IF b.lock = a.lock THEN account.lock ELSE b.lock)
    BY <1>1, <1>4, <1>5, WrittenIs
  <2>2. account.lock \in Nat /\ a.lock \in Nat /\ b.lock \in Nat
    BY <1>1, <1>5, LoginConstants DEF Account
  <2> QED BY <1>2, <1>5, <2>1, <2>2
<1>7. n \in 1 .. LockAfter /\ mistakes'[s] >= n /\ mistakes'[s] \in Nat
  <2>1. a.failed \in 0 .. LockAfter - 1 /\ mistakes[s] \in 0 .. Patience
    BY <1>1 DEF Account
  <2>2. mistakes'[s] = IF mistakes[s] < Patience THEN mistakes[s] + 1 ELSE mistakes[s]
    BY <1>1, <1>4
  <2> QED BY <1>2, <1>3, <2>1, <2>2, LoginConstants
<1>8. OwnCount'
  BY <1>5, <1>6, <1>7, LoginConstants DEF OwnCount
<1>9. OwnMistakesOnly'
  BY <1>5, <1>6, <1>7, LoginConstants DEF OwnMistakesOnly, LockedFor
<1> QED BY <1>8, <1>9

LEMMA SucceedsClears ==
    ASSUME LocalLoginAssumption, LockInv, NEW r \in Requests, LoginSucceeds(r)
    PROVE  OwnCount' /\ OwnMistakesOnly'
<1> DEFINE q == requests[r]
           record == [q.row EXCEPT !.failed = 0, !.lock = 0, !.from = NoSender,
                                !.codes = IF q.row.secret THEN @ \ {q.input} ELSE @]
<1>1. q.row \in Account /\ account \in Account
  BY LockTyped DEF LockInv
<1>2. record \in Account /\ record.from = NoSender
  <2>1. (IF q.row.secret THEN q.row.codes \ {q.input} ELSE q.row.codes) \in SUBSET Codes
    BY <1>1 DEF Account
  <2> HIDE DEF q
  <2> QED BY <1>1, <2>1, AccountChanges DEF Account
<1>3. account' = Written(record, q.row) /\ account.from = q.row.from
  BY DEF LoginSucceeds, LockInv, RowStands
<1> HIDE DEF record
<1>4. account'.from = NoSender
  BY <1>1, <1>2, <1>3, WrittenIs
<1>5. \A u \in Senders : account'.from # u
  BY <1>4, LoginConstants
<1> QED BY <1>5 DEF OwnCount, OwnMistakesOnly, LockedFor

\* What leaves the count of the row and the mistakes alone, and does not raise the lock.
LEMMA SameLock ==
    ASSUME LockInv, account' \in Account, mistakes' = mistakes,
           account'.failed = account.failed, account'.from = account.from,
           account'.lock > 0 => account.lock > 0
    PROVE  OwnCount' /\ OwnMistakesOnly'
BY DEF LockInv, OwnCount, OwnMistakesOnly, LockedFor

LEMMA StepLocks ==
    ASSUME LocalLoginAssumption, OneAtATime, Patience >= LockAfter, LockInv, [LoginNext]_loginVars
    PROVE  LockInv'
<1>1. LoginInv'
  BY StepLoginTypes DEF LockInv
<1> DEFINE Rest == OneRuns /\ RowStands /\ OwnCount /\ OwnMistakesOnly
<1>2. ASSUME UNCHANGED loginVars PROVE Rest'
  BY <1>2 DEF loginVars, LockInv, OneRuns, RowStands, OwnCount, OwnMistakesOnly, LockedFor
<1>3. ASSUME NEW s \in Senders, UnknownName(s) PROVE Rest'
  <2>1. UNCHANGED <<account, requests>> /\ mistakes \in [Senders -> 0 .. Patience]
    BY <1>3, LockTyped DEF UnknownName, LockInv
  <2>2. \A u \in Senders : mistakes'[u] >= mistakes[u] /\ mistakes'[u] \in Nat /\ mistakes[u] \in Nat
    BY <1>3, <2>1, LoginConstants DEF UnknownName, Errs
  <2>3. OneRuns' /\ RowStands'
    BY <2>1 DEF LockInv, OneRuns, RowStands
  <2>4. account.failed \in Nat
    BY LockTyped, LoginConstants DEF LockInv, Account
  <2>5. OwnCount' /\ OwnMistakesOnly'
    BY <2>1, <2>2, <2>4, LoginConstants DEF LockInv, OwnCount, OwnMistakesOnly, LockedFor
  <2> QED BY <2>3, <2>5
<1>4. ASSUME NEW r \in Requests, NEW s \in Senders, NEW i \in Input, LoginReads(r, s, i) PROVE Rest'
  <2> DEFINE q == [pc |-> "login", sender |-> s, row |-> account, input |-> i]
  <2>1. /\ UNCHANGED <<account, mistakes>> /\ requests' = [requests EXCEPT ![r] = q] /\ ~LockedFor(s)
        /\ \A o \in Requests : requests[o].pc = "idle"
    BY <1>4 DEF LoginReads, MayBegin
  <2>2. q \in Request
    BY DEF LockInv, LoginInv, LoginTypeOK, Request
  <2>3. q.sender = s /\ q.row = account
    OBVIOUS
  <2> HIDE DEF q
  <2>4. requests'[r] = q /\ \A o \in Requests \ {r} : requests'[o] = requests[o]
    BY <2>1, <2>2, RequestMoves DEF LockInv, LoginInv
  <2>5. account.lock \in Nat
    BY LockTyped, LoginConstants DEF LockInv, Account
  <2>6. OneRuns'
    BY <2>1, <2>4 DEF OneRuns
  <2>7. account.from = s => account.lock = 0
    BY <2>1, <2>5 DEF LockedFor
  <2>8. RowStands'
    BY <2>1, <2>3, <2>4, <2>5, <2>7 DEF RowStands
  <2>9. OwnCount' /\ OwnMistakesOnly'
    BY <2>1 DEF LockInv, OwnCount, OwnMistakesOnly, LockedFor
  <2> QED BY <2>6, <2>8, <2>9
<1>5. ASSUME NEW r \in Requests, NEW what \in {"renew", "disable"}, FactorReads(r, what) PROVE Rest'
  <2> DEFINE q == [NoRequest EXCEPT !.pc = what]
  <2>1. q \in Request /\ q.pc # "login"
    BY Fresh DEF Request
  <2>2. /\ requests' = [requests EXCEPT ![r] = q] /\ UNCHANGED <<account, mistakes>>
        /\ \A o \in Requests : requests[o].pc = "idle"
    BY <1>5 DEF FactorReads, MayBegin
  <2> HIDE DEF q
  <2>3. requests'[r] = q /\ \A o \in Requests \ {r} : requests'[o] = requests[o]
    BY <2>1, <2>2, RequestMoves DEF LockInv, LoginInv
  <2>4. OneRuns'
    BY <2>2, <2>3 DEF OneRuns
  <2>5. RowStands'
    BY <2>1, <2>2, <2>3 DEF RowStands
  <2>6. OwnCount' /\ OwnMistakesOnly'
    BY <2>2 DEF LockInv, OwnCount, OwnMistakesOnly, LockedFor
  <2> QED BY <2>4, <2>5, <2>6
<1>6. ASSUME NEW r \in Requests, LoginEnds(r) PROVE Rest'
  <2>1. Ends(r) /\ requests[r].pc # "idle"
    BY <1>6 DEF LoginEnds, LoginAsksForCode, LoginFails, LoginSucceeds, FactorRefused, CodesRenewed, Disabled
  <2>2. OneRuns' /\ RowStands'
    BY <2>1, EndsAlone
  <2>3. CASE LoginFails(r)
    BY <2>2, <2>3, FailsLocks
  <2>4. CASE LoginSucceeds(r)
    BY <2>2, <2>4, SucceedsClears
  <2>5. CASE LoginAsksForCode(r) \/ FactorRefused(r) \/ CodesRenewed(r) \/ Disabled(r)
    <3>1. account \in Account /\ account' \in Account
      BY <1>1, LockTyped DEF LockInv, LoginInv, LoginTypeOK
    <3>2. /\ mistakes' = mistakes /\ account'.failed = account.failed
          /\ account'.from = account.from /\ account'.lock = account.lock
      BY <2>5, <3>1 DEF LoginAsksForCode, FactorRefused, CodesRenewed, Disabled, Account
    <3>3. OwnCount' /\ OwnMistakesOnly'
      BY <3>1, <3>2, SameLock
    <3> QED BY <2>2, <3>3
  <2> QED BY <1>6, <2>3, <2>4, <2>5 DEF LoginEnds
<1>7. ASSUME Activate PROVE Rest'
  <2>1. \A o \in Requests : requests'[o].pc = "idle"
    BY <1>7 DEF Activate
  <2>2. account \in Account /\ account' \in Account
    BY <1>1, LockTyped DEF LockInv, LoginInv, LoginTypeOK
  <2>3. /\ mistakes' = mistakes /\ account'.failed = account.failed
        /\ account'.from = account.from /\ account'.lock = account.lock
    BY <1>7, <2>2 DEF Activate, Account
  <2>4. OwnCount' /\ OwnMistakesOnly'
    BY <2>2, <2>3, SameLock
  <2> QED BY <2>1, <2>4 DEF OneRuns, RowStands
<1>8. ASSUME LoginTick PROVE Rest'
  <2>1. account \in Account /\ account' \in Account /\ \A r \in Requests : requests[r].row \in Account
    BY <1>1, LockTyped DEF LockInv, LoginInv, LoginTypeOK
  <2>2. /\ mistakes' = mistakes /\ requests' = requests /\ account'.failed = account.failed
        /\ account'.from = account.from
        /\ account'.lock = IF account.lock > 0 THEN account.lock - 1 ELSE 0
    BY <1>8, <2>1 DEF LoginTick, Account
  <2>3. account.lock \in Nat /\ account'.lock \in Nat /\ \A r \in Requests : requests[r].row.lock \in Nat
    BY <2>1, LoginConstants DEF Account
  <2>4. OwnCount' /\ OwnMistakesOnly'
    BY <2>1, <2>2, <2>3, SameLock
  <2>5. OneRuns'
    BY <2>2 DEF LockInv, OneRuns
  <2>6. RowStands'
    BY <2>2, <2>3 DEF LockInv, RowStands
  <2> QED BY <2>4, <2>5, <2>6
<1>9. Rest'
  BY <1>2, <1>3, <1>4, <1>5, <1>6, <1>7, <1>8 DEF LoginNext, LockInv
<1> QED BY <1>1, <1>9 DEF LockInv

LEMMA InitLocks ==
    ASSUME LocalLoginAssumption, LoginInit
    PROVE  LockInv
<1>1. LoginInv
  BY InitLoginTypes
<1>2. \A r \in Requests : requests[r].pc = "idle"
  BY DEF LoginInit, NoRequest
<1>3. account.from = NoSender
  BY DEF LoginInit, FreshAccount
<1> QED BY <1>1, <1>2, <1>3, LoginConstants DEF LockInv, OneRuns, RowStands, OwnCount, OwnMistakesOnly, LockedFor

\* The row of an account, the table of the brake and the requests under way keep their
\* bounds, however many requests run side by side: the table counts at most one mistake past
\* its limit and one for every request that passed the check before it.
THEOREM LoginTypesHold ==
    ASSUME LocalLoginAssumption PROVE LoginSpec => []LoginTypeOK
<1>1. LoginInit => LoginInv
  BY InitLoginTypes
<1>2. LoginInv /\ [LoginNext]_loginVars => LoginInv'
  BY StepLoginTypes
<1>3. LoginInv => LoginTypeOK
  BY DEF LoginInv
<1> QED BY <1>1, <1>2, <1>3, PTL DEF LoginSpec

\* An account is locked for a sender only by the mistakes of this sender since it last signed
\* in, as the comment in login has it, as long as requests for the account do not overlap and
\* the model tells apart as many mistakes as the limit counts.
THEOREM WhoErrsLocksHimself ==
    ASSUME LocalLoginAssumption, OneAtATime, Patience >= LockAfter
    PROVE  LoginSpec => []OwnMistakesOnly
<1>1. LoginInit => LockInv
  BY InitLocks
<1>2. LockInv /\ [LoginNext]_loginVars => LockInv'
  BY StepLocks
<1>3. LockInv => OwnMistakesOnly
  BY DEF LockInv
<1> QED BY <1>1, <1>2, <1>3, PTL DEF LoginSpec

-----------------------------------------------------------------------------
(* Git: whose account is whose.                                               *)

Kontos == [name : Names \cup {NoName}, locked : BOOLEAN]
People == [there : BOOLEAN, may : BOOLEAN, name : Names \cup {NoName}]
Pendings == [by : {"nobody", "sign-in"} \cup Places, name : Names \cup {NoName}, konto : Kontos]
Stages == {"idle", "container", "source", "commit", "read", "sweep", "users", "accounts"}
Carried == {<<>>} \cup UNION {[D -> Kontos] : D \in SUBSET Users}
Read == {<<>>} \cup [Users -> People] \cup [Places -> Tokens]
Jobs == [pc : Stages, secret : Nat, seen : Read, left : SUBSET (Users \cup Places),
         drop : SUBSET Places, konto : Carried]
Counts == [tokens : Nat, secrets : Nat, updates : Nat, offs : Nat, faults : Nat, crashes : Nat]
Owned == [AllNames -> Users \cup {NoUser}]

\* What the accounts are told apart by.
GitTypes ==
    /\ on \in BOOLEAN /\ user \in [Users -> People] /\ konto \in [Users -> Kontos]
    /\ pending \in [Users -> Pendings]
    /\ accounts \in Owned /\ prohibited \in SUBSET Users /\ work \in [Workers -> Jobs] /\ count \in Counts
    /\ row \in [Places -> Tokens] /\ flushed \in [Places -> Tokens]

There(u) == user[u].there
Named(u) == konto[u].name # NoName
NoOneElse(n, u) == accounts[n] \in {NoUser, u} \/ (accounts[n] \in Users /\ ~There(accounts[n]))

\* The names his account has in OTA's rows, those of a transaction under way included, and the names
\* somebody may yet bring it to: a row, a transaction, or a round that has read the users.
RowNames(u, m) ==
    \/ m = konto[u].name \/ m = pending[u].konto.name
    \/ \E x \in Workers : Holds(x, u) /\ m = work[x].konto[u].name
Claims(u, m) ==
    \/ RowNames(u, m) \/ m = user[u].name \/ m = pending[u].name
    \/ \E x \in Workers : work[x].pc = "accounts" /\ u \in work[x].left /\ m = work[x].seen[u].name

\* One transaction has an account at a time, and a round has what it needs.
OneAtWork ==
    /\ \A x, y \in Workers, u \in Users : Holds(x, u) /\ Holds(y, u) => x = y
    /\ \A x \in Workers, u \in Users : Holds(x, u) => pending[u] = NoPending
    /\ \A u \in Users : There(u) => user[u].name \in Names
    /\ \A u \in Users : pending[u] # NoPending =>
         /\ There(u) /\ pending[u].by # "nobody" /\ pending[u].name \in Names
         /\ Named(u) => pending[u].konto.name # NoName
    /\ \A x \in Workers :
         /\ work[x].pc # "accounts" => DOMAIN work[x].konto = {}
         /\ work[x].pc = "accounts" =>
              /\ work[x].seen \in [Users -> People] /\ DOMAIN work[x].konto \subseteq Users
              /\ \A u \in DOMAIN work[x].konto : There(u) /\ work[x].konto[u].name \in Names
              /\ \A u \in work[x].left :
                   /\ u \in Users /\ There(u) /\ u \notin DOMAIN work[x].konto
                   /\ work[x].seen[u].name \in Names

\* No name is claimed for two who are there,
ClaimsApart ==
    \A u, v \in Users, m \in Names : There(u) /\ There(v) /\ u # v => ~(Claims(u, m) /\ Claims(v, m))
\* and no account of that name is anybody else's who is there.
ClaimsOwn ==
    \A u \in Users, m \in Names : There(u) /\ Claims(u, m) =>
        /\ NoOneElse(m, u)
        /\ RowNames(u, m) \/ ~Named(u) => accounts[m] \in {NoUser, u}

\* The row as it will stand, which names the account as long as nothing has gone wrong.
Latest(u, k) ==
    \/ pending[u] # NoPending /\ k = pending[u].konto
    \/ \E x \in Workers : Holds(x, u) /\ k = work[x].konto[u]
    \/ ~InHand(u) /\ k = konto[u]
Clean == count.faults = 0 /\ count.crashes = 0
LatestNames ==
    Clean => \A u \in Users, k \in Kontos :
                There(u) /\ Latest(u, k) /\ k.name # NoName => accounts[k.name] = u

GitOrder == OneAtWork /\ ClaimsApart /\ ClaimsOwn /\ LatestNames
GitHeld == GitAssumption /\ Calm /\ GitTypes /\ GitOrder

LEMMA NothingCarried == <<>> \in Carried /\ <<>> \in Read /\ DOMAIN <<>> = {}
BY DEF Carried, Read

LEMMA IdleIsJob ==
    /\ Idle \in Jobs /\ Idle.pc = "idle" /\ Idle.konto = <<>>
BY NothingCarried DEF Idle, Jobs, Stages

LEMMA JobOf ==
    ASSUME NEW j \in Jobs
    PROVE  /\ j.pc \in Stages /\ j.secret \in Nat /\ j.seen \in Read
           /\ j.left \in SUBSET (Users \cup Places) /\ j.drop \in SUBSET Places /\ j.konto \in Carried
BY DEF Jobs

LEMMA JobGoes ==
    ASSUME NEW j \in Jobs, NEW pc \in Stages
    PROVE  /\ [j EXCEPT !.pc = pc] \in Jobs
           /\ [j EXCEPT !.pc = pc].pc = pc /\ [j EXCEPT !.pc = pc].konto = j.konto
           /\ [j EXCEPT !.pc = pc].left = j.left /\ [j EXCEPT !.pc = pc].seen = j.seen
BY DEF Jobs

LEMMA NamesThere ==
    ASSUME GitAssumption, NEW n \in Names
    PROVE  n \in AllNames /\ Aside(n) \in AllNames /\ Aside(n) \notin Names
BY DEF GitAssumption, AllNames

-----------------------------------------------------------------------------
\* An account of a user's has been brought to the name n, as far as it got: his row held k before.
CameTo(u, n, k, a) ==
    /\ a \in Owned
    /\ \A m \in Names : \/ a[m] = accounts[m]
                        \/ m = n /\ a[m] \in {NoUser, u}
                        \/ m = k.name /\ a[m] = NoUser

\* A state of the accounts as konto_sorgen leaves it.
States == [accounts : Owned, prohibited : SUBSET Users, konto : Kontos, ok : BOOLEAN]

LEMMA StateWith ==
    ASSUME NEW s \in States
    PROVE  /\ \A k \in Kontos : LET t == [s EXCEPT !.konto = k]
                                IN  t \in States /\ t.accounts = s.accounts /\ t.konto = k /\ t.ok = s.ok
           /\ \A ok \in BOOLEAN : LET t == [s EXCEPT !.ok = ok]
                                  IN  t \in States /\ t.accounts = s.accounts /\ t.konto = s.konto /\ t.ok = ok
           /\ \A shut \in SUBSET Users :
                LET t == [s EXCEPT !.prohibited = shut]
                IN  t \in States /\ t.accounts = s.accounts /\ t.konto = s.konto /\ t.ok = s.ok
BY DEF States

LEMMA PutAsideMoves ==
    ASSUME GitAssumption, accounts \in Owned, NEW to \in Names
    PROVE  /\ PutAside(to) \in Owned /\ PutAside(to)[to] = NoUser
           /\ \A m \in Names \ {to} : PutAside(to)[m] = accounts[m]
BY NamesThere DEF PutAside, Owned, AllNames

LEMMA RenamedMoves ==
    ASSUME GitAssumption, accounts \in Owned, prohibited \in SUBSET Users,
           NEW from \in Names, NEW to \in Names, from # to
    PROVE  LET made == Renamed(from, to)
           IN  /\ made \in States
               /\ made.ok => /\ accounts[from] # NoUser
                             /\ made.accounts[to] = accounts[from] /\ made.accounts[from] = NoUser
                             /\ \A m \in Names \ {to, from} : made.accounts[m] = accounts[m]
               /\ ~made.ok => made.accounts = accounts
<1> DEFINE shut == prohibited \cup {accounts[to]}
<1>1. /\ from \in AllNames /\ to \in AllNames /\ NoKonto \in Kontos /\ \A m \in Names : m \in AllNames
  BY NamesThere DEF NoKonto, Kontos
<1>2. CASE accounts[from] = NoUser
  <2>1. Renamed(from, to) = [accounts |-> accounts, prohibited |-> prohibited, konto |-> NoKonto, ok |-> FALSE]
    BY <1>2 DEF Renamed, AsBefore, State
  <2>9. /\ Renamed(from, to) \in States /\ Renamed(from, to).ok = FALSE
        /\ Renamed(from, to).accounts = accounts
    BY <1>1, <2>1 DEF States
  <2> QED BY <2>9
<1>3. CASE accounts[from] # NoUser /\ accounts[to] = NoUser
  <2> DEFINE a == [accounts EXCEPT ![from] = NoUser, ![to] = accounts[from]]
  <2>1. Renamed(from, to) = [accounts |-> a, prohibited |-> prohibited, konto |-> NoKonto, ok |-> TRUE]
    BY <1>3 DEF Renamed, AsBefore, State
  <2>2. /\ a \in Owned /\ a[to] = accounts[from] /\ a[from] = NoUser
        /\ \A m \in Names \ {to, from} : a[m] = accounts[m]
    BY <1>1 DEF Owned
  <2> HIDE DEF a
  <2>9. /\ Renamed(from, to) \in States /\ Renamed(from, to).ok = TRUE
        /\ Renamed(from, to).accounts = a
    BY <1>1, <2>1, <2>2 DEF States
  <2> QED BY <1>3, <2>2, <2>9
<1>4. CASE accounts[from] # NoUser /\ accounts[to] # NoUser /\ accounts[Aside(to)] # NoUser
  <2>1. Renamed(from, to) = [accounts |-> accounts, prohibited |-> shut, konto |-> NoKonto, ok |-> FALSE]
    BY <1>4 DEF Renamed, AsBefore, State
  <2>2. shut \in SUBSET Users
    BY <1>1, <1>4 DEF Owned
  <2> HIDE DEF shut
  <2>9. /\ Renamed(from, to) \in States /\ Renamed(from, to).ok = FALSE
        /\ Renamed(from, to).accounts = accounts
    BY <1>1, <2>1, <2>2 DEF States
  <2> QED BY <2>9
<1>5. CASE accounts[from] # NoUser /\ accounts[to] # NoUser /\ accounts[Aside(to)] = NoUser
  <2> DEFINE a == [PutAside(to) EXCEPT ![from] = NoUser, ![to] = accounts[from]]
  <2>1. Renamed(from, to) = [accounts |-> a, prohibited |-> shut, konto |-> NoKonto, ok |-> TRUE]
    BY <1>5 DEF Renamed, AsBefore, State
  <2>2. shut \in SUBSET Users
    BY <1>1, <1>5 DEF Owned
  <2>3. /\ PutAside(to) \in Owned /\ \A m \in Names \ {to} : PutAside(to)[m] = accounts[m]
        /\ accounts[from] \in Users \cup {NoUser}
    BY <1>1, PutAsideMoves DEF Owned
  <2>4. /\ a \in Owned /\ a[to] = accounts[from] /\ a[from] = NoUser
        /\ \A m \in Names \ {to, from} : a[m] = accounts[m]
    <3> PICK b : b = PutAside(to)
      OBVIOUS
    <3>1. a = [b EXCEPT ![from] = NoUser, ![to] = accounts[from]] /\ b \in Owned
          /\ \A m \in Names \ {to} : b[m] = accounts[m]
      BY <2>3
    <3> QED BY <1>1, <2>3, <3>1 DEF Owned
  <2> HIDE DEF a, shut
  <2>9. /\ Renamed(from, to) \in States /\ Renamed(from, to).ok = TRUE
        /\ Renamed(from, to).accounts = a
    BY <1>1, <2>1, <2>2, <2>4 DEF States
  <2> QED BY <1>5, <2>4, <2>9
<1> QED BY <1>2, <1>3, <1>4, <1>5

\* Who is cared for: a user, what is to become of his account, and his row.
LEMMA BroughtMoves ==
    ASSUME GitAssumption, accounts \in Owned, prohibited \in SUBSET Users, NEW u \in Users,
           NEW as \in People, as.name \in Names, NEW k \in Kontos
    PROVE  LET made == Brought(u, as, k)
           IN  /\ made \in States
               /\ made.ok \/ (made.accounts = accounts /\ made.konto = k /\ k.name # NoName)
               /\ made.ok => made.konto.name = as.name
               /\ k.name = as.name => made.konto = k /\ made.accounts = accounts
               /\ made.ok /\ k.name = NoName => made.accounts[as.name] # NoUser
               /\ \/ k.name = NoName /\ accounts[as.name] \notin {NoUser, u}
                  \/ k.name # NoName /\ accounts[k.name] \notin {NoUser, u}
                  \/ /\ CameTo(u, as.name, k, made.accounts)
                     /\ made.ok /\ k.name # as.name => made.accounts[as.name] = u
<1> DEFINE n == as.name
<1>1. /\ n \in AllNames /\ NoName \notin Names /\ u # NoUser /\ \A m \in Names : m \in AllNames
      /\ k.name \in Names \cup {NoName} /\ NoUser \notin Users
  BY NamesThere DEF GitAssumption, Kontos
<1>2. CASE k.name = NoName
  <2> DEFINE a == [accounts EXCEPT ![n] = IF @ = NoUser THEN u ELSE @]
             c == [name |-> n, locked |-> FALSE]
  <2>1. Brought(u, as, k) = [accounts |-> a, prohibited |-> prohibited, konto |-> c, ok |-> TRUE]
    BY <1>2 DEF Brought, AsBefore, State
  <2>2. c \in Kontos /\ c.name = n
    BY DEF Kontos
  <2>3. /\ a \in Owned /\ a[n] = (IF accounts[n] = NoUser THEN u ELSE accounts[n])
        /\ \A m \in Names \ {n} : a[m] = accounts[m]
    BY <1>1 DEF Owned
  <2>4. accounts[n] \in {NoUser, u} => CameTo(u, n, k, a) /\ a[n] = u
    <3> HIDE DEF a
    <3> QED BY <1>1, <2>3 DEF CameTo
  <2>5. n # k.name
    BY <1>1, <1>2
  <2>6. a[n] # NoUser
    <3> HIDE DEF a
    <3> QED BY <1>1, <2>3
  <2> HIDE DEF a, c
  <2>7. /\ Brought(u, as, k) \in States /\ Brought(u, as, k).ok = TRUE
        /\ Brought(u, as, k).accounts = a /\ Brought(u, as, k).konto = c
    BY <2>1, <2>2, <2>3 DEF States
  <2> QED BY <1>2, <2>2, <2>4, <2>5, <2>6, <2>7
<1>3. CASE k.name = n
  <2>1. Brought(u, as, k) = [accounts |-> accounts, prohibited |-> prohibited, konto |-> k, ok |-> TRUE]
    BY <1>1, <1>3 DEF Brought, AsBefore, State
  <2>2. CameTo(u, n, k, accounts)
    BY DEF CameTo
  <2>3. /\ Brought(u, as, k) \in States /\ Brought(u, as, k).ok = TRUE
        /\ Brought(u, as, k).accounts = accounts /\ Brought(u, as, k).konto = k
    BY <2>1 DEF States
  <2>4. k.name # NoName
    BY <1>1, <1>3
  <2> QED BY <1>3, <2>2, <2>3, <2>4
<1>4. CASE k.name # NoName /\ k.name # n
  <2> DEFINE done == Renamed(k.name, n)
             c == IF done.ok THEN [k EXCEPT !.name = n] ELSE k
  <2>1. k.name \in Names
    BY <1>1, <1>4
  <2>2. /\ done \in States
        /\ done.ok => /\ accounts[k.name] # NoUser
                      /\ done.accounts[n] = accounts[k.name] /\ done.accounts[k.name] = NoUser
                      /\ \A m \in Names \ {n, k.name} : done.accounts[m] = accounts[m]
        /\ ~done.ok => done.accounts = accounts
    BY <1>4, <2>1, RenamedMoves
  <2>3. Brought(u, as, k) = [done EXCEPT !.konto = c]
    BY <1>4 DEF Brought, AsBefore, State
  <2> HIDE DEF done
  <2>4. c \in Kontos /\ (done.ok => c.name = n) /\ (~done.ok => c = k)
    BY DEF Kontos
  <2> HIDE DEF c
  <2>5. accounts[k.name] \in {NoUser, u} => CameTo(u, n, k, done.accounts) /\ (done.ok => done.accounts[n] = u)
    <3>1. done.accounts \in Owned /\ done.ok \in BOOLEAN
      BY <2>2 DEF States
    <3> QED BY <2>2, <3>1 DEF CameTo
  <2>6. /\ Brought(u, as, k) \in States /\ Brought(u, as, k).ok = done.ok
        /\ Brought(u, as, k).accounts = done.accounts /\ Brought(u, as, k).konto = c
    BY <2>2, <2>3, <2>4, StateWith
  <2> QED BY <1>4, <2>2, <2>4, <2>5, <2>6
<1> QED BY <1>2, <1>3, <1>4

LEMMA PutRightMoves ==
    ASSUME NEW made \in States, NEW as \in People, as.name \in Names
    PROVE  /\ PutRight(made, as) \in States
           /\ PutRight(made, as).accounts = made.accounts
           /\ PutRight(made, as).konto = made.konto /\ PutRight(made, as).ok = made.ok
<1> DEFINE whose == {made.accounts[as.name]} \ {NoUser}
<1>1. whose \subseteq Users
  <2>1. as.name \in AllNames
    BY DEF AllNames
  <2> QED BY <2>1 DEF States, Owned
<1> HIDE DEF whose
<1>2. PICK shut : shut = IF as.may THEN made.prohibited \ whose ELSE made.prohibited \cup whose
  OBVIOUS
<1>3. shut \in SUBSET Users
  BY <1>1, <1>2 DEF States
<1>4. PutRight(made, as) = [made EXCEPT !.prohibited = shut]
  BY <1>2 DEF PutRight, whose
<1> QED BY <1>3, <1>4, StateWith

\* What konto_sorgen makes of it, when nothing fails.
LEMMA CaredMoves ==
    ASSUME GitAssumption, accounts \in Owned, prohibited \in SUBSET Users, NEW u \in Users,
           NEW as \in People, as.name \in Names, NEW k \in Kontos
    PROVE  LET now == Cared(u, as, k)
               made == Brought(u, as, k)
           IN  /\ now \in States
               /\ \/ now.accounts = accounts /\ now.konto = k
                  \/ now.accounts = made.accounts /\ now.konto = made.konto
                  \/ /\ now.accounts = made.accounts /\ now.konto.name = as.name
                     /\ now.ok /\ made.ok /\ made.accounts[as.name] # NoUser
               /\ ~now.ok => ~made.ok \/ made.accounts[as.name] = NoUser
<1>1. /\ Brought(u, as, k) \in States /\ [name |-> as.name, locked |-> ~as.may] \in Kontos
      /\ [name |-> as.name, locked |-> ~as.may].name = as.name
  BY BroughtMoves DEF Kontos, People
<1> DEFINE now == Cared(u, as, k)
<1>2. CASE k.name = NoName /\ ~as.may
  <2>1. now = [accounts |-> accounts, prohibited |-> prohibited, konto |-> k, ok |-> TRUE]
    BY <1>2 DEF Cared, AsBefore, State
  <2>2. now \in States /\ now.accounts = accounts /\ now.konto = k /\ now.ok = TRUE
    BY <2>1 DEF States
  <2> QED BY <2>2
<1> PICK made : made = Brought(u, as, k)
  OBVIOUS
<1>3. CASE ~(k.name = NoName /\ ~as.may) /\ (~made.ok \/ made.accounts[as.name] = NoUser)
  <2>1. now = [made EXCEPT !.ok = FALSE]
    BY <1>3 DEF Cared
  <2>2. now \in States /\ now.accounts = made.accounts /\ now.konto = made.konto
    BY <1>1, <2>1 DEF States
  <2> QED BY <1>3, <2>2
<1>4. CASE ~(k.name = NoName /\ ~as.may) /\ made.ok /\ made.accounts[as.name] # NoUser
  <2> DEFINE c == [name |-> as.name, locked |-> ~as.may]
             right == PutRight(made, as)
  <2>1. now = [right EXCEPT !.konto = c]
    BY <1>4 DEF Cared
  <2>2. right \in States /\ right.accounts = made.accounts /\ right.ok = made.ok
    BY <1>1, PutRightMoves
  <2>3. c \in Kontos /\ c.name = as.name
    BY <1>1
  <2> HIDE DEF c, right
  <2>4. now \in States /\ now.accounts = made.accounts /\ now.konto = c /\ now.ok = made.ok
    BY <2>1, <2>2, <2>3 DEF States
  <2> QED BY <1>4, <2>3, <2>4
<1> QED BY <1>2, <1>3, <1>4

\* Wherever it stops: before anything, on the way to what it would have made, or halfway there.
Stops(to, made, n, k) ==
    \/ to.accounts = accounts /\ to.konto = k
    \/ to.accounts = made.accounts /\ to.konto = k
    \/ to.accounts = made.accounts /\ to.konto = made.konto /\ made.ok
    \/ to.accounts = PutAside(n) /\ to.konto = k

LEMMA BrokenMoves ==
    ASSUME GitAssumption, accounts \in Owned, prohibited \in SUBSET Users, NEW u \in Users,
           NEW as \in People, as.name \in Names, NEW k \in Kontos, NEW to, to \in Broken(u, as, k)
    PROVE  to \in States /\ Stops(to, Brought(u, as, k), as.name, k)
<1> PICK made : made = [Brought(u, as, k) EXCEPT !.ok = FALSE]
  OBVIOUS
<1>1. /\ Brought(u, as, k) \in States /\ made \in States
      /\ made.accounts = Brought(u, as, k).accounts /\ made.konto = Brought(u, as, k).konto
  BY BroughtMoves, StateWith
<1>2. \/ to = AsBefore(k, FALSE) \/ to = [made EXCEPT !.konto = k]
      \/ Brought(u, as, k).ok /\ (to = made \/ to = PutRight(made, as))
      \/ /\ k.name \notin {NoName, as.name}
         /\ \E stop \in Renaming(k.name, as.name) : to = [stop EXCEPT !.konto = k]
  BY DEF Broken
<1>3. CASE to = AsBefore(k, FALSE)
  <2>1. to = [accounts |-> accounts, prohibited |-> prohibited, konto |-> k, ok |-> FALSE]
    BY <1>3 DEF AsBefore, State
  <2>2. to \in States /\ to.accounts = accounts /\ to.konto = k
    BY <2>1 DEF States
  <2> QED BY <2>2 DEF Stops
<1>4. CASE to = [made EXCEPT !.konto = k]
  <2>1. to \in States /\ to.accounts = made.accounts /\ to.konto = k
    BY <1>1, <1>4 DEF States
  <2> QED BY <1>1, <2>1 DEF Stops
<1>5. CASE Brought(u, as, k).ok /\ (to = made \/ to = PutRight(made, as))
  <2>0. /\ PutRight(made, as) \in States /\ PutRight(made, as).accounts = made.accounts
        /\ PutRight(made, as).konto = made.konto
    BY <1>1, PutRightMoves
  <2>1. to \in States /\ to.accounts = made.accounts /\ to.konto = made.konto
    BY <1>1, <1>5, <2>0
  <2> QED BY <1>1, <1>5, <2>1 DEF Stops
<1>6. ASSUME k.name \notin {NoName, as.name},
             NEW stop \in Renaming(k.name, as.name), to = [stop EXCEPT !.konto = k]
      PROVE  /\ to \in States
             /\ (to.accounts = accounts \/ to.accounts = PutAside(as.name)) /\ to.konto = k
  <2> DEFINE n == as.name
             shut == prohibited \cup {accounts[n]}
  <2>1. /\ accounts[n] # NoUser
        /\ \/ stop = [accounts |-> accounts, prohibited |-> shut, konto |-> NoKonto, ok |-> FALSE]
           \/ stop = [accounts |-> PutAside(n), prohibited |-> shut, konto |-> NoKonto, ok |-> FALSE]
    BY <1>6 DEF Renaming, State
  <2>2. shut \in SUBSET Users
    BY <2>1, NamesThere DEF Owned
  <2>3. PutAside(n) \in Owned /\ NoKonto \in Kontos
    BY PutAsideMoves DEF NoKonto, Kontos
  <2> HIDE DEF shut
  <2> PICK a : /\ a \in Owned /\ (a = accounts \/ a = PutAside(n))
               /\ stop = [accounts |-> a, prohibited |-> shut, konto |-> NoKonto, ok |-> FALSE]
    BY <2>1, <2>3
  <2>4. stop \in States /\ stop.accounts = a
    BY <2>2, <2>3 DEF States
  <2>5. to \in States /\ to.accounts = stop.accounts /\ to.konto = k
    BY <1>6, <2>4, StateWith
  <2> QED BY <2>4, <2>5
<1>7. ASSUME to \in States, to.konto = k, to.accounts = accounts \/ to.accounts = PutAside(as.name)
      PROVE  Stops(to, Brought(u, as, k), as.name, k)
  BY <1>7 DEF Stops
<1> QED BY <1>2, <1>3, <1>4, <1>5, <1>6, <1>7

LEMMA OutcomeTyped ==
    ASSUME GitAssumption, accounts \in Owned, prohibited \in SUBSET Users, NEW u \in Users,
           NEW as \in People, as.name \in Names, NEW k \in Kontos, NEW to \in Outcomes(u, as, k)
    PROVE  to \in States
<1>1. CASE to = AsBefore(k, FALSE)
  BY <1>1 DEF AsBefore, State, States
<1>2. CASE to = Cared(u, as, k)
  BY <1>2, CaredMoves
<1>3. CASE to \in Broken(u, as, k)
  BY <1>3, BrokenMoves
<1> QED BY <1>1, <1>2, <1>3 DEF Outcomes

\* Whatever becomes of it: nobody else's account is touched but the one that is in the way.
Brings(u, n, k, to) ==
    /\ CameTo(u, n, k, to.accounts)
    /\ to.konto = k \/ (to.konto.name = n /\ to.accounts[n] = u)
Whole(u, k, to) ==
    /\ ~to.ok => to.accounts = accounts /\ to.konto = k
    /\ (k.name # NoName => accounts[k.name] = u) /\ to.konto.name # NoName => to.accounts[to.konto.name] = u

LEMMA OutcomeMoves ==
    ASSUME GitAssumption, accounts \in Owned, prohibited \in SUBSET Users, NEW u \in Users,
           NEW as \in People, as.name \in Names, NEW k \in Kontos,
           k.name = NoName => accounts[as.name] \in {NoUser, u},
           k.name # NoName => accounts[k.name] \in {NoUser, u},
           NEW to \in Outcomes(u, as, k)
    PROVE  /\ Brings(u, as.name, k, to)
           /\ to \in {Cared(u, as, k), AsBefore(k, FALSE)} => Whole(u, k, to)
<1> DEFINE n == as.name
<1>1. /\ n \in AllNames /\ u # NoUser /\ NoName \notin Names /\ k.name \in Names \cup {NoName}
      /\ accounts[n] \in Users \cup {NoUser} /\ NoUser \notin Users
  BY NamesThere DEF GitAssumption, Kontos, Owned
<1>0. LET made == Brought(u, as, k)
      IN  /\ made \in States
          /\ made.ok \/ (made.accounts = accounts /\ made.konto = k /\ k.name # NoName)
          /\ made.ok => made.konto.name = as.name
          /\ k.name = as.name => made.konto = k /\ made.accounts = accounts
          /\ made.ok /\ k.name = NoName => made.accounts[as.name] # NoUser
          /\ \/ k.name = NoName /\ accounts[as.name] \notin {NoUser, u}
             \/ k.name # NoName /\ accounts[k.name] \notin {NoUser, u}
             \/ /\ CameTo(u, as.name, k, made.accounts)
                /\ made.ok /\ k.name # as.name => made.accounts[as.name] = u
  BY BroughtMoves
<1> PICK made : made = Brought(u, as, k)
  OBVIOUS
<1>2. /\ made \in States
      /\ made.ok \/ (made.accounts = accounts /\ made.konto = k /\ k.name # NoName)
      /\ made.ok => made.konto.name = n
      /\ k.name = n => made.konto = k /\ made.accounts = accounts
      /\ made.ok /\ k.name = NoName => made.accounts[n] # NoUser
      /\ CameTo(u, n, k, made.accounts)
      /\ made.ok /\ k.name # n => made.accounts[n] = u
  <2> QED BY <1>0
<1>3. CameTo(u, n, k, accounts)
  BY DEF CameTo
<1>4. CASE to = AsBefore(k, FALSE)
  <2>1. to = [accounts |-> accounts, prohibited |-> prohibited, konto |-> k, ok |-> FALSE]
    BY <1>4 DEF AsBefore, State
  <2>2. to.accounts = accounts /\ to.konto = k
    BY <2>1
  <2> QED BY <1>3, <2>2 DEF Brings, Whole
<1>5. CASE to = Cared(u, as, k)
  <2>1. /\ \/ to.accounts = accounts /\ to.konto = k
           \/ to.accounts = made.accounts /\ to.konto = made.konto
           \/ /\ to.accounts = made.accounts /\ to.konto.name = n /\ to.ok /\ made.ok
              /\ made.accounts[n] # NoUser
        /\ ~to.ok => ~made.ok \/ made.accounts[n] = NoUser
    BY <1>5, CaredMoves
  <2>2. CameTo(u, n, k, to.accounts)
    BY <1>2, <1>3, <2>1
  <2>3. ~made.ok => made.accounts = accounts /\ made.konto = k
    BY <1>2
  <2>4. made.accounts[n] = NoUser => made.accounts = accounts /\ made.konto = k
    BY <1>1, <1>2
  <2>5. made.konto = k \/ (made.konto.name = n /\ made.accounts[n] = u)
    BY <1>2
  <2>6. ~to.ok => to.accounts = accounts /\ to.konto = k
    BY <2>1, <2>3, <2>4
  <2> QED BY <1>1, <1>2, <2>1, <2>2, <2>3, <2>4, <2>5, <2>6 DEF Brings, Whole
<1>6. CASE to \in Broken(u, as, k) /\ to # AsBefore(k, FALSE) /\ to # Cared(u, as, k)
  <2>0. to \in Broken(u, as, k)
    BY <1>6
  <2>1. \/ to.accounts = accounts /\ to.konto = k
        \/ to.accounts = made.accounts /\ to.konto = k
        \/ to.accounts = made.accounts /\ to.konto = made.konto /\ made.ok
        \/ to.accounts = PutAside(n) /\ to.konto = k
    <3>1. Stops(to, Brought(u, as, k), as.name, k)
      BY <2>0, BrokenMoves
    <3> QED BY <3>1 DEF Stops
  <2>2. CameTo(u, n, k, PutAside(n))
    BY PutAsideMoves DEF CameTo
  <2>3. made.ok => made.konto = k \/ (made.konto.name = n /\ made.accounts[n] = u)
    BY <1>2
  <2> QED BY <1>2, <1>3, <1>6, <2>1, <2>2, <2>3 DEF Brings
<1> QED BY <1>4, <1>5, <1>6 DEF Outcomes

\* What is counted stays in its range, and what has gone wrong has.
Recorded == count' \in Counts /\ (Clean' => Clean)

LEMMA TalliedStays ==
    ASSUME count \in Counts,
           NEW what \in {"tokens", "secrets", "updates", "offs", "faults", "crashes"}, Tallied(what)
    PROVE  /\ Recorded
           /\ what \in {"faults", "crashes"} => ~Clean'
<1>1. /\ count.faults \in Nat /\ count.crashes \in Nat /\ count \in Counts
  BY DEF Counts
<1>2. /\ count'.faults = IF what = "faults" THEN count.faults + 1 ELSE count.faults
      /\ count'.crashes = IF what = "crashes" THEN count.crashes + 1 ELSE count.crashes
  BY DEF Tallied, Counts
<1>3. /\ count'.faults = 0 => count.faults = 0 /\ what # "faults"
      /\ count'.crashes = 0 => count.crashes = 0 /\ what # "crashes"
  BY <1>1, <1>2
<1>4. count' \in Counts
  BY DEF Counts, Tallied
<1> QED BY <1>3, <1>4 DEF Clean, Recorded

LEMMA UncountedStays ==
    ASSUME GitTypes, UNCHANGED count
    PROVE  Recorded
BY DEF GitTypes, Recorded, Clean

LEMMA CaresDoes ==
    ASSUME count \in Counts, NEW u, NEW as, NEW k, NEW to, Cares(u, as, k, to)
    PROVE  /\ to \in Outcomes(u, as, k) /\ accounts' = to.accounts /\ prohibited' = to.prohibited
           /\ count' \in Counts
           /\ Clean' => Clean /\ to \in {Cared(u, as, k), AsBefore(k, FALSE)}
<1>1. CASE UNCHANGED count /\ to \in {Cared(u, as, k), AsBefore(k, FALSE)}
  BY <1>1 DEF Cares, Outcomes, Clean
<1>2. CASE Fault /\ to \in Broken(u, as, k)
  <2>1. count' \in Counts /\ ~Clean'
    BY <1>2, TalliedStays DEF Fault, Recorded
  <2> QED BY <1>2, <2>1 DEF Cares, Outcomes
<1> QED BY <1>1, <1>2 DEF Cares

-----------------------------------------------------------------------------
\* A name that is free for u: nobody else who is there is brought to it.
Clear(u, n) == \A v \in Users : There(v) /\ v # u => ~Claims(v, n)

LEMMA PersonOf ==
    ASSUME GitHeld, NEW u \in Users, There(u)
    PROVE  /\ user[u] \in People /\ user[u].name \in Names /\ konto[u] \in Kontos
           /\ konto[u].name \in Names \cup {NoName} /\ NoName \notin Names /\ u # NoUser
           /\ NoUser \notin Users /\ Claims(u, user[u].name)
           /\ konto[u].name # NoName => accounts[konto[u].name] \in {NoUser, u}
           /\ konto[u].name # NoName /\ Clean /\ ~InHand(u) => accounts[konto[u].name] = u
<1>1. konto[u] \in Kontos /\ user[u] \in People /\ NoName \notin Names /\ NoUser \notin Users
  BY DEF GitHeld, GitTypes, GitAssumption
<1>2. konto[u].name \in Names \cup {NoName}
  BY <1>1 DEF Kontos
<1>3. user[u].name \in Names /\ Claims(u, user[u].name)
  BY DEF GitHeld, GitOrder, OneAtWork, Claims
<1>4. konto[u].name # NoName => accounts[konto[u].name] \in {NoUser, u}
  <2>1. Claims(u, konto[u].name) /\ RowNames(u, konto[u].name)
    BY DEF Claims, RowNames
  <2> QED BY <1>2, <2>1 DEF GitHeld, GitOrder, ClaimsOwn
<1>5. Latest(u, konto[u]) \/ InHand(u)
  BY DEF Latest
<1> QED BY <1>1, <1>2, <1>3, <1>4, <1>5 DEF GitHeld, GitOrder, LatestNames

LEMMA ClaimedClear ==
    ASSUME GitHeld, NEW u \in Users, There(u), NEW n \in Names, Claims(u, n)
    PROVE  /\ Clear(u, n) /\ NoOneElse(n, u)
           /\ RowNames(u, n) \/ ~Named(u) => accounts[n] \in {NoUser, u}
BY DEF Clear, GitHeld, GitOrder, ClaimsApart, ClaimsOwn

\* The accounts stay, nobody comes and nobody is brought anywhere new.
LEMMA StillKeeps ==
    ASSUME GitHeld, accounts' = accounts,
           \A v \in Users : There(v)' =>
               /\ There(v) /\ (Named(v) => Named(v)')
               /\ \A m \in Names : (Claims(v, m)' => Claims(v, m)) /\ (RowNames(v, m)' => RowNames(v, m))
    PROVE  ClaimsApart' /\ ClaimsOwn'
<1>1. ClaimsApart'
  BY DEF GitHeld, GitOrder, ClaimsApart
<1>2. ASSUME NEW v \in Users, NEW m \in Names, There(v)', Claims(v, m)'
      PROVE  NoOneElse(m, v)' /\ (RowNames(v, m)' \/ ~Named(v)' => accounts'[m] \in {NoUser, v})
  <2>1. /\ NoOneElse(m, v)
        /\ RowNames(v, m) \/ ~Named(v) => accounts[m] \in {NoUser, v}
    BY <1>2 DEF GitHeld, GitOrder, ClaimsOwn
  <2>2. NoOneElse(m, v)'
    BY <2>1 DEF NoOneElse
  <2> QED BY <1>2, <2>1, <2>2
<1>3. ClaimsOwn'
  BY <1>2 DEF ClaimsOwn
<1> QED BY <1>1, <1>3

\* An account comes to a name that is free for it.
LEMMA CareKeeps ==
    ASSUME GitHeld, NEW u \in Users, There(u), NEW n \in Names, Clear(u, n), NoOneElse(n, u),
           RowNames(u, n) \/ ~Named(u) => accounts[n] \in {NoUser, u},
           CameTo(u, n, konto[u], accounts'), Named(u) => Named(u)',
           \A v \in Users : There(v)' <=> There(v),
           \A v \in Users \ {u} :
               /\ (Named(v) => Named(v)') /\ (\A k \in Kontos : Latest(v, k)' => Latest(v, k))
               /\ \A m \in Names : (Claims(v, m)' => Claims(v, m)) /\ (RowNames(v, m)' => RowNames(v, m)),
           \A m \in Names : /\ Claims(u, m)' => Claims(u, m) \/ m = n
                            /\ RowNames(u, m)' => RowNames(u, m) \/ (m = n /\ accounts'[n] = u),
           Clean' => /\ Clean
                     /\ \A k \in Kontos : Latest(u, k)' /\ k.name # NoName => accounts'[k.name] = u
    PROVE  ClaimsApart' /\ ClaimsOwn' /\ LatestNames'
<1>1. /\ u # NoUser /\ NoUser \notin Users /\ konto[u].name \in Names \cup {NoName}
  BY PersonOf
<1>2. ClaimsApart'
  BY DEF GitHeld, GitOrder, ClaimsApart, Clear
<1>3. ASSUME NEW v \in Users \ {u}, There(v), NEW m \in Names, Claims(v, m)
      PROVE  accounts'[m] = accounts[m]
  <2>1. m # n
    BY <1>3 DEF Clear
  <2>2. m # konto[u].name
    BY <1>3 DEF GitHeld, GitOrder, ClaimsApart, Claims, RowNames
  <2> QED BY <2>1, <2>2 DEF CameTo
<1>4. ASSUME NEW v \in Users \ {u}, NEW m \in Names, There(v)', Claims(v, m)'
      PROVE  NoOneElse(m, v)' /\ (RowNames(v, m)' \/ ~Named(v)' => accounts'[m] \in {NoUser, v})
  <2>1. There(v) /\ Claims(v, m)
    BY <1>4
  <2>2. /\ NoOneElse(m, v)
        /\ RowNames(v, m) \/ ~Named(v) => accounts[m] \in {NoUser, v}
    BY <2>1 DEF GitHeld, GitOrder, ClaimsOwn
  <2>3. accounts'[m] = accounts[m]
    BY <1>3, <2>1
  <2>4. NoOneElse(m, v)'
    BY <2>2, <2>3 DEF NoOneElse
  <2> QED BY <1>4, <2>2, <2>3, <2>4
<1>5. ASSUME NEW m \in Names, Claims(u, m)'
      PROVE  NoOneElse(m, u)' /\ (RowNames(u, m)' \/ ~Named(u)' => accounts'[m] \in {NoUser, u})
  <2>1. /\ NoOneElse(m, u)
        /\ RowNames(u, m) \/ ~Named(u) => accounts[m] \in {NoUser, u}
    BY <1>5 DEF GitHeld, GitOrder, ClaimsOwn
  <2>2. accounts'[m] = accounts[m] \/ accounts'[m] \in {NoUser, u}
    BY DEF CameTo
  <2>3. NoOneElse(m, u)'
    BY <2>1, <2>2 DEF NoOneElse
  <2>4. RowNames(u, m)' \/ ~Named(u)' => accounts'[m] \in {NoUser, u}
    BY <2>1, <2>2
  <2> QED BY <2>3, <2>4
<1>6. ClaimsOwn'
  <2> SUFFICES ASSUME NEW v \in Users, NEW m \in Names, There(v)', Claims(v, m)'
               PROVE  NoOneElse(m, v)' /\ (RowNames(v, m)' \/ ~Named(v)' => accounts'[m] \in {NoUser, v})
    BY DEF ClaimsOwn
  <2>1. CASE v = u
    BY <1>5, <2>1
  <2>2. CASE v # u
    BY <1>4, <2>2
  <2> QED BY <2>1, <2>2
<1>7. LatestNames'
  <2> SUFFICES ASSUME Clean', NEW v \in Users, NEW k \in Kontos, There(v)', Latest(v, k)', k.name # NoName
               PROVE  accounts'[k.name] = v
    BY DEF LatestNames
  <2>1. CASE v = u
    BY <2>1
  <2>2. CASE v # u
    <3>1. Clean /\ There(v) /\ Latest(v, k)
      BY <2>2
    <3>2. accounts[k.name] = v
      BY <3>1 DEF GitHeld, GitOrder, LatestNames
    <3>3. k.name \in Names
      BY DEF Kontos
    <3>4. Claims(v, k.name)
      BY <3>1 DEF Latest, Claims, RowNames
    <3> QED BY <1>3, <2>2, <3>1, <3>2, <3>3, <3>4
  <2> QED BY <2>1, <2>2
<1> QED BY <1>2, <1>6, <1>7

\* The same, when the accounts stay.
LEMMA StillNames ==
    ASSUME GitHeld, accounts' = accounts, Clean' => Clean,
           \A v \in Users : There(v)' => There(v) /\ \A k \in Kontos : Latest(v, k)' => Latest(v, k)
    PROVE  LatestNames'
BY DEF GitHeld, GitOrder, LatestNames

\* What holds then: nothing is lost that was his, and when nothing has failed his row is right.
Settled(u, n, k, to) ==
    /\ accounts' \in Owned /\ prohibited' \in SUBSET Users /\ count' \in Counts
    /\ to.konto \in Kontos /\ accounts' = to.accounts
    /\ CameTo(u, n, k, accounts')
    /\ to.konto = k \/ (to.konto.name = n /\ accounts'[n] = u)
    /\ Clean' => /\ Clean /\ (to.konto.name # NoName => accounts'[to.konto.name] = u)
                 /\ ~to.ok => to.konto = k

LEMMA OutcomeDone ==
    ASSUME GitAssumption, GitTypes, NEW u \in Users, NEW as \in People, as.name \in Names, NEW k \in Kontos,
           k.name = NoName => accounts[as.name] \in {NoUser, u},
           k.name # NoName => accounts[k.name] \in {NoUser, u},
           k.name # NoName /\ Clean => accounts[k.name] = u,
           NEW to \in Outcomes(u, as, k), accounts' = to.accounts, prohibited' = to.prohibited, Recorded,
           Clean' => to \in {Cared(u, as, k), AsBefore(k, FALSE)}
    PROVE  Settled(u, as.name, k, to)
<1>1. count' \in Counts /\ (Clean' => Clean /\ to \in {Cared(u, as, k), AsBefore(k, FALSE)})
  BY DEF Recorded
<1>2. accounts \in Owned /\ prohibited \in SUBSET Users
  BY DEF GitTypes
<1>3. to \in States
  BY <1>1, <1>2, OutcomeTyped
<1>4. Brings(u, as.name, k, to) /\ (to \in {Cared(u, as, k), AsBefore(k, FALSE)} => Whole(u, k, to))
  BY <1>1, <1>2, OutcomeMoves
<1>5. to.accounts \in Owned /\ to.prohibited \in SUBSET Users /\ to.konto \in Kontos
  BY <1>3 DEF States
<1>6. Clean' => Clean /\ (to.konto.name # NoName => accounts'[to.konto.name] = u) /\ (~to.ok => to.konto = k)
  BY <1>1, <1>4 DEF Whole
<1>7. CameTo(u, as.name, k, accounts')
  BY <1>1, <1>4 DEF Brings
<1>8. to.konto = k \/ (to.konto.name = as.name /\ accounts'[as.name] = u)
  BY <1>1, <1>4 DEF Brings
<1> QED BY <1>1, <1>5, <1>6, <1>7, <1>8 DEF Settled

LEMMA CaresMoves ==
    ASSUME GitAssumption, GitTypes, NEW u \in Users, NEW as \in People, as.name \in Names, NEW k \in Kontos,
           k.name = NoName => accounts[as.name] \in {NoUser, u},
           k.name # NoName => accounts[k.name] \in {NoUser, u},
           k.name # NoName /\ Clean => accounts[k.name] = u,
           NEW to, Cares(u, as, k, to)
    PROVE  Settled(u, as.name, k, to)
<1>1. /\ to \in Outcomes(u, as, k) /\ accounts' = to.accounts /\ prohibited' = to.prohibited
      /\ Recorded /\ (Clean' => to \in {Cared(u, as, k), AsBefore(k, FALSE)})
  BY CaresDoes DEF GitTypes, Recorded
<1> QED BY <1>1, OutcomeDone

-----------------------------------------------------------------------------
\* The steps that leave people, rows and accounts alone.
LEMMA JobMoves ==
    ASSUME GitTypes, NEW x \in Workers, NEW j \in Jobs, Works(x, j)
    PROVE  /\ work' \in [Workers -> Jobs] /\ work'[x] = j
           /\ \A y \in Workers \ {x} : work'[y] = work[y]
BY DEF GitTypes, Works

LEMMA WorkKeeps ==
    ASSUME GitHeld, NEW x \in Workers, NEW j \in Jobs, Works(x, j), Recorded,
           work[x].pc # "accounts", j.pc # "accounts", j.konto = work[x].konto \/ j.konto = <<>>,
           UNCHANGED <<user, konto, pending, accounts>>
    PROVE  GitOrder'
<1>1. /\ work'[x] = j /\ \A y \in Workers \ {x} : work'[y] = work[y]
  BY JobMoves DEF GitHeld
<1>2. DOMAIN work[x].konto = {} /\ DOMAIN j.konto = {}
  BY NothingCarried DEF GitHeld, GitOrder, OneAtWork
<1>3. \A y \in Workers, u \in Users : Holds(y, u)' <=> Holds(y, u)
  BY <1>1, <1>2 DEF Holds
<1>4. /\ \A u \in Users : (There(u)' <=> There(u)) /\ (Named(u)' <=> Named(u)) /\ (InHand(u)' <=> InHand(u))
      /\ \A y \in Workers, u \in Users : Holds(y, u) => work'[y] = work[y]
  BY <1>1, <1>2, <1>3 DEF There, Named, InHand, Holds
<1>5. \A y \in Workers : work'[y].pc = "accounts" => work'[y] = work[y]
  BY <1>1
<1>6. ASSUME NEW u \in Users, NEW m \in Names
      PROVE  (Claims(u, m)' => Claims(u, m)) /\ (RowNames(u, m)' => RowNames(u, m))
  BY <1>3, <1>4, <1>5 DEF Claims, RowNames
<1>7. ASSUME NEW u \in Users, NEW k \in Kontos
      PROVE  Latest(u, k)' => Latest(u, k)
  BY <1>3, <1>4 DEF Latest
<1>8. OneAtWork'
  BY <1>1, <1>2, <1>3, <1>4 DEF GitHeld, GitOrder, OneAtWork
<1>9. ClaimsApart' /\ ClaimsOwn'
  BY <1>4, <1>6, StillKeeps
<1>10. LatestNames'
  BY <1>4, <1>7, StillNames DEF Recorded
<1> QED BY <1>8, <1>9, <1>10 DEF GitOrder

LEMMA RestKeeps ==
    ASSUME GitHeld, Recorded, UNCHANGED <<user, konto, pending, accounts, work>>
    PROVE  GitOrder'
<1>1. /\ \A u \in Users : (There(u)' <=> There(u)) /\ (Named(u)' <=> Named(u)) /\ (InHand(u)' <=> InHand(u))
      /\ \A y \in Workers, u \in Users : Holds(y, u)' <=> Holds(y, u)
  BY DEF There, Named, InHand, Holds
<1>2. ASSUME NEW u \in Users, NEW m \in Names
      PROVE  (Claims(u, m)' => Claims(u, m)) /\ (RowNames(u, m)' => RowNames(u, m))
  BY <1>1 DEF Claims, RowNames
<1>3. ASSUME NEW u \in Users, NEW k \in Kontos
      PROVE  Latest(u, k)' => Latest(u, k)
  BY <1>1 DEF Latest
<1>4. OneAtWork'
  BY <1>1 DEF GitHeld, GitOrder, OneAtWork
<1>5. ClaimsApart' /\ ClaimsOwn'
  BY <1>1, <1>2, StillKeeps
<1>6. LatestNames'
  BY <1>1, <1>3, StillNames DEF Recorded
<1> QED BY <1>4, <1>5, <1>6 DEF GitOrder

LEMMA TokenTyped == GitAssumption => NoToken \in Tokens
<1> SUFFICES ASSUME GitAssumption PROVE NoToken \in Tokens
  OBVIOUS
<1>1. 0 \in 0 .. MaxTokens
  BY DEF GitAssumption
<1> QED BY <1>1 DEF NoToken, Tokens

LEMMA SwitchKeeps ==
    ASSUME GitHeld, NEW x \in Workers, SwitchBegins(x) \/ Switched(x)
    PROVE  GitTypes' /\ GitOrder'
<1>1. /\ work[x] \in Jobs /\ Idle \in Jobs /\ Idle.pc = "idle" /\ Idle.konto = <<>>
      /\ count.secrets + 1 \in Nat /\ GitTypes
      /\ \A pc \in Stages : /\ [work[x] EXCEPT !.pc = pc] \in Jobs
                            /\ [work[x] EXCEPT !.pc = pc].pc = pc
                            /\ [work[x] EXCEPT !.pc = pc].konto = work[x].konto
      /\ {"container", "source", "commit", "read", "users"} \subseteq Stages
  <2>1. work[x] \in Jobs /\ count.secrets \in Nat
    BY DEF GitHeld, GitTypes, Counts
  <2>2. ASSUME NEW pc \in Stages
        PROVE  /\ [work[x] EXCEPT !.pc = pc] \in Jobs
               /\ [work[x] EXCEPT !.pc = pc].pc = pc
               /\ [work[x] EXCEPT !.pc = pc].konto = work[x].konto
    BY <2>1, JobGoes
  <2> QED BY <2>1, <2>2, IdleIsJob DEF Stages, GitHeld
<1>2. /\ UNCHANGED <<user, konto, pending, accounts, prohibited, row, flushed>> /\ on' \in BOOLEAN
      /\ work[x].pc # "accounts" /\ Recorded
      /\ \E j \in Jobs : /\ Works(x, j) /\ j.pc # "accounts"
                         /\ j.konto = work[x].konto \/ j.konto = <<>>
  <2>1. CASE SwitchBegins(x)
    <3> PICK j : j = [work[x] EXCEPT !.pc = "container", !.secret = count.secrets + 1]
      OBVIOUS
    <3>1. j \in Jobs /\ j.pc = "container" /\ j.konto = work[x].konto
      BY <1>1 DEF Jobs
    <3>2. Recorded
      BY <1>1, <2>1, TalliedStays DEF SwitchBegins, GitTypes
    <3> QED BY <1>1, <2>1, <3>1, <3>2 DEF SwitchBegins, MayWork, GitTypes, forgejoVars, placeVars, peopleVars
  <2>2. ASSUME AfterFailure(x)
        PROVE  \E j \in Jobs : /\ Works(x, j) /\ j.pc # "accounts"
                               /\ j.konto = work[x].konto \/ j.konto = <<>>
    BY <1>1, <2>2 DEF AfterFailure, Goes, GivesUp
  <2>3. ASSUME NEW pc \in {"container", "source", "commit", "read", "users"}, Goes(x, pc)
        PROVE  \E j \in Jobs : /\ Works(x, j) /\ j.pc # "accounts"
                               /\ j.konto = work[x].konto \/ j.konto = <<>>
    BY <1>1, <2>3 DEF Goes
  <2>3a. UNCHANGED count => Recorded
    BY <1>1, UncountedStays
  <2>4. Fault => Recorded
    BY <1>1, TalliedStays DEF Fault, GitTypes
  <2>5. CASE SwitchContainer(x)
    BY <1>1, <2>3a, <2>2, <2>3, <2>4, <2>5 DEF SwitchContainer, GitTypes, forgejoVars, placeVars, peopleVars
  <2>6. CASE SwitchSource(x)
    BY <1>1, <2>3a, <2>2, <2>3, <2>4, <2>6 DEF SwitchSource, GitTypes, forgejoVars, placeVars, peopleVars
  <2>7. CASE SwitchCommits(x)
    BY <1>1, <2>3a, <2>3, <2>7 DEF SwitchCommits, GitTypes, forgejoVars, placeVars, peopleVars
  <2> QED BY <2>1, <2>5, <2>6, <2>7 DEF Switched
<1>3. GitTypes'
  BY <1>1, <1>2, JobMoves DEF GitTypes, Recorded
<1> QED BY <1>2, <1>3, WorkKeeps, UncountedStays

LEMMA TaktKeeps ==
    ASSUME GitHeld, NEW x \in Workers, TaktBegins \/ Sweeping \/ RunBegins(x)
    PROVE  GitTypes' /\ GitOrder'
<1>1. /\ "takt" \in Workers /\ work["takt"] \in Jobs /\ work[x] \in Jobs /\ GitTypes
      /\ Idle \in Jobs /\ Idle.konto = <<>> /\ NoToken \in Tokens
      /\ {"read", "sweep", "users"} \subseteq Stages
  BY IdleIsJob, TokenTyped DEF GitHeld, GitAssumption, GitTypes, Stages
<1>2. CASE TaktBegins
  <2>1. /\ [work["takt"] EXCEPT !.pc = "read"] \in Jobs
        /\ [work["takt"] EXCEPT !.pc = "read"].pc = "read"
        /\ [work["takt"] EXCEPT !.pc = "read"].konto = work["takt"].konto
    BY <1>1, JobGoes
  <2>2. /\ Works("takt", [work["takt"] EXCEPT !.pc = "read"]) /\ work["takt"].pc = "idle"
        /\ UNCHANGED <<on, user, konto, pending, accounts, prohibited, row, flushed, count>>
    BY <1>2 DEF TaktBegins, Goes, MayWork, forgejoVars, placeVars, peopleVars
  <2>3. GitTypes'
    BY <1>1, <2>1, <2>2, JobMoves DEF GitTypes, Recorded
  <2> QED BY <1>1, <2>1, <2>2, <2>3, WorkKeeps, UncountedStays
<1>3. CASE RunBegins(x)
  <2>1. /\ [work[x] EXCEPT !.pc = "users"] \in Jobs
        /\ [work[x] EXCEPT !.pc = "users"].pc = "users"
        /\ [work[x] EXCEPT !.pc = "users"].konto = work[x].konto
    BY <1>1, JobGoes
  <2>2. /\ Works(x, [work[x] EXCEPT !.pc = "users"]) /\ work[x].pc = "idle"
        /\ UNCHANGED <<on, user, konto, pending, accounts, prohibited, row, flushed, count>>
    BY <1>3 DEF RunBegins, Goes, MayWork, forgejoVars, placeVars, peopleVars
  <2>3. GitTypes'
    BY <1>1, <2>1, <2>2, JobMoves DEF GitTypes, Recorded
  <2> QED BY <1>1, <2>1, <2>2, <2>3, WorkKeeps, UncountedStays
<1>4. CASE SweepReads
  <2>1. row \in Read /\ {p \in Places : row[p] # NoToken /\ ~Live(p)} \in SUBSET (Users \cup Places)
    BY <1>1 DEF GitTypes, Read
  <2> DEFINE left == {p \in Places : row[p] # NoToken /\ ~Live(p)}
  <2> HIDE DEF left
  <2> PICK j : j = [work["takt"] EXCEPT !.pc = "sweep", !.drop = {}, !.seen = row, !.left = left]
    OBVIOUS
  <2>2. j \in Jobs /\ j.pc = "sweep" /\ j.konto = work["takt"].konto
    <3>1. left \in SUBSET (Users \cup Places)
      BY <2>1 DEF left
    <3> QED BY <1>1, <2>1, <3>1 DEF Jobs
  <2>3. /\ Works("takt", j) /\ work["takt"].pc = "read"
        /\ UNCHANGED <<on, user, konto, pending, accounts, prohibited, row, flushed, count>>
    BY <1>4 DEF SweepReads, forgejoVars, placeVars, left, peopleVars
  <2>4. GitTypes'
    BY <1>1, <2>2, <2>3, JobMoves DEF GitTypes, Recorded
  <2> QED BY <1>1, <2>2, <2>3, <2>4, WorkKeeps, UncountedStays
<1>5. ASSUME NEW p \in Places, SweepRevokes(p)
      PROVE  GitTypes' /\ GitOrder'
  <2>1. PICK gone \in BOOLEAN :
          /\ Revoked(work["takt"].seen[p], gone)
          /\ Works("takt", [work["takt"] EXCEPT !.left = @ \ {p},
                                               !.drop = IF gone THEN @ \cup {p} ELSE @])
    BY <1>5 DEF SweepRevokes, peopleVars
  <2> DEFINE left == work["takt"].left \ {p}
             drop == IF gone THEN work["takt"].drop \cup {p} ELSE work["takt"].drop
  <2>2. left \in SUBSET (Users \cup Places) /\ drop \in SUBSET Places
    BY <1>1, JobOf
  <2>3. Works("takt", [work["takt"] EXCEPT !.left = left, !.drop = drop])
    BY <2>1
  <2> HIDE DEF left, drop
  <2> PICK j : j = [work["takt"] EXCEPT !.left = left, !.drop = drop]
    OBVIOUS
  <2>4. j \in Jobs /\ j.pc = work["takt"].pc /\ j.konto = work["takt"].konto
    BY <1>1, <2>2 DEF Jobs
  <2>5. /\ Works("takt", j) /\ work["takt"].pc = "sweep" /\ Recorded
        /\ UNCHANGED <<on, user, konto, pending, accounts, prohibited, row, flushed>>
    <3>1. (Fault => Recorded) /\ (UNCHANGED count => Recorded)
      BY <1>1, TalliedStays, UncountedStays DEF Fault, GitTypes
    <3> QED BY <1>1, <1>5, <2>1, <2>3, <2>4, <3>1 DEF SweepRevokes, Revoked, placeVars, GitTypes, peopleVars
  <2>6. GitTypes'
    BY <1>1, <2>4, <2>5, JobMoves DEF GitTypes, Recorded
  <2> QED BY <1>1, <2>4, <2>5, <2>6, WorkKeeps, UncountedStays
<1>6. CASE SweepCommits
  <2>1. /\ [Idle EXCEPT !.pc = "users"] \in Jobs /\ [Idle EXCEPT !.pc = "users"].pc = "users"
        /\ [Idle EXCEPT !.pc = "users"].konto = <<>>
    BY <1>1, JobGoes
  <2>2. /\ Works("takt", [Idle EXCEPT !.pc = "users"]) /\ work["takt"].pc = "sweep"
        /\ UNCHANGED <<on, user, konto, pending, accounts, prohibited, flushed, count>>
        /\ row' = [p \in Places |-> IF p \in work["takt"].drop THEN NoToken ELSE row[p]]
    BY <1>6 DEF SweepCommits, forgejoVars, peopleVars
  <2>3. row' \in [Places -> Tokens]
    BY <1>1, <2>2 DEF GitTypes
  <2>4. GitTypes'
    BY <1>1, <2>1, <2>2, <2>3, JobMoves DEF GitTypes, Recorded
  <2> QED BY <1>1, <2>1, <2>2, <2>4, WorkKeeps, UncountedStays
<1> QED BY <1>2, <1>3, <1>4, <1>5, <1>6 DEF Sweeping

-----------------------------------------------------------------------------
\* Workspaces that begin and end, the service going off and being made anew.
LEMMA PlainKeeps ==
    ASSUME GitHeld,
           \/ SwitchOff \/ Update
           \/ \E p \in Places : StartBegins(p) \/ Closes(p) \/ ClosesQuietly(p)
    PROVE  GitTypes' /\ GitOrder'
<1>1. GitTypes /\ NoToken \in Tokens
  BY TokenTyped DEF GitHeld
<1>2. /\ \A what \in {"offs", "updates", "faults"} : Tallied(what) => Recorded
      /\ UNCHANGED count => Recorded
  BY <1>1, TalliedStays, UncountedStays DEF GitTypes
<1>3. CASE SwitchOff
  <2>1. /\ UNCHANGED <<user, konto, pending, accounts, prohibited, work, flushed>> /\ on' \in BOOLEAN /\ Recorded
        /\ row' = [p \in Places |-> NoToken]
    BY <1>2, <1>3 DEF SwitchOff, forgejoVars, peopleVars
  <2>2. GitTypes'
    BY <1>1, <2>1 DEF GitTypes, Recorded
  <2> QED BY <1>2, <2>1, <2>2, RestKeeps
<1>4. CASE Update
  <2>1. UNCHANGED <<on, user, konto, pending, accounts, prohibited, work, row, flushed>> /\ Recorded
    BY <1>2, <1>4 DEF Update, forgejoVars, placeVars, peopleVars
  <2>2. GitTypes'
    BY <1>1, <2>1 DEF GitTypes, Recorded
  <2> QED BY <1>2, <2>1, <2>2, RestKeeps
<1>5. ASSUME NEW p \in Places, StartBegins(p) \/ ClosesQuietly(p)
      PROVE  GitTypes' /\ GitOrder'
  <2>1. UNCHANGED <<on, user, konto, pending, accounts, prohibited, work, row, flushed, count>>
    BY <1>5 DEF StartBegins, ClosesQuietly, forgejoVars, peopleVars
  <2>2. GitTypes'
    BY <1>1, <2>1 DEF GitTypes, Recorded
  <2> QED BY <1>2, <2>1, <2>2, RestKeeps
<1>6. ASSUME NEW p \in Places, Closes(p)
      PROVE  GitTypes' /\ GitOrder'
  <2>1. PICK gone \in BOOLEAN : /\ Revoked(row[p], gone)
                                /\ row' = [row EXCEPT ![p] = IF gone THEN NoToken ELSE @]
    BY <1>6 DEF Closes, peopleVars
  <2>2. UNCHANGED <<on, user, konto, pending, accounts, prohibited, work, flushed>>
    BY <1>6 DEF Closes, peopleVars
  <2>3. Recorded
    BY <1>1, <1>2, <2>1 DEF Revoked, Fault, GitTypes
  <2>4. row' \in [Places -> Tokens]
    BY <1>1, <2>1 DEF GitTypes
  <2>5. GitTypes'
    BY <1>1, <2>2, <2>3, <2>4 DEF GitTypes, Recorded
  <2> QED BY <2>2, <2>3, <2>5, RestKeeps
<1> QED BY <1>3, <1>4, <1>5, <1>6

LEMMA RunReadsKeeps ==
    ASSUME GitHeld, NEW x \in Workers, RunReads(x)
    PROVE  GitTypes' /\ GitOrder'
<1> DEFINE left == {u \in Users : on /\ user[u].there}
<1>1. /\ work[x] \in Jobs /\ user \in Read /\ GitTypes /\ user \in [Users -> People]
      /\ left \in SUBSET (Users \cup Places) /\ left \subseteq Users
      /\ \A u \in left : There(u) /\ user[u].name \in Names
  BY DEF GitHeld, GitTypes, GitOrder, OneAtWork, Read, There
<1>2. /\ work[x].pc = "users"
      /\ UNCHANGED <<on, user, konto, pending, accounts, prohibited, row, flushed, count>>
      /\ Works(x, [work[x] EXCEPT !.pc = "accounts", !.seen = user, !.secret = 0, !.left = left])
  BY DEF RunReads, forgejoVars, placeVars, peopleVars
<1> HIDE DEF left
<1> PICK j : j = [work[x] EXCEPT !.pc = "accounts", !.seen = user, !.secret = 0, !.left = left]
  OBVIOUS
<1>3. /\ j \in Jobs /\ j.pc = "accounts" /\ j.konto = work[x].konto /\ j.seen = user /\ j.left = left
  <2>1. "accounts" \in Stages
    BY DEF Stages
  <2> QED BY <1>1, <2>1 DEF Jobs
<1>4. /\ work' \in [Workers -> Jobs] /\ work'[x] = j /\ \A y \in Workers \ {x} : work'[y] = work[y]
  BY <1>1, <1>2, <1>3, JobMoves
<1>5. DOMAIN j.konto = {} /\ DOMAIN work[x].konto = {}
  BY <1>2, <1>3 DEF GitHeld, GitOrder, OneAtWork
<1>6. /\ \A y \in Workers, u \in Users : Holds(y, u)' <=> Holds(y, u)
      /\ \A y \in Workers, u \in Users : Holds(y, u) => work'[y].konto = work[y].konto
  BY <1>3, <1>4 DEF Holds
<1>7. \A u \in Users : (There(u)' <=> There(u)) /\ (Named(u)' <=> Named(u)) /\ (InHand(u)' <=> InHand(u))
  BY <1>2, <1>6 DEF InHand, There, Named
<1>8. ASSUME NEW u \in Users, NEW m \in Names
      PROVE  (Claims(u, m)' => Claims(u, m)) /\ (RowNames(u, m)' => RowNames(u, m))
  <2>1. RowNames(u, m)' => RowNames(u, m)
    BY <1>2, <1>6 DEF RowNames
  <2>2. ASSUME NEW y \in Workers, work'[y].pc = "accounts", u \in work'[y].left, m = work'[y].seen[u].name
        PROVE  Claims(u, m)
    BY <1>3, <1>4, <2>2 DEF Claims
  <2> QED BY <1>2, <2>1, <2>2 DEF Claims
<1>9. ASSUME NEW u \in Users, NEW k \in Kontos
      PROVE  Latest(u, k)' => Latest(u, k)
  BY <1>2, <1>6, <1>7 DEF Latest
<1>10. OneAtWork'
  <2>1. ASSUME NEW y \in Workers
        PROVE  /\ work'[y].pc # "accounts" => DOMAIN work'[y].konto = {}
               /\ work'[y].pc = "accounts" =>
                    /\ work'[y].seen \in [Users -> People] /\ DOMAIN work'[y].konto \subseteq Users
                    /\ \A u \in DOMAIN work'[y].konto : There(u)' /\ work'[y].konto[u].name \in Names
                    /\ \A u \in work'[y].left :
                         /\ u \in Users /\ There(u)' /\ u \notin DOMAIN work'[y].konto
                         /\ work'[y].seen[u].name \in Names
    <3>1. CASE y = x
      BY <1>1, <1>3, <1>4, <1>5, <1>7, <3>1
    <3>2. CASE y # x
      BY <1>4, <1>7, <3>2 DEF GitHeld, GitOrder, OneAtWork
    <3> QED BY <3>1, <3>2
  <2>2. /\ \A y, z \in Workers, u \in Users : Holds(y, u)' /\ Holds(z, u)' => y = z
        /\ \A y \in Workers, u \in Users : Holds(y, u)' => pending'[u] = NoPending
        /\ \A u \in Users : There(u)' => user'[u].name \in Names
        /\ \A u \in Users : pending'[u] # NoPending =>
             /\ There(u)' /\ pending'[u].by # "nobody" /\ pending'[u].name \in Names
             /\ Named(u)' => pending'[u].konto.name # NoName
    BY <1>2, <1>6, <1>7 DEF GitHeld, GitOrder, OneAtWork
  <2> QED BY <2>1, <2>2 DEF OneAtWork
<1>11. Recorded
  BY <1>1, <1>2, UncountedStays
<1>12. ClaimsApart' /\ ClaimsOwn'
  BY <1>2, <1>7, <1>8, StillKeeps
<1>13. LatestNames'
  BY <1>2, <1>7, <1>9, <1>11, StillNames DEF Recorded
<1>14. GitTypes'
  BY <1>1, <1>2, <1>4 DEF GitTypes
<1> QED BY <1>10, <1>12, <1>13, <1>14 DEF GitOrder

\* A round takes care of one account; the row it is to get is read on, not written yet.
LEMMA RunCaresKeeps ==
    ASSUME GitHeld, NEW x \in Workers, NEW u \in Users, RunCares(x, u)
    PROVE  GitTypes' /\ GitOrder'
<1> DEFINE job == work[x]
           as == job.seen[u]
           n == as.name
           k == konto[u]
<1>1. PICK to \in Outcomes(u, as, k) :
        /\ Cares(u, as, k, to)
        /\ Works(x, [job EXCEPT !.left = @ \ {u},
               !.konto = [v \in DOMAIN @ \cup (IF to.konto = k THEN {} ELSE {u}) |->
                             IF v = u THEN to.konto ELSE job.konto[v]]])
  BY DEF RunCares
<1>2. /\ job.pc = "accounts" /\ u \in job.left /\ ~InHand(u)
      /\ UNCHANGED <<on, user, konto, pending, row, flushed>>
  BY DEF RunCares, placeVars, peopleVars
<1>3. /\ GitTypes /\ job \in Jobs /\ job.konto \in Carried /\ DOMAIN job.konto \subseteq Users
      /\ job.left \in SUBSET (Users \cup Places) /\ GitAssumption
      /\ job.seen \in [Users -> People] /\ as \in People /\ n \in Names
      /\ There(u) /\ u \notin DOMAIN job.konto /\ pending[u] = NoPending
      /\ \A y \in Workers : ~Holds(y, u)
  <2>1. GitTypes /\ job \in Jobs /\ GitAssumption
    BY DEF GitHeld, GitTypes
  <2>2. /\ DOMAIN job.konto \subseteq Users /\ job.seen \in [Users -> People]
        /\ There(u) /\ n \in Names /\ u \notin DOMAIN job.konto
    BY <1>2 DEF GitHeld, GitOrder, OneAtWork
  <2>3. pending[u] = NoPending /\ \A y \in Workers : ~Holds(y, u)
    BY <1>2 DEF InHand
  <2> QED BY <1>2, <2>1, <2>2, <2>3, JobOf
<1>4. /\ Claims(u, n) /\ k \in Kontos /\ NoName \notin Names
      /\ k.name = NoName => accounts[n] \in {NoUser, u}
      /\ k.name # NoName => accounts[k.name] \in {NoUser, u}
      /\ k.name # NoName /\ Clean => accounts[k.name] = u
      /\ Clear(u, n) /\ NoOneElse(n, u) /\ (RowNames(u, n) \/ ~Named(u) => accounts[n] \in {NoUser, u})
  <2>1. Claims(u, n)
    BY <1>2 DEF Claims
  <2>2. Clear(u, n) /\ NoOneElse(n, u) /\ (RowNames(u, n) \/ ~Named(u) => accounts[n] \in {NoUser, u})
    BY <1>3, <2>1, ClaimedClear
  <2> QED BY <1>2, <1>3, <2>1, <2>2, PersonOf DEF Named
<1> HIDE DEF n
<1>5. /\ accounts' \in Owned /\ prohibited' \in SUBSET Users /\ count' \in Counts
      /\ to.konto \in Kontos /\ CameTo(u, n, k, accounts')
      /\ to.konto = k \/ (to.konto.name = n /\ accounts'[n] = u)
      /\ Clean' => Clean /\ (to.konto.name # NoName => accounts'[to.konto.name] = u)
  BY <1>1, <1>3, <1>4, CaresMoves DEF n, Settled
<1> HIDE DEF k
<1> DEFINE left == job.left \ {u}
           konten == [v \in DOMAIN job.konto \cup (IF to.konto = k THEN {} ELSE {u}) |->
                             IF v = u THEN to.konto ELSE job.konto[v]]
<1>8. /\ left \in SUBSET (Users \cup Places) /\ left \subseteq job.left /\ u \notin left
      /\ konten \in Carried
      /\ DOMAIN konten = DOMAIN job.konto \cup (IF to.konto = k THEN {} ELSE {u})
      /\ \A v \in DOMAIN job.konto : konten[v] = job.konto[v]
      /\ to.konto # k => konten[u] = to.konto
  <2>1. \A v \in DOMAIN job.konto : job.konto[v] \in Kontos
    BY <1>3 DEF Carried
  <2>2. konten \in Carried
    <3>1. DOMAIN konten \in SUBSET Users
      BY <1>3
    <3>2. konten \in [DOMAIN konten -> Kontos]
      BY <1>5, <2>1
    <3> QED BY <3>1, <3>2 DEF Carried
  <2> QED BY <1>3, <2>2
<1>9. Works(x, [job EXCEPT !.left = left, !.konto = konten])
  BY <1>1 DEF k
<1> HIDE DEF left, konten
<1> PICK j : j = [job EXCEPT !.left = left, !.konto = konten]
  OBVIOUS
<1>10. /\ j \in Jobs /\ j.pc = "accounts" /\ j.seen = job.seen /\ j.left = left /\ j.konto = konten
  BY <1>2, <1>3, <1>8 DEF Jobs
<1>11. /\ work' \in [Workers -> Jobs] /\ work'[x] = j /\ \A y \in Workers \ {x} : work'[y] = work[y]
  BY <1>3, <1>9, <1>10, JobMoves
<1>12. GitTypes'
  BY <1>2, <1>3, <1>5, <1>11 DEF GitTypes
<1>13. /\ \A y \in Workers, v \in Users : v # u =>
             /\ Holds(y, v)' <=> Holds(y, v)
             /\ Holds(y, v) => work'[y].konto[v] = work[y].konto[v]
       /\ \A y \in Workers : Holds(y, u)' => y = x /\ to.konto # k
       /\ to.konto # k => Holds(x, u)' /\ work'[x].konto[u] = to.konto
  <2>1. /\ DOMAIN work'[x].konto = DOMAIN job.konto \cup (IF to.konto = k THEN {} ELSE {u})
        /\ \A v \in DOMAIN job.konto : work'[x].konto[v] = job.konto[v]
        /\ to.konto # k => work'[x].konto[u] = to.konto
        /\ \A y \in Workers \ {x} : work'[y] = work[y] /\ u \notin DOMAIN work[y].konto
    BY <1>3, <1>8, <1>10, <1>11 DEF Holds
  <2>2. ASSUME NEW y \in Workers, NEW v \in Users, v # u
        PROVE  (Holds(y, v)' <=> Holds(y, v)) /\ (Holds(y, v) => work'[y].konto[v] = work[y].konto[v])
    <3>1. CASE y = x
      BY <2>1, <2>2, <3>1 DEF Holds
    <3>2. CASE y # x
      BY <2>1, <2>2, <3>2 DEF Holds
    <3> QED BY <3>1, <3>2
  <2>3. ASSUME NEW y \in Workers, Holds(y, u)'
        PROVE  y = x /\ to.konto # k
    <3>1. y = x
      BY <2>1, <2>3 DEF Holds
    <3> QED BY <1>3, <2>1, <2>3, <3>1 DEF Holds
  <2>4. to.konto # k => Holds(x, u)'
    BY <2>1 DEF Holds
  <2> QED BY <2>1, <2>2, <2>3, <2>4
<1>14. \A v \in Users : (There(v)' <=> There(v)) /\ (Named(v)' <=> Named(v))
  BY <1>2 DEF There, Named
<1>15. ASSUME NEW v \in Users \ {u}, NEW m \in Names
       PROVE  (Claims(v, m)' => Claims(v, m)) /\ (RowNames(v, m)' => RowNames(v, m))
  <2>1. RowNames(v, m)' => RowNames(v, m)
    BY <1>2, <1>13 DEF RowNames
  <2>2. ASSUME NEW y \in Workers, work'[y].pc = "accounts", v \in work'[y].left, m = work'[y].seen[v].name
        PROVE  Claims(v, m)
    <3>1. work[y].pc = "accounts" /\ v \in work[y].left /\ work'[y].seen = work[y].seen
      BY <1>2, <1>8, <1>10, <1>11, <2>2
    <3> QED BY <2>2, <3>1 DEF Claims
  <2> QED BY <1>2, <2>1, <2>2 DEF Claims
<1>16. ASSUME NEW v \in Users \ {u}, NEW c \in Kontos
       PROVE  Latest(v, c)' => Latest(v, c)
  <2>1. InHand(v)' <=> InHand(v)
    BY <1>2, <1>13 DEF InHand
  <2> QED BY <1>2, <1>13, <2>1 DEF Latest
<1>17. ASSUME NEW m \in Names
       PROVE  /\ Claims(u, m)' => Claims(u, m) \/ m = n
              /\ RowNames(u, m)' => RowNames(u, m) \/ (m = n /\ accounts'[n] = u)
  <2>1. RowNames(u, m)' => RowNames(u, m) \/ (m = n /\ accounts'[n] = u)
    BY <1>2, <1>5, <1>13 DEF RowNames
  <2>2. ASSUME NEW y \in Workers, work'[y].pc = "accounts", u \in work'[y].left, m = work'[y].seen[u].name
        PROVE  Claims(u, m)
    <3>1. work[y].pc = "accounts" /\ u \in work[y].left /\ work'[y].seen = work[y].seen
      BY <1>2, <1>8, <1>10, <1>11, <2>2
    <3> QED BY <2>2, <3>1 DEF Claims
  <2> QED BY <1>2, <2>1, <2>2 DEF Claims
<1>18. ASSUME NEW c \in Kontos, Latest(u, c)'
       PROVE  c = to.konto
  <2>1. pending'[u] = NoPending
    BY <1>2, <1>3
  <2>2. CASE to.konto = k
    <3>1. \A y \in Workers : ~Holds(y, u)'
      BY <1>13, <2>2
    <3> QED BY <1>2, <1>18, <2>1, <2>2, <3>1 DEF Latest, k
  <2>3. CASE to.konto # k
    <3>1. InHand(u)'
      BY <1>13, <2>3 DEF InHand
    <3> QED BY <1>13, <1>18, <2>1, <2>3, <3>1 DEF Latest
  <2> QED BY <2>2, <2>3
<1>19. ClaimsApart' /\ ClaimsOwn' /\ LatestNames'
  <2>1. Clean' => /\ Clean
                  /\ \A c \in Kontos : Latest(u, c)' /\ c.name # NoName => accounts'[c.name] = u
    BY <1>5, <1>18
  <2>2. CameTo(u, n, konto[u], accounts')
    BY <1>5 DEF k
  <2>3. \A v \in Users \ {u} :
               /\ (Named(v) => Named(v)') /\ (\A c \in Kontos : Latest(v, c)' => Latest(v, c))
               /\ \A m \in Names : (Claims(v, m)' => Claims(v, m)) /\ (RowNames(v, m)' => RowNames(v, m))
    BY <1>14, <1>15, <1>16
  <2>4. \A m \in Names : /\ Claims(u, m)' => Claims(u, m) \/ m = n
                         /\ RowNames(u, m)' => RowNames(u, m) \/ (m = n /\ accounts'[n] = u)
    BY <1>17
  <2>5. n \in Names
    BY <1>3 DEF n
  <2> QED BY <1>3, <1>4, <1>14, <2>1, <2>2, <2>3, <2>4, <2>5, CareKeeps
<1>20. OneAtWork'
  <2>1. ASSUME NEW y \in Workers
        PROVE  /\ work'[y].pc # "accounts" => DOMAIN work'[y].konto = {}
               /\ work'[y].pc = "accounts" =>
                    /\ work'[y].seen \in [Users -> People] /\ DOMAIN work'[y].konto \subseteq Users
                    /\ \A v \in DOMAIN work'[y].konto : There(v)' /\ work'[y].konto[v].name \in Names
                    /\ \A v \in work'[y].left :
                         /\ v \in Users /\ There(v)' /\ v \notin DOMAIN work'[y].konto
                         /\ work'[y].seen[v].name \in Names
    <3>1. CASE y = x
      <4>1. ASSUME NEW v \in DOMAIN konten PROVE v \in Users /\ There(v)' /\ konten[v].name \in Names
        <5>1. CASE v = u
          BY <1>3, <1>5, <1>8, <1>14, <4>1, <5>1 DEF n
        <5>2. CASE v # u
          <6>1. v \in DOMAIN job.konto /\ konten[v] = job.konto[v]
            BY <1>8, <4>1, <5>2
          <6>2. There(v) /\ job.konto[v].name \in Names /\ v \in Users
            BY <1>2, <6>1 DEF GitHeld, GitOrder, OneAtWork
          <6> QED BY <1>14, <6>1, <6>2
        <5> QED BY <5>1, <5>2
      <4>2. ASSUME NEW v \in left
            PROVE  /\ v \in Users /\ There(v)' /\ v \notin DOMAIN konten
                   /\ job.seen[v].name \in Names
        <5>1. v \in job.left /\ v # u
          BY <1>8, <4>2
        <5>2. v \in Users /\ There(v) /\ v \notin DOMAIN job.konto /\ job.seen[v].name \in Names
          BY <1>2, <5>1 DEF GitHeld, GitOrder, OneAtWork
        <5> QED BY <1>8, <1>14, <5>1, <5>2
      <4> QED BY <1>3, <1>10, <1>11, <3>1, <4>1, <4>2
    <3>2. CASE y # x
      BY <1>11, <1>14, <3>2 DEF GitHeld, GitOrder, OneAtWork
    <3> QED BY <3>1, <3>2
  <2>2. \A y, z \in Workers, v \in Users : Holds(y, v)' /\ Holds(z, v)' => y = z
    BY <1>13 DEF GitHeld, GitOrder, OneAtWork
  <2>3. \A y \in Workers, v \in Users : Holds(y, v)' => pending'[v] = NoPending
    BY <1>2, <1>3, <1>13 DEF GitHeld, GitOrder, OneAtWork
  <2>4. /\ \A v \in Users : There(v)' => user'[v].name \in Names
        /\ \A v \in Users : pending'[v] # NoPending =>
             /\ There(v)' /\ pending'[v].by # "nobody" /\ pending'[v].name \in Names
             /\ Named(v)' => pending'[v].konto.name # NoName
    BY <1>2, <1>14 DEF GitHeld, GitOrder, OneAtWork
  <2> QED BY <2>1, <2>2, <2>3, <2>4 DEF OneAtWork
<1> QED BY <1>12, <1>19, <1>20 DEF GitOrder

\* The end of a round: what it carried is written, for those who are still there.
LEMMA RunCommitsKeeps ==
    ASSUME GitHeld, NEW x \in Workers, RunCommits(x)
    PROVE  GitTypes' /\ GitOrder'
<1>1. /\ work[x].pc = "accounts" /\ Works(x, Idle)
      /\ konto' = [u \in Users |-> IF user[u].there THEN KontoOf(x, u) ELSE NoKonto]
      /\ UNCHANGED <<on, user, pending, accounts, prohibited, row, flushed, count>>
  BY DEF RunCommits, GivesUp, forgejoVars, placeVars
<1>2. /\ GitTypes /\ Idle \in Jobs /\ Idle.pc = "idle" /\ DOMAIN Idle.konto = {}
      /\ DOMAIN work[x].konto \subseteq Users
      /\ \A v \in DOMAIN work[x].konto : work[x].konto[v] \in Kontos
  <2>1. work[x].konto \in Carried
    BY JobOf DEF GitHeld, GitTypes
  <2> QED BY <1>1, <2>1, IdleIsJob, NothingCarried DEF GitHeld, GitOrder, OneAtWork, Carried
<1>3. /\ work' \in [Workers -> Jobs] /\ work'[x] = Idle /\ \A y \in Workers \ {x} : work'[y] = work[y]
  BY <1>1, <1>2, JobMoves
<1>4. NoKonto \in Kontos /\ \A u \in Users : KontoOf(x, u) \in Kontos
  BY <1>2 DEF NoKonto, Kontos, KontoOf, GitTypes, Holds
<1>5. konto' \in [Users -> Kontos] /\ \A u \in Users : There(u) => konto'[u] = KontoOf(x, u)
  BY <1>1, <1>4 DEF There
<1>6. GitTypes'
  BY <1>1, <1>2, <1>3, <1>5 DEF GitTypes
<1>7. /\ \A y \in Workers \ {x}, v \in Users : Holds(y, v)' <=> Holds(y, v)
      /\ \A v \in Users : ~Holds(x, v)'
      /\ \A v \in Users : Holds(x, v) => pending[v] = NoPending /\ \A y \in Workers \ {x} : ~Holds(y, v)
      /\ \A y \in Workers, v \in Users : Holds(y, v)' => Holds(y, v) /\ work'[y] = work[y]
  <2>1. \A v \in Users : Holds(x, v) => pending[v] = NoPending /\ \A y \in Workers \ {x} : ~Holds(y, v)
    BY DEF GitHeld, GitOrder, OneAtWork
  <2>2. /\ \A y \in Workers \ {x}, v \in Users : Holds(y, v)' <=> Holds(y, v)
        /\ \A v \in Users : ~Holds(x, v)'
    BY <1>2, <1>3 DEF Holds
  <2> QED BY <1>3, <2>1, <2>2
<1>8. ASSUME NEW v \in Users, There(v)
      PROVE  \/ Holds(x, v) /\ konto'[v] = work[x].konto[v] /\ konto'[v].name \in Names /\ ~InHand(v)'
             \/ ~Holds(x, v) /\ konto'[v] = konto[v] /\ (InHand(v)' <=> InHand(v))
  <2>1. CASE Holds(x, v)
    <3>1. konto'[v] = work[x].konto[v]
      BY <1>5, <1>8, <2>1 DEF KontoOf
    <3>2. work[x].konto[v].name \in Names
      BY <1>1, <2>1 DEF GitHeld, GitOrder, OneAtWork, Holds
    <3>3. ~InHand(v)'
      BY <1>1, <1>7, <2>1 DEF InHand
    <3> QED BY <2>1, <3>1, <3>2, <3>3
  <2>2. CASE ~Holds(x, v)
    <3>1. konto'[v] = konto[v]
      BY <1>5, <1>8, <2>2 DEF KontoOf
    <3>2. InHand(v)' <=> InHand(v)
      BY <1>1, <1>7, <2>2 DEF InHand
    <3> QED BY <2>2, <3>1, <3>2
  <2> QED BY <2>1, <2>2
<1>9. \A v \in Users : There(v)' <=> There(v)
  BY <1>1 DEF There
<1>10. ASSUME NEW v \in Users, There(v), NEW m \in Names
       PROVE  (Claims(v, m)' => Claims(v, m)) /\ (RowNames(v, m)' => RowNames(v, m))
  <2>1. RowNames(v, m)' => RowNames(v, m)
    BY <1>1, <1>7, <1>8, <1>10 DEF RowNames
  <2>2. ASSUME NEW y \in Workers, work'[y].pc = "accounts", v \in work'[y].left, m = work'[y].seen[v].name
        PROVE  Claims(v, m)
    <3>1. work'[y] = work[y]
      BY <1>2, <1>3, <2>2
    <3> QED BY <2>2, <3>1 DEF Claims
  <2> QED BY <1>1, <2>1, <2>2 DEF Claims
<1>11. ASSUME NEW v \in Users, There(v), NEW k \in Kontos
       PROVE  Latest(v, k)' => Latest(v, k)
  BY <1>1, <1>7, <1>8, <1>11 DEF Latest
<1>12. \A v \in Users : There(v) /\ Named(v) => Named(v)'
  <2>1. NoName \notin Names
    BY DEF GitHeld, GitAssumption
  <2> QED BY <1>8, <2>1 DEF Named
<1>13. ClaimsApart' /\ ClaimsOwn'
  BY <1>1, <1>9, <1>10, <1>12, StillKeeps
<1>14. LatestNames'
  BY <1>1, <1>2, <1>9, <1>11, StillNames, UncountedStays DEF Recorded
<1>15. OneAtWork'
  <2>1. ASSUME NEW y \in Workers
        PROVE  /\ work'[y].pc # "accounts" => DOMAIN work'[y].konto = {}
               /\ work'[y].pc = "accounts" =>
                    /\ work'[y].seen \in [Users -> People] /\ DOMAIN work'[y].konto \subseteq Users
                    /\ \A v \in DOMAIN work'[y].konto : There(v)' /\ work'[y].konto[v].name \in Names
                    /\ \A v \in work'[y].left :
                         /\ v \in Users /\ There(v)' /\ v \notin DOMAIN work'[y].konto
                         /\ work'[y].seen[v].name \in Names
    <3>1. CASE y = x
      BY <1>2, <1>3, <3>1
    <3>2. CASE y # x
      BY <1>3, <1>9, <3>2 DEF GitHeld, GitOrder, OneAtWork
    <3> QED BY <3>1, <3>2
  <2>2. \A y, z \in Workers, v \in Users : Holds(y, v)' /\ Holds(z, v)' => y = z
    BY <1>7 DEF GitHeld, GitOrder, OneAtWork
  <2>3. \A y \in Workers, v \in Users : Holds(y, v)' => pending'[v] = NoPending
    BY <1>1, <1>7 DEF GitHeld, GitOrder, OneAtWork
  <2>4. /\ \A v \in Users : There(v)' => user'[v].name \in Names
        /\ \A v \in Users : pending'[v] # NoPending =>
             /\ There(v)' /\ pending'[v].by # "nobody" /\ pending'[v].name \in Names
    BY <1>1, <1>9 DEF GitHeld, GitOrder, OneAtWork
  <2>5. ASSUME NEW v \in Users, pending'[v] # NoPending, Named(v)'
        PROVE  pending'[v].konto.name # NoName
    <3>1. pending[v] # NoPending /\ There(v)
      BY <1>1, <2>5 DEF GitHeld, GitOrder, OneAtWork
    <3>2. konto'[v] = konto[v]
      BY <1>7, <1>8, <3>1
    <3> QED BY <1>1, <2>5, <3>1, <3>2 DEF GitHeld, GitOrder, OneAtWork, Named
  <2> QED BY <2>1, <2>2, <2>3, <2>4, <2>5 DEF OneAtWork
<1> QED BY <1>6, <1>13, <1>14, <1>15 DEF GitOrder

-----------------------------------------------------------------------------
LEMMA PendingTyped ==
    ASSUME GitAssumption
    PROVE  /\ NoPending \in Pendings /\ NoPending.by = "nobody" /\ NoPending.name = NoName
           /\ NoPending.konto = NoKonto /\ NoKonto \in Kontos /\ NoKonto.name = NoName
           /\ NoName \notin Names /\ "nobody" \notin Places /\ "nobody" # "sign-in"
BY DEF GitAssumption, NoPending, NoKonto, Pendings, Kontos

\* A transaction has had an account cared for and is yet to commit.
LEMMA FlushKeeps ==
    ASSUME GitHeld, NEW u \in Users, There(u), ~InHand(u), NEW n \in Names, Clear(u, n), NoOneElse(n, u),
           RowNames(u, n) \/ ~Named(u) => accounts[n] \in {NoUser, u},
           NEW c \in Kontos, CameTo(u, n, konto[u], accounts'),
           c = konto[u] \/ (c.name = n /\ accounts'[n] = u),
           Clean' => Clean /\ (c.name # NoName => accounts'[c.name] = u),
           NEW who \in {"sign-in"} \cup Places, Flushes(who, u, n, c), UNCHANGED <<user, konto, work>>
    PROVE  GitOrder' /\ pending' \in [Users -> Pendings]
<1> PICK p : p = [by |-> who, name |-> n, konto |-> c]
  OBVIOUS
<1>1. p \in Pendings /\ p # NoPending /\ p.by # "nobody" /\ p.name = n /\ p.konto = c
  <2>1. p \in Pendings /\ p.by = who /\ p.name = n /\ p.konto = c
    BY DEF Pendings
  <2>2. who # "nobody" /\ NoPending.by = "nobody"
    BY PendingTyped DEF GitHeld
  <2> QED BY <2>1, <2>2
<1>2. /\ pending \in [Users -> Pendings] /\ pending[u] = NoPending /\ \A y \in Workers : ~Holds(y, u)
      /\ NoName \notin Names /\ NoPending.name = NoName
  BY PendingTyped DEF InHand, GitHeld, GitTypes
<1>3. /\ \A v \in Users \ {u} : pending'[v] = pending[v]
      /\ pending' \in [Users -> Pendings]
      /\ \/ pending'[u] = p
         \/ pending'[u] = NoPending /\ n = user[u].name /\ c = konto[u]
  <2>1. CASE pending' = pending /\ n = user[u].name /\ c = konto[u]
    BY <1>2, <2>1
  <2>2. CASE pending' = [pending EXCEPT ![u] = p]
    BY <1>1, <1>2, <2>2
  <2> QED BY <2>1, <2>2 DEF Flushes
<1>4. /\ \A v \in Users : (There(v)' <=> There(v)) /\ (Named(v)' <=> Named(v))
      /\ \A y \in Workers, v \in Users : Holds(y, v)' <=> Holds(y, v)
      /\ \A v \in Users \ {u} : InHand(v)' <=> InHand(v)
  BY <1>3 DEF There, Named, InHand, Holds
<1>5. ASSUME NEW v \in Users \ {u}, NEW m \in Names
      PROVE  (Claims(v, m)' => Claims(v, m)) /\ (RowNames(v, m)' => RowNames(v, m))
  BY <1>3, <1>4 DEF Claims, RowNames
<1>6. ASSUME NEW v \in Users \ {u}, NEW k \in Kontos
      PROVE  Latest(v, k)' => Latest(v, k)
  BY <1>3, <1>4 DEF Latest
<1>7. ASSUME NEW m \in Names
      PROVE  /\ Claims(u, m)' => Claims(u, m) \/ m = n
             /\ RowNames(u, m)' => RowNames(u, m) \/ (m = n /\ accounts'[n] = u)
  <2>1. pending'[u].konto.name = m => RowNames(u, m) \/ (m = n /\ accounts'[n] = u)
    BY <1>1, <1>2, <1>3 DEF RowNames
  <2>2. pending'[u].name = m => m = n
    BY <1>1, <1>2, <1>3
  <2>3. RowNames(u, m)' => RowNames(u, m) \/ (m = n /\ accounts'[n] = u)
    BY <1>4, <2>1 DEF RowNames
  <2> QED BY <1>4, <2>2, <2>3 DEF Claims
<1>8. ASSUME NEW k \in Kontos, Latest(u, k)'
      PROVE  k = c
  BY <1>1, <1>2, <1>3, <1>4, <1>8 DEF Latest, InHand
<1>9. ClaimsApart' /\ ClaimsOwn' /\ LatestNames'
  <2>1. Clean' => /\ Clean
                  /\ \A k \in Kontos : Latest(u, k)' /\ k.name # NoName => accounts'[k.name] = u
    BY <1>8
  <2> QED BY <1>4, <1>5, <1>6, <1>7, <2>1, CareKeeps
<1>10. OneAtWork'
  <2>1. \A y \in Workers, v \in Users : Holds(y, v)' => pending'[v] = NoPending
    BY <1>2, <1>3, <1>4 DEF GitHeld, GitOrder, OneAtWork
  <2>2. ASSUME NEW v \in Users, pending'[v] # NoPending
        PROVE  /\ There(v)' /\ pending'[v].by # "nobody" /\ pending'[v].name \in Names
               /\ Named(v)' => pending'[v].konto.name # NoName
    <3>1. CASE v = u
      BY <1>1, <1>2, <1>3, <1>4, <2>2, <3>1 DEF Named
    <3>2. CASE v # u
      BY <1>3, <1>4, <2>2, <3>2 DEF GitHeld, GitOrder, OneAtWork
    <3> QED BY <3>1, <3>2
  <2> QED BY <1>4, <2>1, <2>2 DEF GitHeld, GitOrder, OneAtWork
<1> QED BY <1>3, <1>9, <1>10 DEF GitOrder

\* It commits.
LEMMA CommitKeeps ==
    ASSUME GitHeld, NEW u \in Users, pending[u] # NoPending, Committed(u), UNCHANGED <<accounts, work, count>>
    PROVE  /\ GitOrder' /\ user' \in [Users -> People] /\ konto' \in [Users -> Kontos]
           /\ pending' \in [Users -> Pendings]
<1>1. /\ There(u) /\ pending[u].name \in Names /\ (Named(u) => pending[u].konto.name # NoName)
      /\ \A y \in Workers : ~Holds(y, u)
  BY DEF GitHeld, GitOrder, OneAtWork
<1>2. /\ user \in [Users -> People] /\ konto \in [Users -> Kontos] /\ pending \in [Users -> Pendings]
      /\ user[u] \in People /\ pending[u].konto \in Kontos
      /\ NoPending \in Pendings /\ NoPending.name = NoName /\ NoPending.konto.name = NoName
      /\ NoName \notin Names
  <2>1. user \in [Users -> People] /\ konto \in [Users -> Kontos] /\ pending \in [Users -> Pendings]
    BY DEF GitHeld, GitTypes
  <2>2. pending[u] \in Pendings
    BY <2>1
  <2> QED BY <2>1, <2>2, PendingTyped DEF GitHeld, Pendings
<1> PICK p : p = [user[u] EXCEPT !.name = pending[u].name]
  OBVIOUS
<1>3. p \in People /\ p.name = pending[u].name /\ p.there = user[u].there
  BY <1>1, <1>2 DEF People
<1>4. user' = [user EXCEPT ![u] = p]
  BY <1>2 DEF Committed
<1>5. /\ user' \in [Users -> People] /\ konto' \in [Users -> Kontos] /\ pending' \in [Users -> Pendings]
      /\ user'[u] = p /\ konto'[u] = pending[u].konto /\ pending'[u] = NoPending
      /\ \A v \in Users \ {u} : user'[v] = user[v] /\ konto'[v] = konto[v] /\ pending'[v] = pending[v]
  BY <1>2, <1>3, <1>4 DEF Committed
<1>6. /\ \A v \in Users : (There(v)' <=> There(v)) /\ (Named(v) => Named(v)')
      /\ \A y \in Workers, v \in Users : Holds(y, v)' <=> Holds(y, v)
  <2>1. ASSUME NEW v \in Users PROVE (There(v)' <=> There(v)) /\ (Named(v) => Named(v)')
    <3>1. CASE v = u
      BY <1>1, <1>3, <1>5, <3>1 DEF There, Named
    <3>2. CASE v # u
      BY <1>5, <3>2 DEF There, Named
    <3> QED BY <3>1, <3>2
  <2> QED BY <2>1 DEF Holds
<1>7. ASSUME NEW v \in Users, NEW m \in Names
      PROVE  (Claims(v, m)' => Claims(v, m)) /\ (RowNames(v, m)' => RowNames(v, m))
  <2>1. CASE v = u
    BY <1>2, <1>3, <1>5, <1>6, <2>1 DEF Claims, RowNames
  <2>2. CASE v # u
    BY <1>5, <1>6, <2>2 DEF Claims, RowNames
  <2> QED BY <2>1, <2>2
<1>8. ASSUME NEW v \in Users, NEW k \in Kontos, Latest(v, k)'
      PROVE  Latest(v, k)
  <2>1. CASE v = u
    BY <1>1, <1>5, <1>6, <1>8, <2>1 DEF Latest
  <2>2. CASE v # u
    BY <1>5, <1>6, <1>8, <2>2 DEF Latest, InHand
  <2> QED BY <2>1, <2>2
<1>9. ClaimsApart' /\ ClaimsOwn'
  BY <1>6, <1>7, StillKeeps
<1>10. LatestNames'
  BY <1>6, <1>8, StillNames DEF Clean
<1>11. OneAtWork'
  <2>1. \A v \in Users : There(v)' => user'[v].name \in Names
    <3>1. \A v \in Users : There(v) => user[v].name \in Names
      BY DEF GitHeld, GitOrder, OneAtWork
    <3> QED BY <1>1, <1>3, <1>5, <1>6, <3>1
  <2>2. \A y \in Workers, v \in Users : Holds(y, v)' => pending'[v] = NoPending
    BY <1>5, <1>6 DEF GitHeld, GitOrder, OneAtWork
  <2>3. ASSUME NEW v \in Users, pending'[v] # NoPending
        PROVE  /\ There(v)' /\ pending'[v].by # "nobody" /\ pending'[v].name \in Names
               /\ Named(v)' => pending'[v].konto.name # NoName
    <3>1. v # u /\ pending'[v] = pending[v] /\ konto'[v] = konto[v]
      BY <1>5, <2>3
    <3> QED BY <1>6, <2>3, <3>1 DEF GitHeld, GitOrder, OneAtWork, Named
  <2> QED BY <1>6, <2>1, <2>2, <2>3 DEF GitHeld, GitOrder, OneAtWork
<1> QED BY <1>5, <1>9, <1>10, <1>11 DEF GitOrder

-----------------------------------------------------------------------------
\* A sign-in, with the name the directory gives.
LEMMA FreeIsClear ==
    ASSUME GitHeld, NEW u \in Users, There(u), NEW n \in Names, n # user[u].name => FreeName(u, n)
    PROVE  /\ Clear(u, n) /\ NoOneElse(n, u)
           /\ RowNames(u, n) \/ ~Named(u) => accounts[n] \in {NoUser, u}
<1>1. CASE n = user[u].name
  BY <1>1, PersonOf, ClaimedClear
<1>2. CASE n # user[u].name
  <2>1. /\ \A v \in Users \ {u} : There(v) => /\ n # user[v].name /\ n # pending[v].name
                                              /\ n # konto[v].name /\ n # pending[v].konto.name
        /\ \/ accounts[n] \in {NoUser, u}
           \/ Named(u) /\ accounts[n] \in {v \in Users : ~There(v)}
        /\ \A x \in Workers : work[x].pc # "accounts"
    BY <1>2 DEF FreeName, There, Named, GitHeld
  <2>2. \A x \in Workers, v \in Users : ~Holds(x, v)
    BY <2>1 DEF GitHeld, GitOrder, OneAtWork, Holds
  <2>3. Clear(u, n)
    BY <2>1, <2>2 DEF Clear, Claims, RowNames
  <2>4. NoOneElse(n, u)
    BY <2>1 DEF NoOneElse
  <2>5. RowNames(u, n) => accounts[n] \in {NoUser, u}
    BY ClaimedClear DEF Claims
  <2> QED BY <2>1, <2>3, <2>4, <2>5
<1> QED BY <1>1, <1>2

LEMMA SignInKeeps ==
    ASSUME GitHeld, NEW u \in Users, NEW n \in Names, SignIn(u, n)
    PROVE  GitTypes' /\ GitOrder'
<1>1. /\ There(u) /\ ~InHand(u) /\ (n # user[u].name => FreeName(u, n))
      /\ UNCHANGED <<on, user, konto, work, row, flushed>>
  BY DEF SignIn, There, placeVars
<1>2. /\ Clear(u, n) /\ NoOneElse(n, u)
      /\ RowNames(u, n) \/ ~Named(u) => accounts[n] \in {NoUser, u}
  BY <1>1, FreeIsClear
<1>3. /\ user[u] \in People /\ konto[u] \in Kontos /\ GitTypes /\ GitAssumption
      /\ konto[u].name # NoName => accounts[konto[u].name] \in {NoUser, u}
      /\ konto[u].name # NoName /\ Clean => accounts[konto[u].name] = u
  BY <1>1, PersonOf DEF GitHeld
<1> PICK as : as = [user[u] EXCEPT !.name = n]
  OBVIOUS
<1>4. as \in People /\ as.name = n
  BY <1>3 DEF People
<1>5. CASE on
  <2>1. PICK to : Cares(u, as, konto[u], to) /\ Flushes("sign-in", u, n, to.konto)
    BY <1>5 DEF SignIn
  <2>2. konto[u].name = NoName => accounts[as.name] \in {NoUser, u}
    BY <1>2, <1>4 DEF Named
  <2>3. Settled(u, n, konto[u], to)
    BY <1>3, <1>4, <2>1, <2>2, CaresMoves
  <2>4. /\ accounts' \in Owned /\ prohibited' \in SUBSET Users /\ count' \in Counts
        /\ to.konto \in Kontos /\ CameTo(u, n, konto[u], accounts')
        /\ to.konto = konto[u] \/ (to.konto.name = n /\ accounts'[n] = u)
        /\ Clean' => Clean /\ (to.konto.name # NoName => accounts'[to.konto.name] = u)
    BY <2>3 DEF Settled
  <2> PICK c \in Kontos : c = to.konto
    BY <2>4
  <2>5. GitOrder' /\ pending' \in [Users -> Pendings]
    BY <1>1, <1>2, <2>1, <2>4, FlushKeeps
  <2> QED BY <1>1, <1>3, <2>4, <2>5 DEF GitTypes
<1>6. CASE ~on
  <2>1. Flushes("sign-in", u, n, konto[u]) /\ UNCHANGED <<accounts, prohibited, count>>
    BY <1>6 DEF SignIn
  <2>2. CameTo(u, n, konto[u], accounts')
    BY <1>3, <2>1 DEF CameTo, GitTypes
  <2>3. Clean' => Clean /\ (konto[u].name # NoName => accounts'[konto[u].name] = u)
    BY <1>3, <2>1 DEF Clean
  <2>5. GitOrder' /\ pending' \in [Users -> Pendings]
    BY <1>1, <1>2, <1>3, <2>1, <2>2, <2>3, FlushKeeps
  <2> QED BY <1>1, <1>3, <2>1, <2>5 DEF GitTypes
<1> QED BY <1>5, <1>6

LEMMA SignInCommitsKeeps ==
    ASSUME GitHeld, NEW u \in Users, SignInCommits(u)
    PROVE  GitTypes' /\ GitOrder'
<1>1. /\ pending[u] # NoPending /\ Committed(u)
      /\ UNCHANGED <<on, accounts, prohibited, row, flushed, work, count>>
  BY PendingTyped DEF SignInCommits, forgejoVars, placeVars, GitHeld
<1>2. /\ GitOrder' /\ user' \in [Users -> People] /\ konto' \in [Users -> Kontos]
      /\ pending' \in [Users -> Pendings]
  BY <1>1, CommitKeeps
<1> QED BY <1>1, <1>2 DEF GitTypes, GitHeld

\* What someone may changes, and his account and his row with it.
LEMMA EntitledKeeps ==
    ASSUME GitHeld, NEW u \in Users, NEW may \in BOOLEAN, Entitled(u, may)
    PROVE  GitTypes' /\ GitOrder'
<1>1. /\ There(u) /\ UNCHANGED <<on, pending, work, row, flushed>>
      /\ user' = [user EXCEPT ![u].may = may]
  BY DEF Entitled, There, placeVars
<1> PICK as : as = [user[u] EXCEPT !.may = may]
  OBVIOUS
<1> PICK n : n = user[u].name
  OBVIOUS
<1>2. /\ user[u] \in People /\ konto[u] \in Kontos /\ GitTypes /\ GitAssumption /\ n \in Names
      /\ konto[u].name # NoName => accounts[konto[u].name] \in {NoUser, u}
      /\ konto[u].name # NoName /\ Clean /\ ~InHand(u) => accounts[konto[u].name] = u
      /\ Claims(u, n) /\ NoName \notin Names
  BY <1>1, PersonOf DEF GitHeld
<1>3. as \in People /\ as.name = n /\ as.there = user[u].there
  BY <1>2 DEF People
<1>4. /\ user' \in [Users -> People] /\ user'[u] = as /\ \A v \in Users \ {u} : user'[v] = user[v]
  BY <1>1, <1>2, <1>3 DEF GitTypes
<1>5. /\ \A v \in Users : (There(v)' <=> There(v)) /\ user'[v].name = user[v].name
      /\ \A y \in Workers, v \in Users : Holds(y, v)' <=> Holds(y, v)
      /\ \A v \in Users : InHand(v)' <=> InHand(v)
  <2>1. \A v \in Users : (There(v)' <=> There(v)) /\ user'[v].name = user[v].name
    BY <1>3, <1>4 DEF There
  <2> QED BY <1>1, <2>1 DEF InHand, Holds
<1>6. ASSUME UNCHANGED konto
      PROVE  OneAtWork'
  BY <1>1, <1>5, <1>6 DEF GitHeld, GitOrder, OneAtWork, Named
<1>7. CASE on
  <2>1. PICK to : Cares(u, as, konto[u], to) /\ konto' = IF to.ok THEN [konto EXCEPT ![u] = to.konto] ELSE konto
    BY <1>4, <1>7 DEF Entitled
  <2>0. ~InHand(u)
    BY <1>7 DEF Entitled
  <2>2. /\ Clear(u, n) /\ NoOneElse(n, u)
        /\ RowNames(u, n) \/ ~Named(u) => accounts[n] \in {NoUser, u}
    BY <1>1, <1>2, ClaimedClear
  <2>3. konto[u].name = NoName => accounts[as.name] \in {NoUser, u}
    BY <1>3, <2>2 DEF Named
  <2>4. Settled(u, n, konto[u], to)
    BY <1>2, <1>3, <2>0, <2>1, <2>3, CaresMoves
  <2>5. /\ accounts' \in Owned /\ prohibited' \in SUBSET Users /\ count' \in Counts
        /\ to.konto \in Kontos /\ CameTo(u, n, konto[u], accounts')
        /\ to.konto = konto[u] \/ (to.konto.name = n /\ accounts'[n] = u)
        /\ Clean' => Clean /\ (to.konto.name # NoName => accounts'[to.konto.name] = u)
        /\ Clean' => (~to.ok => to.konto = konto[u])
    BY <2>4 DEF Settled
  <2>6. /\ konto' \in [Users -> Kontos] /\ \A v \in Users \ {u} : konto'[v] = konto[v]
        /\ konto'[u] \in {konto[u], to.konto} /\ (Clean' => konto'[u] = to.konto)
    BY <1>2, <2>1, <2>5 DEF GitTypes
  <2>7. Named(u) => Named(u)'
    BY <1>2, <2>5, <2>6 DEF Named
  <2>8. ASSUME NEW v \in Users \ {u}
        PROVE  /\ (Named(v) => Named(v)') /\ (\A k \in Kontos : Latest(v, k)' => Latest(v, k))
               /\ \A m \in Names : (Claims(v, m)' => Claims(v, m)) /\ (RowNames(v, m)' => RowNames(v, m))
    <3>1. konto'[v] = konto[v]
      BY <2>6
    <3>2. Named(v) => Named(v)'
      BY <3>1 DEF Named
    <3>3. \A k \in Kontos : Latest(v, k)' => Latest(v, k)
      BY <1>1, <1>5, <3>1 DEF Latest
    <3>4. ASSUME NEW m \in Names
          PROVE  (Claims(v, m)' => Claims(v, m)) /\ (RowNames(v, m)' => RowNames(v, m))
      BY <1>1, <1>5, <3>1 DEF Claims, RowNames
    <3> QED BY <3>2, <3>3, <3>4
  <2>9. ASSUME NEW m \in Names
        PROVE  /\ Claims(u, m)' => Claims(u, m) \/ m = n
               /\ RowNames(u, m)' => RowNames(u, m) \/ (m = n /\ accounts'[n] = u)
    <3>1. konto'[u].name = m => RowNames(u, m) \/ (m = n /\ accounts'[n] = u)
      BY <2>5, <2>6 DEF RowNames
    <3>2. RowNames(u, m)' => RowNames(u, m) \/ (m = n /\ accounts'[n] = u)
      BY <1>1, <1>5, <3>1 DEF RowNames
    <3> QED BY <1>1, <1>5, <3>2 DEF Claims
  <2>10. Clean' => /\ Clean
                   /\ \A k \in Kontos : Latest(u, k)' /\ k.name # NoName => accounts'[k.name] = u
    <3>1. ASSUME Clean', NEW k \in Kontos, Latest(u, k)'
          PROVE  k = to.konto
      BY <1>1, <1>5, <2>0, <2>6, <3>1 DEF Latest, InHand
    <3> QED BY <2>5, <3>1
  <2>11. ClaimsApart' /\ ClaimsOwn' /\ LatestNames'
    BY <1>1, <1>2, <1>5, <2>2, <2>5, <2>7, <2>8, <2>9, <2>10, CareKeeps
  <2>12. OneAtWork'
    <3>1. \A v \in Users : pending'[v] # NoPending => v # u /\ (Named(v)' <=> Named(v))
      BY <1>1, <2>0, <2>6 DEF InHand, Named
    <3> QED BY <1>1, <1>5, <3>1 DEF GitHeld, GitOrder, OneAtWork
  <2> QED BY <1>1, <1>2, <1>4, <2>5, <2>6, <2>11, <2>12 DEF GitTypes, GitOrder
<1>8. CASE ~on
  <2>1. UNCHANGED <<konto, accounts, prohibited, count>>
    BY <1>8 DEF Entitled
  <2>2. ASSUME NEW v \in Users, NEW m \in Names
        PROVE  (Claims(v, m)' => Claims(v, m)) /\ (RowNames(v, m)' => RowNames(v, m))
    BY <1>1, <1>5, <2>1 DEF Claims, RowNames
  <2>3. ClaimsApart' /\ ClaimsOwn'
    <3>1. \A v \in Users : Named(v) => Named(v)'
      BY <2>1 DEF Named
    <3> QED BY <1>5, <2>1, <2>2, <3>1, StillKeeps
  <2>4. LatestNames'
    <3>1. ASSUME NEW v \in Users, NEW k \in Kontos
          PROVE  Latest(v, k)' => Latest(v, k)
      BY <1>1, <1>5, <2>1 DEF Latest
    <3> QED BY <1>5, <2>1, <3>1, StillNames DEF Clean
  <2> QED BY <1>1, <1>2, <1>4, <1>6, <2>1, <2>3, <2>4 DEF GitTypes, GitOrder
<1> QED BY <1>7, <1>8

-----------------------------------------------------------------------------
\* A workspace asks for Git.
LEMMA AsksKeeps ==
    ASSUME GitHeld, NEW p \in Places, AsksForGit(p), NEW to,
           Settled(Owner(p), user[Owner(p)].name, konto[Owner(p)], to),
           Flushes(p, Owner(p), user[Owner(p)].name, to.konto), UNCHANGED <<user, konto, work>>
    PROVE  GitOrder' /\ pending' \in [Users -> Pendings]
<1> PICK u : u = Owner(p)
  OBVIOUS
<1> PICK n : n = user[u].name
  OBVIOUS
<1>1. u \in Users /\ There(u) /\ ~InHand(u)
  BY DEF AsksForGit, There, GitHeld, GitAssumption
<1>2. /\ n \in Names /\ Clear(u, n) /\ NoOneElse(n, u)
      /\ RowNames(u, n) \/ ~Named(u) => accounts[n] \in {NoUser, u}
  BY <1>1, PersonOf, ClaimedClear
<1>3. /\ to.konto \in Kontos /\ CameTo(u, n, konto[u], accounts')
      /\ to.konto = konto[u] \/ (to.konto.name = n /\ accounts'[n] = u)
      /\ Clean' => Clean /\ (to.konto.name # NoName => accounts'[to.konto.name] = u)
  BY DEF Settled
<1> PICK c \in Kontos : c = to.konto
  BY <1>3
<1>4. Flushes(p, u, n, c) /\ p \in {"sign-in"} \cup Places
  OBVIOUS
<1> QED BY <1>1, <1>2, <1>3, <1>4, FlushKeeps

LEMMA AskedFor ==
    ASSUME GitHeld, NEW p \in Places, AsksForGit(p)
    PROVE  LET u == Owner(p)
           IN  /\ GitAssumption /\ GitTypes /\ u \in Users /\ user[u] \in People /\ user[u].name \in Names
               /\ konto[u] \in Kontos
               /\ konto[u].name = NoName => accounts[user[u].name] \in {NoUser, u}
               /\ konto[u].name # NoName => accounts[konto[u].name] \in {NoUser, u}
               /\ konto[u].name # NoName /\ Clean => accounts[konto[u].name] = u
<1> PICK u : u = Owner(p)
  OBVIOUS
<1>1. u \in Users /\ There(u) /\ ~InHand(u)
  BY DEF AsksForGit, There, GitHeld, GitAssumption
<1>2. konto[u].name = NoName => accounts[user[u].name] \in {NoUser, u}
  BY <1>1, PersonOf, ClaimedClear DEF Named
<1> QED BY <1>1, <1>2, PersonOf DEF GitHeld

LEMMA StartIssuesKeeps ==
    ASSUME GitHeld, NEW p \in Places, StartIssues(p)
    PROVE  GitTypes' /\ GitOrder'
<1> PICK u : u = Owner(p)
  OBVIOUS
<1> PICK to : to = Cared(u, user[u], konto[u])
  OBVIOUS
<1>1. /\ AsksForGit(p) /\ count.tokens < MaxTokens /\ Tallied("tokens")
      /\ accounts' = to.accounts /\ prohibited' = to.prohibited
      /\ Flushes(p, u, user[u].name, to.konto)
      /\ flushed' = [flushed EXCEPT ![p] = [id |-> count.tokens + 1, name |-> user[u].name]]
      /\ UNCHANGED <<on, user, konto, row, work>>
  BY DEF StartIssues
<1>2. /\ GitAssumption /\ GitTypes /\ u \in Users /\ user[u] \in People /\ user[u].name \in Names
      /\ konto[u] \in Kontos
      /\ konto[u].name = NoName => accounts[user[u].name] \in {NoUser, u}
      /\ konto[u].name # NoName => accounts[konto[u].name] \in {NoUser, u}
      /\ konto[u].name # NoName /\ Clean => accounts[konto[u].name] = u
  BY <1>1, AskedFor
<1>3. Recorded
  BY <1>1, <1>2, TalliedStays DEF GitTypes
<1>4. to \in Outcomes(u, user[u], konto[u])
  BY DEF Outcomes
<1>5. Settled(u, user[u].name, konto[u], to)
  BY <1>1, <1>2, <1>3, <1>4, OutcomeDone
<1>6. GitOrder' /\ pending' \in [Users -> Pendings]
  BY <1>1, <1>5, AsksKeeps
<1>7. [id |-> count.tokens + 1, name |-> user[u].name] \in Tokens
  <2>1. count.tokens + 1 \in 0 .. MaxTokens
    BY <1>1, <1>2 DEF GitTypes, Counts, GitAssumption
  <2> QED BY <1>2, <2>1, NamesThere DEF Tokens
<1>8. flushed' \in [Places -> Tokens]
  BY <1>1, <1>2, <1>7 DEF GitTypes
<1> QED BY <1>1, <1>2, <1>5, <1>6, <1>8 DEF GitTypes, Settled

LEMMA StartSkipsKeeps ==
    ASSUME GitHeld, NEW p \in Places, StartSkips(p)
    PROVE  GitTypes' /\ GitOrder'
<1> PICK u : u = Owner(p)
  OBVIOUS
<1>1. /\ AsksForGit(p) /\ UNCHANGED <<on, user, konto, row, flushed, work>>
      /\ \E to : Cares(u, user[u], konto[u], to) /\ Flushes(p, u, user[u].name, to.konto)
  BY DEF StartSkips
<1>2. /\ GitAssumption /\ GitTypes /\ u \in Users /\ user[u] \in People /\ user[u].name \in Names
      /\ konto[u] \in Kontos
      /\ konto[u].name = NoName => accounts[user[u].name] \in {NoUser, u}
      /\ konto[u].name # NoName => accounts[konto[u].name] \in {NoUser, u}
      /\ konto[u].name # NoName /\ Clean => accounts[konto[u].name] = u
  BY <1>1, AskedFor
<1> PICK to : Cares(u, user[u], konto[u], to) /\ Flushes(p, u, user[u].name, to.konto)
  BY <1>1
<1>3. Settled(u, user[u].name, konto[u], to)
  BY <1>2, CaresMoves
<1>4. GitOrder' /\ pending' \in [Users -> Pendings]
  BY <1>1, <1>3, AsksKeeps
<1> QED BY <1>1, <1>2, <1>3, <1>4 DEF GitTypes, Settled

LEMMA StartEndsKeeps ==
    ASSUME GitHeld, NEW p \in Places, NEW well \in BOOLEAN, StartEnds(p, well)
    PROVE  GitTypes' /\ GitOrder'
<1> PICK u : u = Owner(p)
  OBVIOUS
<1>1. /\ row' = [row EXCEPT ![p] = IF flushed[p] = NoToken THEN @ ELSE flushed[p]]
      /\ flushed' = [flushed EXCEPT ![p] = NoToken]
      /\ IF pending[u].by = p THEN Committed(u) ELSE UNCHANGED <<user, konto, pending>>
      /\ UNCHANGED <<on, accounts, prohibited, work, count>>
  BY DEF StartEnds, forgejoVars, peopleVars
<1>2. u \in Users /\ GitTypes /\ GitAssumption
  BY DEF GitHeld, GitAssumption
<1>3. row' \in [Places -> Tokens] /\ flushed' \in [Places -> Tokens]
  BY <1>1, <1>2, TokenTyped DEF GitTypes
<1>4. CASE pending[u].by = p
  <2>1. pending[u] # NoPending
    BY <1>2, <1>4, PendingTyped
  <2>2. /\ GitOrder' /\ user' \in [Users -> People] /\ konto' \in [Users -> Kontos]
        /\ pending' \in [Users -> Pendings]
    BY <1>1, <1>2, <1>4, <2>1, CommitKeeps
  <2> QED BY <1>1, <1>2, <1>3, <2>2 DEF GitTypes
<1>5. CASE pending[u].by # p
  <2>1. UNCHANGED <<user, konto, pending>>
    BY <1>1, <1>5
  <2>2. GitOrder'
    BY <1>1, <1>2, <2>1, RestKeeps, UncountedStays
  <2> QED BY <1>1, <1>2, <1>3, <2>1, <2>2 DEF GitTypes
<1> QED BY <1>4, <1>5

\* Forgejo makes an account, and one goes.
LEMMA FirstSignInKeeps ==
    ASSUME GitHeld, NEW u \in Users, FirstSignIn(u)
    PROVE  GitTypes' /\ GitOrder'
<1> PICK n : n = user[u].name
  OBVIOUS
<1>1. /\ There(u) /\ accounts[n] = NoUser /\ konto[u].name = NoName
      /\ accounts' = [accounts EXCEPT ![n] = u]
      /\ UNCHANGED <<on, user, konto, pending, prohibited, row, flushed, work, count>>
  BY DEF FirstSignIn, There, placeVars, peopleVars
<1>2. /\ n \in Names /\ n \in AllNames /\ GitTypes /\ Clear(u, n) /\ NoOneElse(n, u) /\ accounts \in Owned
      /\ konto[u] \in Kontos
  BY <1>1, PersonOf, ClaimedClear, NamesThere DEF GitHeld, GitTypes
<1>3. /\ accounts' \in Owned /\ accounts'[n] = u /\ \A m \in AllNames \ {n} : accounts'[m] = accounts[m]
  BY <1>1, <1>2 DEF Owned
<1>4. CameTo(u, n, konto[u], accounts')
  BY <1>3, NamesThere DEF CameTo, GitHeld
<1>5. /\ \A v \in Users : (There(v)' <=> There(v)) /\ (Named(v)' <=> Named(v)) /\ (InHand(v)' <=> InHand(v))
      /\ \A y \in Workers, v \in Users : Holds(y, v)' <=> Holds(y, v)
      /\ Clean' => Clean
  BY <1>1 DEF There, Named, InHand, Holds, Clean
<1>6. ASSUME NEW v \in Users, NEW m \in Names
      PROVE  (Claims(v, m)' => Claims(v, m)) /\ (RowNames(v, m)' => RowNames(v, m))
  BY <1>1, <1>5 DEF Claims, RowNames
<1>7. ASSUME NEW v \in Users, NEW k \in Kontos
      PROVE  Latest(v, k)' => Latest(v, k)
  BY <1>1, <1>5 DEF Latest
<1>8. ASSUME Clean', NEW k \in Kontos, Latest(u, k)', k.name # NoName
      PROVE  accounts'[k.name] = u
  <2>1. accounts[k.name] = u
    BY <1>1, <1>5, <1>7, <1>8 DEF GitHeld, GitOrder, LatestNames
  <2>2. k.name \in Names
    BY <1>8 DEF Kontos
  <2>3. k.name \in AllNames
    BY <2>2, NamesThere DEF GitHeld
  <2> QED BY <1>3, <2>1, <2>3
<1>9. ClaimsApart' /\ ClaimsOwn' /\ LatestNames'
  <2>1. accounts[n] \in {NoUser, u}
    BY <1>1
  <2> QED BY <1>1, <1>2, <1>4, <1>5, <1>6, <1>7, <1>8, <2>1, CareKeeps
<1>10. OneAtWork'
  BY <1>1, <1>5 DEF GitHeld, GitOrder, OneAtWork
<1> QED BY <1>1, <1>2, <1>3, <1>9, <1>10 DEF GitTypes, GitOrder

LEMMA DeletedKeeps ==
    ASSUME GitHeld, NEW u \in Users, Deleted(u)
    PROVE  GitTypes' /\ GitOrder'
<1> PICK name : name = konto[u].name
  OBVIOUS
<1>1. /\ There(u) /\ pending[u] = NoPending /\ \A x \in Workers : work[x].pc = "idle"
      /\ user' = [user EXCEPT ![u].there = FALSE] /\ konto' = [konto EXCEPT ![u] = NoKonto]
      /\ UNCHANGED <<on, pending, accounts, flushed, work, count>>
  BY DEF Deleted, There
<1>2. /\ GitTypes /\ user[u] \in People /\ name \in Names \cup {NoName} /\ NoKonto \in Kontos
      /\ accounts \in Owned /\ GitAssumption
  BY <1>1, PersonOf DEF GitHeld, GitTypes, NoKonto, Kontos
<1>3. prohibited' \in SUBSET Users
  <2>1. \/ prohibited' = prohibited
        \/ name # NoName /\ accounts[name] # NoUser /\ prohibited' = prohibited \cup {accounts[name]}
    BY DEF Deleted
  <2>2. name # NoName => name \in AllNames
    BY <1>2, NamesThere
  <2>3. name # NoName => accounts[name] \in Users \cup {NoUser}
    BY <1>2, <2>2 DEF Owned
  <2> QED BY <1>2, <2>1, <2>3 DEF GitTypes
<1>4. row' \in [Places -> Tokens]
  <2>1. \E gone : row' = [p \in Places |-> IF p \in gone THEN NoToken ELSE row[p]]
    BY DEF Deleted
  <2> QED BY <1>2, <2>1, TokenTyped DEF GitTypes
<1> PICK s : s = [user[u] EXCEPT !.there = FALSE]
  OBVIOUS
<1>5. s \in People /\ s.there = FALSE
  BY <1>2 DEF People
<1>6. /\ user' \in [Users -> People] /\ user'[u] = s /\ konto' \in [Users -> Kontos] /\ konto'[u] = NoKonto
      /\ \A v \in Users \ {u} : user'[v] = user[v] /\ konto'[v] = konto[v]
  BY <1>1, <1>2, <1>5 DEF GitTypes
<1>7. GitTypes'
  BY <1>1, <1>2, <1>3, <1>4, <1>6 DEF GitTypes
<1>8. /\ ~There(u)' /\ \A v \in Users \ {u} : (There(v)' <=> There(v)) /\ (Named(v)' <=> Named(v))
      /\ \A v \in Users \ {u} : InHand(v)' <=> InHand(v)
      /\ \A y \in Workers, v \in Users : Holds(y, v)' <=> Holds(y, v)
  BY <1>1, <1>5, <1>6 DEF There, Named, Holds, InHand
<1>9. ASSUME NEW v \in Users \ {u}, NEW m \in Names
      PROVE  (Claims(v, m)' => Claims(v, m)) /\ (RowNames(v, m)' => RowNames(v, m))
  BY <1>1, <1>6, <1>8 DEF Claims, RowNames
<1>10. ASSUME NEW v \in Users \ {u}, NEW k \in Kontos
       PROVE  Latest(v, k)' => Latest(v, k)
  BY <1>1, <1>6, <1>8 DEF Latest
<1>11. ClaimsApart' /\ ClaimsOwn'
  BY <1>1, <1>8, <1>9, StillKeeps
<1>12. LatestNames'
  BY <1>1, <1>8, <1>10, StillNames DEF Clean
<1>13. OneAtWork'
  <2>1. \A v \in Users : There(v)' => user'[v].name \in Names
    BY <1>6, <1>8 DEF GitHeld, GitOrder, OneAtWork
  <2>2. \A v \in Users : pending'[v] # NoPending =>
          /\ There(v)' /\ pending'[v].by # "nobody" /\ pending'[v].name \in Names
          /\ Named(v)' => pending'[v].konto.name # NoName
    BY <1>1, <1>8 DEF GitHeld, GitOrder, OneAtWork
  <2> QED BY <1>1, <1>8, <2>1, <2>2 DEF GitHeld, GitOrder, OneAtWork
<1> QED BY <1>7, <1>11, <1>12, <1>13 DEF GitOrder

\* The API stops.
LEMMA CrashKeeps ==
    ASSUME GitHeld, Crash
    PROVE  GitTypes' /\ GitOrder'
<1>1. /\ work' = [x \in Workers |-> Idle] /\ flushed' = [p \in Places |-> NoToken]
      /\ pending' = [v \in Users |-> NoPending]
      /\ UNCHANGED <<on, user, konto, accounts, prohibited, row>>
  BY DEF Crash, forgejoVars
<1>2. /\ GitTypes /\ GitAssumption /\ Idle \in Jobs /\ Idle.pc = "idle" /\ DOMAIN Idle.konto = {}
      /\ NoToken \in Tokens /\ NoPending \in Pendings /\ NoPending.name = NoName
      /\ NoPending.konto.name = NoName /\ NoName \notin Names
  BY IdleIsJob, NothingCarried, TokenTyped, PendingTyped DEF GitHeld
<1>3. Recorded /\ ~Clean'
  BY <1>2, TalliedStays DEF Crash, GitTypes
<1>4. GitTypes'
  BY <1>1, <1>2, <1>3 DEF GitTypes, Recorded
<1>5. /\ \A v \in Users : (There(v)' <=> There(v)) /\ (Named(v)' <=> Named(v))
      /\ \A y \in Workers, v \in Users : ~Holds(y, v)'
      /\ \A y \in Workers : work'[y].pc = "idle"
  BY <1>1, <1>2 DEF There, Named, Holds
<1>6. ASSUME NEW v \in Users, NEW m \in Names
      PROVE  (Claims(v, m)' => Claims(v, m)) /\ (RowNames(v, m)' => RowNames(v, m))
  BY <1>1, <1>2, <1>5 DEF Claims, RowNames
<1>7. ClaimsApart' /\ ClaimsOwn'
  BY <1>1, <1>5, <1>6, StillKeeps
<1>8. LatestNames'
  BY <1>3 DEF LatestNames
<1>9. OneAtWork'
  <2>1. \A v \in Users : There(v)' => user'[v].name \in Names
    BY <1>1, <1>5 DEF GitHeld, GitOrder, OneAtWork
  <2> QED BY <1>1, <1>2, <1>5, <2>1 DEF OneAtWork
<1> QED BY <1>4, <1>7, <1>8, <1>9 DEF GitOrder

-----------------------------------------------------------------------------
GitKept == GitTypes /\ GitOrder

LEMMA GitBegins == ASSUME GitAssumption, GitInit PROVE GitKept
<1>1. PICK name \in [Users -> Names] :
        /\ \A u, v \in Users : u # v => name[u] # name[v]
        /\ user = [u \in Users |-> [there |-> TRUE, may |-> TRUE, name |-> name[u]]]
  BY DEF GitInit
<1>2. /\ \A u \in Users : /\ konto[u] = NoKonto /\ pending[u] = NoPending
                          /\ user[u].name = name[u] /\ name[u] \in Names
      /\ \A m \in Names : accounts[m] = NoUser
      /\ \A x \in Workers : work[x] = Idle
  BY <1>1, NamesThere DEF GitInit
<1>3. /\ Idle \in Jobs /\ Idle.pc = "idle" /\ DOMAIN Idle.konto = {} /\ NoToken \in Tokens
      /\ NoPending \in Pendings /\ NoPending.name = NoName /\ NoPending.konto = NoKonto
      /\ NoKonto \in Kontos /\ NoKonto.name = NoName /\ NoName \notin Names
  BY IdleIsJob, NothingCarried, TokenTyped, PendingTyped
<1>4. GitTypes
  <2>1. /\ user \in [Users -> People] /\ konto \in [Users -> Kontos]
        /\ pending \in [Users -> Pendings]
    BY <1>1, <1>3 DEF GitInit, People
  <2>2. accounts \in Owned /\ prohibited \in SUBSET Users /\ work \in [Workers -> Jobs]
    BY <1>3 DEF GitInit, Owned
  <2>3. row \in [Places -> Tokens] /\ flushed \in [Places -> Tokens] /\ on \in BOOLEAN
    BY <1>3 DEF GitInit
  <2>4. count \in Counts
    BY DEF GitInit, Counts
  <2> QED BY <2>1, <2>2, <2>3, <2>4 DEF GitTypes
<1>5. \A x \in Workers, u \in Users : ~Holds(x, u) /\ work[x].pc = "idle"
  BY <1>2, <1>3 DEF Holds
<1>6. OneAtWork
  BY <1>2, <1>3, <1>5 DEF OneAtWork
<1>7. ASSUME NEW u \in Users, NEW m \in Names, Claims(u, m)
      PROVE  m = name[u]
  BY <1>2, <1>3, <1>5, <1>7 DEF Claims, RowNames
<1>8. ClaimsApart
  BY <1>1, <1>7 DEF ClaimsApart
<1>9. ClaimsOwn
  BY <1>2 DEF ClaimsOwn, NoOneElse
<1>10. LatestNames
  BY <1>2, <1>3, <1>5 DEF LatestNames, Latest
<1> QED BY <1>4, <1>6, <1>8, <1>9, <1>10 DEF GitKept, GitOrder

LEMMA GitGoesOn ==
    ASSUME GitAssumption, Calm, GitKept, [GitNext]_gitVars
    PROVE  GitKept'
<1>1. GitHeld
  BY DEF GitHeld, GitKept
<1>2. CASE UNCHANGED gitVars
  <2>1. UNCHANGED <<on, user, konto, pending, accounts, prohibited, work, row, flushed, count>>
    BY <1>2 DEF gitVars, forgejoVars, placeVars, peopleVars
  <2>2. GitTypes'
    BY <1>1, <2>1 DEF GitHeld, GitTypes
  <2> QED BY <1>1, <2>1, <2>2, RestKeeps, UncountedStays DEF GitKept, GitHeld
<1>3. CASE GitNext
  <2>1. CASE TaktBegins \/ Sweeping
    <3>1. "takt" \in Workers
      BY DEF GitAssumption
    <3> QED BY <1>1, <2>1, <3>1, TaktKeeps DEF GitKept
  <2>2. CASE SwitchOff \/ Update
    BY <1>1, <2>2, PlainKeeps DEF GitKept
  <2>3. CASE Crash
    BY <1>1, <2>3, CrashKeeps DEF GitKept
  <2>4. ASSUME NEW x \in Workers, SwitchBegins(x) \/ Switched(x)
        PROVE  GitKept'
    BY <1>1, <2>4, SwitchKeeps DEF GitKept
  <2>5. ASSUME NEW x \in Workers, RunBegins(x)
        PROVE  GitKept'
    BY <1>1, <2>5, TaktKeeps DEF GitKept
  <2>6. ASSUME NEW x \in Workers, Run(x)
        PROVE  GitKept'
    BY <1>1, <2>6, RunReadsKeeps, RunCommitsKeeps, RunCaresKeeps DEF GitKept, Run
  <2>7. ASSUME NEW u \in Users,
               FirstSignIn(u) \/ Deleted(u) \/ SignInCommits(u) \/ \E may \in BOOLEAN : Entitled(u, may)
        PROVE  GitKept'
    BY <1>1, <2>7, FirstSignInKeeps, DeletedKeeps, SignInCommitsKeeps, EntitledKeeps DEF GitKept
  <2>8. ASSUME NEW u \in Users, NEW n \in Names, SignIn(u, n)
        PROVE  GitKept'
    BY <1>1, <2>8, SignInKeeps DEF GitKept
  <2>9. ASSUME NEW p \in Places, \/ StartIssues(p) \/ StartSkips(p)
                                 \/ \E well \in BOOLEAN : StartEnds(p, well)
        PROVE  GitKept'
    BY <1>1, <2>9, StartIssuesKeeps, StartSkipsKeeps, StartEndsKeeps DEF GitKept
  <2>10. ASSUME NEW p \in Places, StartBegins(p) \/ Closes(p) \/ ClosesQuietly(p)
         PROVE  GitKept'
    BY <1>1, <2>10, PlainKeeps DEF GitKept
  <2> QED BY <1>3, <2>1, <2>2, <2>3, <2>4, <2>5, <2>6, <2>7, <2>8, <2>9, <2>10 DEF GitNext
<1> QED BY <1>2, <1>3

\* A user of OTA's row names the account that was made for him or none, whatever fails and whenever
\* the API stops, and his own as long as nothing has (git.py, konto_sorgen and _umbenennen: Forgejo
\* renames at once, the row follows with the transaction).  It is proved for names that are not
\* handed on while a row or an account of somebody else's still bears them.
THEOREM AccountsAreOwn ==
    ASSUME GitAssumption, Calm
    PROVE  GitSpec => []OwnRepositories
<1>1. GitInit => GitKept
  BY GitBegins
<1>2. GitKept /\ [GitNext]_gitVars => GitKept'
  BY GitGoesOn
<1>3. GitKept => OwnRepositories
  <2> SUFFICES ASSUME GitKept, NEW u \in Users, There(u), konto[u].name # NoName
               PROVE  /\ accounts[konto[u].name] \in {NoUser, u}
                      /\ Clean /\ ~InHand(u) => accounts[konto[u].name] = u
    BY DEF OwnRepositories, There, Clean
  <2>1. GitHeld
    BY DEF GitHeld, GitKept
  <2> QED BY <2>1, PersonOf
<1> QED BY <1>1, <1>2, <1>3, PTL DEF GitSpec

-----------------------------------------------------------------------------
(* Git: the types, whoever works beside whom and whatever is restricted.        *)

\* People have names; a job is below the last secret, and its accounts are those of people it has read.
Known == [Users -> {p \in People : p.name \in Names}]
Sized == {j \in Jobs : j.secret <= MaxSecrets /\ (j.pc = "accounts" => j.seen \in Known)}
CountsInBounds == {c \in Counts : c.secrets <= MaxSecrets /\ c.tokens <= MaxTokens}

ServiceTypes ==
    /\ way \in BOOLEAN /\ client \in 0 .. MaxSecrets
    /\ source \in [stored : 0 .. MaxSecrets, read : 0 .. MaxSecrets]
    /\ container \in [state : {"none", "running", "exited"}, old : BOOLEAN]
ForgejoTypes ==
    /\ accounts \in Owned /\ prohibited \subseteq Users
    /\ valid \subseteq [id : 1 .. MaxTokens, of : Users, place : Places]
PlaceTypes ==
    /\ place \in [Places -> {"none", "starting", "asked", "live", "ended"}] /\ desk \in [Places -> 0 .. MaxTokens]
    /\ row \in [Places -> Tokens] /\ flushed \in [Places -> Tokens]
Awaited == {p \in Pendings : p.by # "nobody" => p.name \in Names}
PeopleTypes ==
    /\ on \in BOOLEAN /\ user \in Known /\ konto \in [Users -> Kontos]
    /\ pending \in [Users -> Awaited]
WorkTypes == work \in [Workers -> Sized] /\ count \in CountsInBounds

GitRanges == ServiceTypes /\ ForgejoTypes /\ PlaceTypes /\ PeopleTypes /\ WorkTypes

LEMMA RangesAreTypes == ASSUME GitAssumption, GitRanges PROVE GitTypeOK
<1>1. \A x \in Workers :
         /\ work[x].pc \in {"idle", "container", "source", "commit", "read", "sweep", "users", "accounts"}
         /\ work[x].secret \in 0 .. MaxSecrets /\ DOMAIN work[x].konto \subseteq Users
         /\ work[x].left \subseteq Users \cup Places /\ work[x].drop \subseteq Places
  <2> SUFFICES ASSUME NEW x \in Workers
               PROVE  /\ work[x].pc \in {"idle", "container", "source", "commit", "read", "sweep", "users", "accounts"}
                      /\ work[x].secret \in 0 .. MaxSecrets /\ DOMAIN work[x].konto \subseteq Users
                      /\ work[x].left \subseteq Users \cup Places /\ work[x].drop \subseteq Places
    OBVIOUS
  <2>1. work[x] \in Jobs /\ work[x].secret <= MaxSecrets /\ MaxSecrets \in Nat
    BY DEF GitRanges, WorkTypes, Sized, GitAssumption
  <2>2. /\ work[x].pc \in Stages /\ work[x].secret \in Nat /\ work[x].konto \in Carried
        /\ work[x].left \in SUBSET (Users \cup Places) /\ work[x].drop \in SUBSET Places
    BY <2>1, JobOf
  <2>3. DOMAIN work[x].konto \subseteq Users
    BY <2>2, NothingCarried DEF Carried
  <2> QED BY <2>1, <2>2, <2>3 DEF Stages
<1>2. user \in [Users -> People]
  BY DEF GitRanges, PeopleTypes, Known
<1> QED BY <1>1, <1>2 DEF GitRanges, ServiceTypes, ForgejoTypes, PlaceTypes, PeopleTypes, GitTypeOK, Owned,
        People, Kontos, Awaited, Pendings

\* Bounds and types of counts.
LEMMA CountsOf ==
    ASSUME GitAssumption, GitRanges
    PROVE  /\ MaxSecrets \in Nat /\ MaxTokens \in Nat /\ count \in Counts
           /\ count.secrets \in 0 .. MaxSecrets /\ count.tokens \in 0 .. MaxTokens
BY DEF GitAssumption, GitRanges, WorkTypes, CountsInBounds, Counts

LEMMA CountGoes ==
    ASSUME GitAssumption, GitRanges, NEW what \in {"tokens", "secrets", "updates", "offs", "faults", "crashes"},
           Tallied(what), what = "secrets" => count.secrets < MaxSecrets, what = "tokens" => count.tokens < MaxTokens
    PROVE  count' \in CountsInBounds
<1> DEFINE c == [count EXCEPT ![what] = @ + 1]
<1>1. count' = c
  BY DEF Tallied
<1>2. c \in Counts
  BY CountsOf DEF Counts
<1>3. c.secrets <= MaxSecrets /\ c.tokens <= MaxTokens
  BY CountsOf DEF Counts
<1> QED BY <1>1, <1>2, <1>3 DEF CountsInBounds

LEMMA FaultCounts == ASSUME GitAssumption, GitRanges, Fault PROVE count' \in CountsInBounds
BY CountGoes DEF Fault

LEMMA WorksOn ==
    ASSUME GitRanges, NEW x \in Workers, NEW j \in Sized, Works(x, j)
    PROVE  work' \in [Workers -> Sized]
BY DEF GitRanges, WorkTypes, Works

LEMMA SizedOf ==
    ASSUME GitAssumption, GitRanges, NEW x \in Workers
    PROVE  /\ work[x] \in Jobs /\ work[x] \in Sized /\ work[x].secret \in 0 .. MaxSecrets
           /\ Idle \in Sized /\ Idle \in Jobs
<1>1. work[x] \in Sized /\ work[x] \in Jobs /\ work[x].secret <= MaxSecrets /\ MaxSecrets \in Nat
  BY DEF GitRanges, WorkTypes, Sized, GitAssumption
<1>2. work[x].secret \in Nat
  BY <1>1, JobOf
<1>3. Idle.secret = 0 /\ Idle.pc = "idle" /\ Idle \in Jobs
  BY IdleIsJob DEF Idle
<1>4. Idle \in Sized
  BY <1>1, <1>3 DEF Sized
<1> QED BY <1>1, <1>2, <1>3, <1>4

LEMMA GoesOn ==
    ASSUME GitAssumption, GitRanges, NEW x \in Workers, NEW pc \in Stages \ {"accounts"}, Goes(x, pc)
    PROVE  work' \in [Workers -> Sized]
<1> DEFINE j == [work[x] EXCEPT !.pc = pc]
<1>1. j \in Jobs /\ j.pc = pc
  BY SizedOf, JobGoes
<1>2. j.secret = work[x].secret
  BY SizedOf DEF Jobs
<1>3. j \in Sized
  BY <1>1, <1>2, SizedOf DEF Sized
<1> QED BY <1>3, WorksOn DEF Goes

LEMMA GivesUpOn ==
    ASSUME GitAssumption, GitRanges, NEW x \in Workers, GivesUp(x)
    PROVE  work' \in [Workers -> Sized]
BY SizedOf, WorksOn DEF GivesUp

\* konto_sorgen for whomever: who is cared for well has an account.
LEMMA CaredNames ==
    ASSUME GitAssumption, accounts \in Owned, prohibited \in SUBSET Users, NEW u \in Users,
           NEW as \in People, as.name \in Names, NEW k \in Kontos, as.may, Cared(u, as, k).ok
    PROVE  Cared(u, as, k).accounts[as.name] # NoUser
<1> PICK made : made = Brought(u, as, k)
  OBVIOUS
<1>1. made \in States
  BY BroughtMoves
<1>2. CASE ~made.ok \/ made.accounts[as.name] = NoUser
  <2>1. Cared(u, as, k) = [made EXCEPT !.ok = FALSE]
    BY <1>2 DEF Cared
  <2> QED BY <1>1, <2>1, StateWith
<1>3. CASE ~(~made.ok \/ made.accounts[as.name] = NoUser)
  <2> PICK c : c = [name |-> as.name, locked |-> ~as.may]
    OBVIOUS
  <2> PICK right : right = PutRight(made, as)
    OBVIOUS
  <2>1. Cared(u, as, k) = [right EXCEPT !.konto = c]
    BY <1>3 DEF Cared
  <2>2. c \in Kontos
    BY DEF Kontos, People
  <2>3. right \in States /\ right.accounts = made.accounts
    BY <1>1, PutRightMoves
  <2>4. Cared(u, as, k).accounts = made.accounts
    BY <2>1, <2>2, <2>3 DEF States
  <2> QED BY <1>3, <2>4
<1> QED BY <1>2, <1>3

\* Wherever it ends, the row and what Forgejo has are well typed.
CareTyped(to) ==
    accounts' \in Owned /\ prohibited' \subseteq Users /\ count' \in CountsInBounds /\ to.konto \in Kontos

LEMMA CaresTyped ==
    ASSUME GitAssumption, GitRanges, NEW u \in Users, NEW as \in People, as.name \in Names, NEW k \in Kontos,
           NEW to, Cares(u, as, k, to)
    PROVE  CareTyped(to)
<1>1. accounts \in Owned /\ prohibited \in SUBSET Users /\ count \in CountsInBounds /\ count \in Counts
  BY DEF GitRanges, ForgejoTypes, WorkTypes, CountsInBounds
<1>2. to \in Outcomes(u, as, k) /\ accounts' = to.accounts /\ prohibited' = to.prohibited
  BY <1>1, CaresDoes
<1>3. to \in States
  BY <1>1, <1>2, OutcomeTyped
<1>4. count' \in CountsInBounds
  BY <1>1, FaultCounts DEF Cares
<1> QED BY <1>2, <1>3, <1>4 DEF States, CareTyped

LEMMA FlushTyped ==
    ASSUME GitAssumption, GitRanges, NEW u \in Users, NEW n \in Names, NEW k \in Kontos,
           NEW who \in {"sign-in"} \cup Places, Flushes(who, u, n, k)
    PROVE  pending' \in [Users -> Awaited]
<1>1. pending \in [Users -> Awaited]
  BY DEF GitRanges, PeopleTypes
<1>2. [by |-> who, name |-> n, konto |-> k] \in Awaited
  BY DEF Awaited, Pendings
<1> QED BY <1>1, <1>2 DEF Flushes

LEMMA CommittedTyped ==
    ASSUME GitAssumption, GitRanges, NEW u \in Users, pending[u].by # "nobody", Committed(u)
    PROVE  user' \in Known /\ konto' \in [Users -> Kontos] /\ pending' \in [Users -> Awaited]
<1>1. /\ user \in Known /\ user[u] \in People /\ konto \in [Users -> Kontos]
      /\ pending \in [Users -> Awaited] /\ pending[u] \in Pendings /\ pending[u].name \in Names
  BY DEF GitRanges, PeopleTypes, Known, Awaited
<1>2. pending[u].konto \in Kontos
  BY <1>1 DEF Pendings
<1>3. [user[u] EXCEPT !.name = pending[u].name] \in {p \in People : p.name \in Names}
  BY <1>1 DEF People
<1>4. NoPending \in Awaited
  BY PendingTyped DEF Awaited
<1> QED BY <1>1, <1>2, <1>3, <1>4 DEF Committed, Known

LEMMA RevokedTyped ==
    ASSUME GitAssumption, GitRanges, NEW t, NEW gone, Revoked(t, gone)
    PROVE  /\ valid' \subseteq [id : 1 .. MaxTokens, of : Users, place : Places]
           /\ count' \in CountsInBounds
<1>1. valid \subseteq [id : 1 .. MaxTokens, of : Users, place : Places] /\ count \in CountsInBounds
  BY DEF GitRanges, ForgejoTypes, WorkTypes
<1> QED BY <1>1, FaultCounts DEF Revoked

LEMMA SwitchTyped ==
    ASSUME GitAssumption, GitRanges, NEW x \in Workers, SwitchBegins(x) \/ Switched(x)
    PROVE  GitRanges'
<1>c. {"container", "source", "commit", "read", "users"} \subseteq Stages \ {"accounts"}
  BY DEF Stages
<1>s. /\ source \in [stored : 0 .. MaxSecrets, read : 0 .. MaxSecrets] /\ work[x].secret \in 0 .. MaxSecrets
      /\ container \in [state : {"none", "running", "exited"}, old : BOOLEAN] /\ way \in BOOLEAN
      /\ count \in CountsInBounds
  BY SizedOf DEF GitRanges, ServiceTypes, WorkTypes
<1>a. AfterFailure(x) => work' \in [Workers -> Sized]
  BY <1>c, GoesOn, GivesUpOn DEF AfterFailure
<1>1. CASE SwitchBegins(x)
  <2> DEFINE j == [work[x] EXCEPT !.pc = "container", !.secret = count.secrets + 1]
  <2>1. /\ count.secrets + 1 \in 0 .. MaxSecrets /\ count.secrets < MaxSecrets
        /\ count.secrets + 1 \in Nat /\ count.secrets + 1 <= MaxSecrets
    BY <1>1, CountsOf DEF SwitchBegins
  <2>2. j \in Jobs /\ j.pc = "container" /\ j.secret = count.secrets + 1
    <3>1. work[x] \in Jobs /\ "container" \in Stages
      BY <1>c, SizedOf
    <3>2. \A n \in Nat : LET i == [work[x] EXCEPT !.pc = "container", !.secret = n]
                         IN  i \in Jobs /\ i.pc = "container" /\ i.secret = n
      BY <3>1 DEF Jobs
    <3> QED BY <2>1, <3>2
  <2>3. j \in Sized
    <3> HIDE DEF j
    <3> QED BY <2>1, <2>2 DEF Sized
  <2>4. work' \in [Workers -> Sized]
    BY <1>1, <2>3, WorksOn DEF SwitchBegins
  <2>5. count' \in CountsInBounds
    BY <1>1, <2>1, CountGoes DEF SwitchBegins
  <2> QED BY <1>1, <1>s, <2>1, <2>4, <2>5
         DEF SwitchBegins, GitRanges, ServiceTypes, ForgejoTypes, PlaceTypes, PeopleTypes, WorkTypes, peopleVars,
             forgejoVars, placeVars
<1>2. CASE SwitchContainer(x)
  <2>1. work' \in [Workers -> Sized] /\ count' \in CountsInBounds
    BY <1>2, <1>a, <1>c, <1>s, GoesOn, FaultCounts DEF SwitchContainer
  <2>2. ServiceTypes'
    <3>1. way' \in BOOLEAN
      BY <1>2, <1>s DEF SwitchContainer
    <3>0. container' \in {[state |-> "running", old |-> FALSE], container, [state |-> "none", old |-> FALSE]}
      BY <1>2 DEF SwitchContainer
    <3>2. container' \in [state : {"none", "running", "exited"}, old : BOOLEAN]
      <4>1. [state |-> "running", old |-> FALSE] \in [state : {"none", "running", "exited"}, old : BOOLEAN]
        OBVIOUS
      <4>2. [state |-> "none", old |-> FALSE] \in [state : {"none", "running", "exited"}, old : BOOLEAN]
        OBVIOUS
      <4> QED BY <1>s, <3>0, <4>1, <4>2, Zenon
    <3>3. source' = source \/ source' = [source EXCEPT !.read = source.stored]
      BY <1>2 DEF SwitchContainer
    <3>4. source' \in [stored : 0 .. MaxSecrets, read : 0 .. MaxSecrets]
      BY <1>s, <3>3
    <3>5. client' \in 0 .. MaxSecrets
      BY <1>2 DEF SwitchContainer, GitRanges, ServiceTypes
    <3> QED BY <3>1, <3>2, <3>4, <3>5 DEF ServiceTypes
  <2> QED BY <1>2, <2>1, <2>2
         DEF SwitchContainer, GitRanges, ForgejoTypes, PlaceTypes, PeopleTypes, WorkTypes, peopleVars, forgejoVars, placeVars
<1>3. CASE SwitchSource(x)
  <2>1. work' \in [Workers -> Sized] /\ count' \in CountsInBounds
    BY <1>3, <1>a, <1>c, <1>s, GoesOn, FaultCounts DEF SwitchSource
  <2>2. ServiceTypes'
    BY <1>3, <1>s DEF SwitchSource, Configured, GitRanges, ServiceTypes
  <2> QED BY <1>3, <2>1, <2>2
         DEF SwitchSource, GitRanges, ForgejoTypes, PlaceTypes, PeopleTypes, WorkTypes, peopleVars, forgejoVars, placeVars
<1>4. CASE SwitchCommits(x)
  <2>1. work' \in [Workers -> Sized]
    BY <1>4, <1>c, GoesOn DEF SwitchCommits
  <2> QED BY <1>4, <2>1
         DEF SwitchCommits, GitRanges, ServiceTypes, ForgejoTypes, PlaceTypes, PeopleTypes, WorkTypes, peopleVars,
             serviceVars, forgejoVars, placeVars
<1> QED BY <1>1, <1>2, <1>3, <1>4 DEF Switched

LEMMA TaktTyped ==
    ASSUME GitAssumption, GitRanges, TaktBegins \/ Sweeping
    PROVE  GitRanges'
<1>t. "takt" \in Workers /\ "read" \in Stages \ {"accounts"} /\ "sweep" \in Stages /\ "users" \in Stages
  BY DEF GitAssumption, Stages
<1>n. NoToken \in Tokens
  BY TokenTyped
<1>1. CASE TaktBegins
  <2>1. work' \in [Workers -> Sized]
    BY <1>1, <1>t, GoesOn DEF TaktBegins
  <2> QED BY <1>1, <2>1
         DEF TaktBegins, GitRanges, ServiceTypes, ForgejoTypes, PlaceTypes, PeopleTypes, WorkTypes, peopleVars,
             forgejoVars, placeVars
<1>2. CASE SweepReads
  <2> DEFINE left == {p \in Places : row[p] # NoToken /\ ~Live(p)}
             j == [work["takt"] EXCEPT !.pc = "sweep", !.drop = {}, !.seen = row, !.left = left]
  <2>1. row \in Read /\ left \in SUBSET (Users \cup Places)
    BY DEF GitRanges, PlaceTypes, Read
  <2> HIDE DEF left
  <2>2. j \in Jobs /\ j.pc = "sweep" /\ j.secret = work["takt"].secret
    BY <1>t, <2>1, SizedOf DEF Jobs
  <2>3. j \in Sized
    BY <1>t, <2>2, SizedOf DEF Sized
  <2>4. Works("takt", j)
    BY <1>2 DEF SweepReads, left
  <2>5. work' \in [Workers -> Sized]
    BY <1>t, <2>3, <2>4, WorksOn
  <2> QED BY <1>2, <2>5
         DEF SweepReads, GitRanges, ServiceTypes, ForgejoTypes, PlaceTypes, PeopleTypes, WorkTypes, peopleVars,
             serviceVars, forgejoVars, placeVars
<1>3. CASE SweepCommits
  <2> DEFINE j == [Idle EXCEPT !.pc = "users"]
  <2>1. j \in Jobs /\ j.pc = "users" /\ j.secret = Idle.secret
    BY <1>t, SizedOf DEF Jobs
  <2>2. j \in Sized
    BY <1>t, <2>1, SizedOf DEF Sized
  <2>3. work' \in [Workers -> Sized]
    BY <1>3, <1>t, <2>2, WorksOn DEF SweepCommits
  <2>4. row' \in [Places -> Tokens]
    BY <1>3, <1>n DEF SweepCommits, GitRanges, PlaceTypes
  <2> QED BY <1>3, <2>3, <2>4
         DEF SweepCommits, GitRanges, ServiceTypes, ForgejoTypes, PlaceTypes, PeopleTypes, WorkTypes, peopleVars,
             serviceVars, forgejoVars
<1>4. ASSUME NEW p \in Places, SweepRevokes(p) PROVE GitRanges'
  <2>1. PICK gone \in BOOLEAN :
          /\ Revoked(work["takt"].seen[p], gone)
          /\ Works("takt", [work["takt"] EXCEPT !.left = @ \ {p}, !.drop = IF gone THEN @ \cup {p} ELSE @])
    BY <1>4 DEF SweepRevokes
  <2> DEFINE j == [work["takt"] EXCEPT !.left = @ \ {p}, !.drop = IF gone THEN @ \cup {p} ELSE @]
  <2>2. j \in Jobs /\ j.pc = work["takt"].pc /\ j.secret = work["takt"].secret /\ j.seen = work["takt"].seen
    BY <1>t, SizedOf DEF Jobs
  <2>3. j \in Sized
    BY <1>t, <2>2, SizedOf DEF Sized
  <2>4. work' \in [Workers -> Sized]
    BY <1>t, <2>1, <2>3, WorksOn
  <2> QED BY <1>4, <2>1, <2>4, RevokedTyped
         DEF SweepRevokes, GitRanges, ServiceTypes, ForgejoTypes, PlaceTypes, PeopleTypes, WorkTypes, peopleVars,
             serviceVars, placeVars
<1> QED BY <1>1, <1>2, <1>3, <1>4 DEF Sweeping

LEMMA OthersTyped ==
    ASSUME GitAssumption, GitRanges, SwitchOff \/ Update \/ Crash
    PROVE  GitRanges'
<1>s. /\ source \in [stored : 0 .. MaxSecrets, read : 0 .. MaxSecrets] /\ client \in 0 .. MaxSecrets
      /\ container \in [state : {"none", "running", "exited"}, old : BOOLEAN] /\ way \in BOOLEAN
      /\ count \in CountsInBounds /\ MaxSecrets \in Nat /\ NoToken \in Tokens
  BY CountsOf, TokenTyped DEF GitRanges, ServiceTypes, WorkTypes
<1>1. CASE SwitchOff
  <2>1. count' \in CountsInBounds
    BY <1>1, CountGoes DEF SwitchOff
  <2>2. container' \in [state : {"none", "running", "exited"}, old : BOOLEAN]
    BY <1>1, <1>s DEF SwitchOff
  <2>3. ServiceTypes'
    BY <1>1, <1>s, <2>2 DEF SwitchOff, ServiceTypes
  <2>4. PlaceTypes'
    BY <1>1, <1>s DEF SwitchOff, GitRanges, PlaceTypes
  <2> QED BY <1>1, <2>1, <2>3, <2>4 DEF SwitchOff, GitRanges, ForgejoTypes, PeopleTypes, WorkTypes, peopleVars, forgejoVars
<1>2. CASE Update
  <2>1. count' \in CountsInBounds
    BY <1>2, CountGoes DEF Update
  <2>2. container' = [container EXCEPT !.old = @ \/ container.state # "none"]
    BY <1>2 DEF Update
  <2>3. container' \in [state : {"none", "running", "exited"}, old : BOOLEAN]
    <3>1. (container.old \/ container.state # "none") \in BOOLEAN
      BY <1>s
    <3>2. \A b \in BOOLEAN : [container EXCEPT !.old = b] \in [state : {"none", "running", "exited"}, old : BOOLEAN]
      BY <1>s
    <3> QED BY <2>2, <3>1, <3>2
  <2>4. ServiceTypes'
    BY <1>2, <1>s, <2>3 DEF Update, ServiceTypes
  <2> QED BY <1>2, <2>1, <2>4
         DEF Update, GitRanges, ForgejoTypes, PlaceTypes, PeopleTypes, WorkTypes, peopleVars, forgejoVars, placeVars
<1>3. CASE Crash
  <2>1. count' \in CountsInBounds
    BY <1>3, CountGoes DEF Crash
  <2>2. work' \in [Workers -> Sized]
    BY <1>3, SizedOf DEF Crash
  <2>3. flushed' \in [Places -> Tokens]
    BY <1>3, <1>s DEF Crash
  <2>4. pending' \in [Users -> Awaited]
    <3>1. NoPending \in Awaited
      BY PendingTyped DEF Awaited
    <3> QED BY <1>3, <3>1 DEF Crash
  <2> QED BY <1>3, <2>1, <2>2, <2>3, <2>4
         DEF Crash, GitRanges, ServiceTypes, ForgejoTypes, PlaceTypes, PeopleTypes, WorkTypes,
             serviceVars, forgejoVars
<1> QED BY <1>1, <1>2, <1>3

\* A run of konten_abgleichen reads people, and carries accounts of theirs.
LEMMA RunTyped ==
    ASSUME GitAssumption, GitRanges, NEW x \in Workers, RunBegins(x) \/ Run(x)
    PROVE  GitRanges'
<1>c. "users" \in Stages \ {"accounts"} /\ "accounts" \in Stages
  BY DEF Stages
<1>r. user \in Known /\ user \in Read /\ konto \in [Users -> Kontos] /\ \A u \in Users : konto[u] \in Kontos
  BY DEF GitRanges, PeopleTypes, Known, Read
<1>1. CASE RunBegins(x)
  <2>1. work' \in [Workers -> Sized]
    BY <1>1, <1>c, GoesOn DEF RunBegins
  <2> QED BY <1>1, <2>1
         DEF RunBegins, GitRanges, ServiceTypes, ForgejoTypes, PlaceTypes, PeopleTypes, WorkTypes, peopleVars,
             serviceVars, forgejoVars, placeVars
<1>2. CASE RunReads(x)
  <2> DEFINE left == {u \in Users : on /\ user[u].there}
             j == [work[x] EXCEPT !.pc = "accounts", !.seen = user, !.secret = 0, !.left = left]
  <2>1. left \in SUBSET (Users \cup Places)
    OBVIOUS
  <2>2. Works(x, j)
    BY <1>2 DEF RunReads
  <2> HIDE DEF left
  <2>3. j \in Jobs /\ j.pc = "accounts" /\ j.secret = 0 /\ j.seen = user
    BY <1>c, <1>r, <2>1, SizedOf DEF Jobs
  <2> HIDE DEF j
  <2>4. j \in Sized
    BY <1>r, <2>3, CountsOf DEF Sized
  <2>5. work' \in [Workers -> Sized]
    BY <2>2, <2>4, WorksOn
  <2> QED BY <1>2, <2>5
         DEF RunReads, GitRanges, ServiceTypes, ForgejoTypes, PlaceTypes, PeopleTypes, WorkTypes, peopleVars,
             serviceVars, forgejoVars, placeVars
<1>3. CASE RunCommits(x)
  <2>1. \A u \in Users : KontoOf(x, u) \in Kontos
    <3> SUFFICES ASSUME NEW u \in Users PROVE KontoOf(x, u) \in Kontos
      OBVIOUS
    <3>1. work[x].konto \in Carried
      BY SizedOf, JobOf
    <3>2. u \in DOMAIN work[x].konto => work[x].konto[u] \in Kontos
      BY <3>1, NothingCarried DEF Carried
    <3> QED BY <1>r, <3>2 DEF KontoOf, Holds
  <2>2. NoKonto \in Kontos
    BY DEF NoKonto, Kontos
  <2>3. konto' \in [Users -> Kontos]
    BY <1>3, <2>1, <2>2 DEF RunCommits
  <2>4. work' \in [Workers -> Sized]
    BY <1>3, GivesUpOn DEF RunCommits
  <2> QED BY <1>3, <2>3, <2>4
         DEF RunCommits, GitRanges, ServiceTypes, ForgejoTypes, PlaceTypes, PeopleTypes, WorkTypes, peopleVars,
             serviceVars, forgejoVars, placeVars
<1>4. ASSUME NEW u \in Users, RunCares(x, u) PROVE GitRanges'
  <2> DEFINE had == work[x].konto
             left == work[x].left \ {u}
             D(k) == DOMAIN had \cup (IF k = konto[u] THEN {} ELSE {u})
             now(k) == [v \in D(k) |-> IF v = u THEN k ELSE had[v]]
  <2>1. \E to : /\ Cares(u, work[x].seen[u], konto[u], to)
                /\ Works(x, [work[x] EXCEPT !.left = left, !.konto = now(to.konto)])
    BY <1>4 DEF RunCares
  <2>2. work[x].konto \in Carried /\ work[x].left \in SUBSET (Users \cup Places) /\ work[x] \in Jobs
        /\ work[x].seen \in Known
    <3>1. work[x].pc = "accounts" /\ work[x] \in Sized /\ work[x] \in Jobs
      BY <1>4, SizedOf DEF RunCares
    <3>2. work[x].seen \in Known
      BY <3>1 DEF Sized
    <3> QED BY <3>1, <3>2, JobOf
  <2>3. DOMAIN had \subseteq Users /\ \A v \in DOMAIN had : had[v] \in Kontos
    BY <2>2, NothingCarried DEF Carried
  <2>4. work[x].seen[u] \in People /\ work[x].seen[u].name \in Names
    BY <2>2 DEF Known
  <2>5. PICK to : /\ Cares(u, work[x].seen[u], konto[u], to)
                  /\ Works(x, [work[x] EXCEPT !.left = left, !.konto = now(to.konto)])
    BY <2>1
  <2>6. CareTyped(to)
    BY <1>r, <2>4, <2>5, CaresTyped
  <2> PICK k : k = to.konto
    OBVIOUS
  <2>7. now(k) \in [D(k) -> Kontos] /\ D(k) \in SUBSET Users
    BY <2>3, <2>6 DEF CareTyped
  <2>8. Works(x, [work[x] EXCEPT !.left = left, !.konto = now(k)])
    BY <2>5
  <2> PICK konten : konten = now(k)
    OBVIOUS
  <2>9. konten \in Carried
    BY <2>7 DEF Carried
  <2>10. Works(x, [work[x] EXCEPT !.left = left, !.konto = konten])
    BY <2>8
  <2>11. left \in SUBSET (Users \cup Places)
    BY <2>2
  <2> HIDE DEF now, D, left, had
  <2> PICK j : j = [work[x] EXCEPT !.left = left, !.konto = konten]
    OBVIOUS
  <2>12. j \in Jobs /\ j.pc = work[x].pc /\ j.secret = work[x].secret /\ j.seen = work[x].seen
    BY <2>2, <2>9, <2>11 DEF Jobs
  <2>13. j \in Sized
    BY <2>12, SizedOf DEF Sized
  <2>14. work' \in [Workers -> Sized]
    BY <2>10, <2>13, WorksOn
  <2> QED BY <1>4, <2>6, <2>14
         DEF CareTyped, RunCares, GitRanges, ServiceTypes, ForgejoTypes, PlaceTypes, PeopleTypes, WorkTypes,
             peopleVars, serviceVars, placeVars
<1> QED BY <1>1, <1>2, <1>3, <1>4 DEF Run

LEMMA PeopleTyped ==
    ASSUME GitAssumption, GitRanges, NEW u \in Users,
           \/ FirstSignIn(u) \/ SignInCommits(u)
           \/ (\E may \in BOOLEAN : Entitled(u, may)) \/ (\E n \in Names : SignIn(u, n))
    PROVE  GitRanges'
<1>1. /\ user \in [Users -> People] /\ user[u] \in People /\ user[u].name \in Names /\ user \in Known
      /\ konto \in [Users -> Kontos] /\ konto[u] \in Kontos /\ "nobody" # "sign-in"
  BY DEF GitRanges, PeopleTypes, Known
<1>2. CASE FirstSignIn(u)
  <2>1. accounts' \in Owned
    BY <1>2 DEF FirstSignIn, GitRanges, ForgejoTypes, Owned
  <2> QED BY <1>2, <2>1
         DEF FirstSignIn, GitRanges, ServiceTypes, ForgejoTypes, PlaceTypes, PeopleTypes, WorkTypes, peopleVars,
             serviceVars, placeVars
<1>3. CASE SignInCommits(u)
  <2>1. user' \in Known /\ konto' \in [Users -> Kontos] /\ pending' \in [Users -> Awaited]
    BY <1>1, <1>3, CommittedTyped DEF SignInCommits
  <2> QED BY <1>3, <2>1
         DEF SignInCommits, GitRanges, ServiceTypes, ForgejoTypes, PlaceTypes, PeopleTypes, WorkTypes,
             forgejoVars, serviceVars, placeVars
<1>4. ASSUME NEW may \in BOOLEAN, Entitled(u, may) PROVE GitRanges'
  <2> PICK who : who = [user[u] EXCEPT !.may = may]
    OBVIOUS
  <2>1. who \in People /\ who.name \in Names
    BY <1>1 DEF People
  <2>2. user' = [user EXCEPT ![u] = who] /\ user'[u] = who
    BY <1>1, <1>4 DEF Entitled
  <2>3. user' \in Known
    BY <1>1, <2>1, <2>2 DEF Known
  <2>4. /\ konto' \in [Users -> Kontos] /\ accounts' \in Owned /\ prohibited' \subseteq Users
        /\ count' \in CountsInBounds
    <3>1. CASE on
      <4>1. PICK to : Cares(u, who, konto[u], to) /\ konto' = IF to.ok THEN [konto EXCEPT ![u] = to.konto] ELSE konto
        BY <1>4, <2>2, <3>1 DEF Entitled
      <4>2. CareTyped(to)
        BY <1>1, <2>1, <4>1, CaresTyped
      <4> QED BY <1>1, <4>1, <4>2 DEF CareTyped
    <3>2. CASE ~on
      BY <1>4, <3>2 DEF Entitled, GitRanges, PeopleTypes, ForgejoTypes, WorkTypes
    <3> QED BY <3>1, <3>2
  <2> QED BY <1>4, <2>3, <2>4
         DEF Entitled, GitRanges, ServiceTypes, ForgejoTypes, PlaceTypes, PeopleTypes, WorkTypes, serviceVars, placeVars
<1>5. ASSUME NEW n \in Names, SignIn(u, n) PROVE GitRanges'
  <2> PICK who : who = [user[u] EXCEPT !.name = n]
    OBVIOUS
  <2>1. who \in People /\ who.name \in Names
    BY <1>1 DEF People
  <2>2. /\ pending' \in [Users -> Awaited] /\ accounts' \in Owned /\ prohibited' \subseteq Users
        /\ count' \in CountsInBounds
    <3>1. CASE on
      <4>1. PICK to : Cares(u, who, konto[u], to) /\ Flushes("sign-in", u, n, to.konto)
        BY <1>5, <3>1 DEF SignIn
      <4>2. CareTyped(to)
        BY <1>1, <2>1, <4>1, CaresTyped
      <4> QED BY <4>1, <4>2, FlushTyped DEF CareTyped
    <3>2. CASE ~on
      <4>1. Flushes("sign-in", u, n, konto[u]) /\ UNCHANGED <<accounts, prohibited, count>>
        BY <1>5, <3>2 DEF SignIn
      <4> QED BY <1>1, <4>1, FlushTyped DEF GitRanges, ForgejoTypes, WorkTypes
    <3> QED BY <3>1, <3>2
  <2> QED BY <1>5, <2>2
         DEF SignIn, GitRanges, ServiceTypes, ForgejoTypes, PlaceTypes, PeopleTypes, WorkTypes, serviceVars, placeVars
<1> QED BY <1>2, <1>3, <1>4, <1>5

LEMMA DeletedTyped ==
    ASSUME GitAssumption, GitRanges, NEW u \in Users, Deleted(u)
    PROVE  GitRanges'
<1>1. /\ user \in Known /\ konto \in [Users -> Kontos] /\ accounts \in Owned /\ prohibited \subseteq Users
      /\ row \in [Places -> Tokens] /\ NoToken \in Tokens /\ NoKonto \in Kontos /\ konto[u] \in Kontos
      /\ valid \subseteq [id : 1 .. MaxTokens, of : Users, place : Places]
      /\ place \in [Places -> {"none", "starting", "asked", "live", "ended"}]
  BY TokenTyped DEF GitRanges, PeopleTypes, ForgejoTypes, PlaceTypes, NoKonto, Kontos
<1>2. user' \in Known
  <2>1. user' = [user EXCEPT ![u].there = FALSE]
    BY DEF Deleted
  <2>2. user[u] \in People /\ user[u].name \in Names
    BY <1>1 DEF Known
  <2>3. [user[u] EXCEPT !.there = FALSE] \in {p \in People : p.name \in Names}
    BY <2>2 DEF People
  <2> QED BY <1>1, <2>1, <2>3 DEF Known
<1>3. konto' \in [Users -> Kontos]
  BY <1>1 DEF Deleted
<1>4. prohibited' \subseteq Users
  <2>1. \/ prohibited' = prohibited
        \/ /\ konto[u].name # NoName /\ accounts[konto[u].name] # NoUser
           /\ prohibited' = prohibited \cup {accounts[konto[u].name]}
    BY DEF Deleted
  <2>2. konto[u].name # NoName => konto[u].name \in AllNames
    BY <1>1, NamesThere DEF Kontos
  <2> QED BY <1>1, <2>1, <2>2 DEF Owned
<1>5. row' \in [Places -> Tokens]
  BY <1>1 DEF Deleted
<1>6. valid' \subseteq valid
  BY DEF Deleted
<1>7. place' \in [Places -> {"none", "starting", "asked", "live", "ended"}]
  BY <1>1 DEF Deleted
<1>8. UNCHANGED <<on, serviceVars, pending, accounts, flushed, desk, work, count>>
  BY DEF Deleted
<1> QED BY <1>1, <1>2, <1>3, <1>4, <1>5, <1>6, <1>7, <1>8
       DEF GitRanges, ServiceTypes, ForgejoTypes, PlaceTypes, PeopleTypes, WorkTypes, peopleVars, serviceVars

LEMMA StartTyped ==
    ASSUME GitAssumption, GitRanges, NEW p \in Places,
           \/ StartBegins(p) \/ StartIssues(p) \/ StartSkips(p) \/ Closes(p) \/ ClosesQuietly(p)
           \/ \E well \in BOOLEAN : StartEnds(p, well)
    PROVE  GitRanges'
<1>1. /\ user \in Known /\ konto \in [Users -> Kontos] /\ accounts \in Owned /\ prohibited \subseteq Users
      /\ row \in [Places -> Tokens] /\ flushed \in [Places -> Tokens] /\ NoToken \in Tokens
      /\ place \in [Places -> {"none", "starting", "asked", "live", "ended"}] /\ desk \in [Places -> 0 .. MaxTokens]
      /\ valid \subseteq [id : 1 .. MaxTokens, of : Users, place : Places] /\ Owner(p) \in Users
  BY TokenTyped DEF GitRanges, PeopleTypes, ForgejoTypes, PlaceTypes, GitAssumption
<1>2. CASE StartBegins(p) \/ ClosesQuietly(p)
  <2>1. place' \in [Places -> {"none", "starting", "asked", "live", "ended"}]
    BY <1>1, <1>2 DEF StartBegins, ClosesQuietly
  <2> QED BY <1>2, <2>1
         DEF StartBegins, ClosesQuietly, GitRanges, ServiceTypes, ForgejoTypes, PlaceTypes, PeopleTypes,
             WorkTypes, peopleVars, serviceVars, forgejoVars
<1>3. CASE Closes(p)
  <2>1. PICK gone \in BOOLEAN : Revoked(row[p], gone) /\ row' = [row EXCEPT ![p] = IF gone THEN NoToken ELSE @]
    BY <1>3 DEF Closes
  <2>2. place' \in [Places -> {"none", "starting", "asked", "live", "ended"}] /\ row' \in [Places -> Tokens]
    BY <1>1, <1>3, <2>1 DEF Closes
  <2>3. valid' \subseteq [id : 1 .. MaxTokens, of : Users, place : Places] /\ count' \in CountsInBounds
    BY <2>1, RevokedTyped
  <2> QED BY <1>3, <2>2, <2>3
         DEF Closes, GitRanges, ServiceTypes, ForgejoTypes, PlaceTypes, PeopleTypes, WorkTypes, peopleVars, serviceVars
<1>4. ASSUME NEW well \in BOOLEAN, StartEnds(p, well) PROVE GitRanges'
  <2>1. flushed[p] \in Tokens /\ flushed[p].id \in 0 .. MaxTokens
    BY <1>1 DEF Tokens
  <2>2. place' \in [Places -> {"none", "starting", "asked", "live", "ended"}]
    BY <1>1, <1>4 DEF StartEnds
  <2>3. row' \in [Places -> Tokens] /\ flushed' \in [Places -> Tokens]
    BY <1>1, <1>4, <2>1 DEF StartEnds
  <2>4. desk' \in [Places -> 0 .. MaxTokens]
    BY <1>1, <1>4, <2>1 DEF StartEnds
  <2>5. user' \in Known /\ konto' \in [Users -> Kontos] /\ pending' \in [Users -> Awaited]
    <3>1. CASE pending[Owner(p)].by = p
      BY <1>1, <1>4, <3>1, CommittedTyped, PendingTyped DEF StartEnds
    <3>2. CASE pending[Owner(p)].by # p
      BY <1>1, <1>4, <3>2 DEF StartEnds, peopleVars, GitRanges, PeopleTypes
    <3> QED BY <3>1, <3>2
  <2> QED BY <1>4, <2>2, <2>3, <2>4, <2>5
         DEF StartEnds, GitRanges, ServiceTypes, ForgejoTypes, PlaceTypes, PeopleTypes, WorkTypes,
             serviceVars, forgejoVars
<1>s. place[p] = "starting" => [place EXCEPT ![p] = "asked"] \in [Places -> {"none", "starting", "asked", "live", "ended"}]
  BY <1>1
<1>5. CASE StartIssues(p)
  <2> PICK u : u = Owner(p)
    OBVIOUS
  <2> PICK name : name = user[u].name
    OBVIOUS
  <2> PICK now : now = Cared(u, user[u], konto[u])
    OBVIOUS
  <2> PICK n : n = count.tokens + 1
    OBVIOUS
  <2>1. u \in Users /\ user[u] \in People /\ name \in Names /\ konto[u] \in Kontos /\ name \in AllNames
        /\ prohibited \in SUBSET Users
    BY <1>1, NamesThere DEF Known
  <2>2. now \in States
    BY <1>1, <2>1, CaredMoves
  <2>3. now.ok /\ user[u].may /\ count.tokens < MaxTokens /\ Tallied("tokens")
    BY <1>5 DEF StartIssues, AsksForGit
  <2>4. now.accounts[name] # NoUser
    BY <1>1, <2>1, <2>3, CaredNames
  <2>5. n \in 1 .. MaxTokens /\ n \in 0 .. MaxTokens /\ count' \in CountsInBounds
    BY <2>3, CountsOf, CountGoes
  <2>6. now.accounts \in Owned /\ now.konto \in Kontos /\ now.prohibited \subseteq Users
        /\ now.accounts[name] \in Users
    BY <2>1, <2>2, <2>4 DEF States, Owned
  <2>7. /\ Flushes(p, u, name, now.konto) /\ accounts' = now.accounts /\ prohibited' = now.prohibited
        /\ valid' = (valid \ Reached(row[p])) \cup {[id |-> n, of |-> now.accounts[name], place |-> p]}
        /\ flushed' = [flushed EXCEPT ![p] = [id |-> n, name |-> name]]
        /\ place[p] = "starting" /\ place' = [place EXCEPT ![p] = "asked"]
        /\ UNCHANGED <<on, serviceVars, user, konto, row, desk, work>>
    BY <1>5 DEF StartIssues, AsksForGit
  <2>8. pending' \in [Users -> Awaited]
    BY <2>1, <2>6, <2>7, FlushTyped
  <2>9. /\ [id |-> n, name |-> name] \in Tokens
        /\ [id |-> n, of |-> now.accounts[name], place |-> p] \in [id : 1 .. MaxTokens, of : Users, place : Places]
    BY <2>1, <2>5, <2>6 DEF Tokens
  <2>10. valid' \subseteq [id : 1 .. MaxTokens, of : Users, place : Places] /\ flushed' \in [Places -> Tokens]
    BY <1>1, <2>7, <2>9
  <2> QED BY <1>s, <2>5, <2>6, <2>7, <2>8, <2>10
         DEF GitRanges, ServiceTypes, ForgejoTypes, PlaceTypes, PeopleTypes, WorkTypes, serviceVars
<1>6. CASE StartSkips(p)
  <2> PICK u : u = Owner(p)
    OBVIOUS
  <2>1. \E to : Cares(u, user[u], konto[u], to) /\ Flushes(p, u, user[u].name, to.konto)
    BY <1>6 DEF StartSkips
  <2>2. PICK to : Cares(u, user[u], konto[u], to) /\ Flushes(p, u, user[u].name, to.konto)
    BY <2>1
  <2>3. u \in Users /\ user[u] \in People /\ user[u].name \in Names /\ konto[u] \in Kontos
    BY <1>1 DEF Known
  <2>4. CareTyped(to)
    BY <2>2, <2>3, CaresTyped
  <2>5. pending' \in [Users -> Awaited]
    BY <2>2, <2>3, <2>4, FlushTyped DEF CareTyped
  <2>6. /\ place[p] = "starting" /\ place' = [place EXCEPT ![p] = "asked"]
        /\ UNCHANGED <<on, serviceVars, user, konto, valid, row, flushed, desk, work>>
    BY <1>6 DEF StartSkips, AsksForGit
  <2> QED BY <1>s, <2>4, <2>5, <2>6
         DEF CareTyped, GitRanges, ServiceTypes, ForgejoTypes, PlaceTypes, PeopleTypes, WorkTypes, serviceVars
<1> QED BY <1>2, <1>3, <1>4, <1>5, <1>6

LEMMA GitBeginsTyped == ASSUME GitAssumption, GitInit PROVE GitRanges
<1>1. MaxSecrets \in Nat /\ MaxTokens \in Nat /\ NoToken \in Tokens
  BY TokenTyped DEF GitAssumption
<1>2. ServiceTypes
  <2>1. [state |-> "none", old |-> FALSE] \in [state : {"none", "running", "exited"}, old : BOOLEAN]
    OBVIOUS
  <2>2. [stored |-> 0, read |-> 0] \in [stored : 0 .. MaxSecrets, read : 0 .. MaxSecrets] /\ 0 \in 0 .. MaxSecrets
    BY <1>1
  <2> QED BY <2>1, <2>2, Zenon DEF GitInit, ServiceTypes
<1>7. ForgejoTypes
  BY DEF GitInit, ForgejoTypes, Owned
<1>3. PlaceTypes
  BY <1>1 DEF GitInit, PlaceTypes
<1>4. PeopleTypes
  <2>1. PICK name \in [Users -> Names] :
          user = [u \in Users |-> [there |-> TRUE, may |-> TRUE, name |-> name[u]]]
    BY DEF GitInit
  <2>2. user \in Known
    BY <2>1 DEF Known, People
  <2>3. NoKonto \in Kontos /\ NoPending \in Awaited
    BY PendingTyped DEF Awaited
  <2> QED BY <2>2, <2>3 DEF GitInit, PeopleTypes
<1>5. Idle \in Sized
  BY <1>1, IdleIsJob DEF Sized, Idle
<1>6. WorkTypes
  BY <1>1, <1>5 DEF GitInit, WorkTypes, CountsInBounds, Counts
<1> QED BY <1>2, <1>3, <1>4, <1>6, <1>7 DEF GitRanges

\* OTA's rows, Forgejo's accounts and tokens and what a worker has read and not committed stay well
\* typed, also when Forgejo fails, the API crashes, names change hands and workers overlap (git.py,
\* git_dienst.py).
THEOREM GitTypesHold == ASSUME GitAssumption PROVE GitSpec => []GitTypeOK
<1>1. GitInit => GitRanges
  BY GitBeginsTyped
<1>2. GitRanges /\ [GitNext]_gitVars => GitRanges'
  <2>1. GitRanges /\ GitNext => GitRanges'
    BY SwitchTyped, TaktTyped, OthersTyped, RunTyped, PeopleTyped, DeletedTyped, StartTyped DEF GitNext
  <2>2. GitRanges /\ UNCHANGED gitVars => GitRanges'
    BY DEF GitRanges, ServiceTypes, ForgejoTypes, PlaceTypes, PeopleTypes, WorkTypes, peopleVars, gitVars, serviceVars,
           forgejoVars, placeVars
  <2> QED BY <2>1, <2>2
<1>3. GitRanges => GitTypeOK
  BY RangesAreTypes
<1> QED BY <1>1, <1>2, <1>3, PTL DEF GitSpec

-----------------------------------------------------------------------------
(* Groups: two halves of a membership.                                         *)

Plans == {"none", "insert", "set", "clear", "delete"}
MemberRow == [there : BOOLEAN, from : SUBSET Halves]

LEMMA DecideType ==
    ASSUME NEW half \in Halves, NEW wanted \in BOOLEAN, NEW member \in MemberRow
    PROVE  Decide(half, wanted, member) \in Plans
BY DEF Decide, Plans

\* What a statement makes of a row: the half of the other side comes only to stay.
LEMMA RowAfterFits ==
    ASSUME NEW half \in Halves, NEW plan \in Plans, NEW member \in MemberRow
    PROVE  /\ RowAfter(half, plan, member) \in MemberRow
           /\ plan \in {"none", "set", "clear"} => (RowAfter(half, plan, member).there <=> member.there)
           /\ plan = "none" => RowAfter(half, plan, member) = member
           /\ plan = "insert" => RowAfter(half, plan, member).from = {half} /\ RowAfter(half, plan, member).there
           /\ plan = "set" => RowAfter(half, plan, member).from = member.from \cup {half}
           /\ plan = "clear" => RowAfter(half, plan, member).from = member.from \ {half}
           /\ plan = "delete" => RowAfter(half, plan, member).from = {}
<1>1. CASE plan = "none"
  BY <1>1 DEF RowAfter
<1>2. CASE plan = "insert"
  BY <1>2 DEF RowAfter, MemberRow, Halves
<1>3. CASE plan = "set"
  <2>1. RowAfter(half, plan, member) = [member EXCEPT !.from = @ \cup {half}]
    BY <1>3 DEF RowAfter
  <2> QED BY <2>1, <1>3 DEF MemberRow
<1>4. CASE plan = "clear"
  <2>1. RowAfter(half, plan, member) = [member EXCEPT !.from = @ \ {half}]
    BY <1>4 DEF RowAfter
  <2> QED BY <2>1, <1>4 DEF MemberRow
<1>5. CASE plan = "delete"
  BY <1>5 DEF RowAfter, MemberRow, NoRow
<1> QED BY <1>1, <1>2, <1>3, <1>4, <1>5 DEF Plans

LEMMA Halved == \A t \in Writers : HalfOf(t) \in Halves
BY DEF HalfOf, Halves, Writers

LEMMA AtRestIsAJob == AtRest \in Job
BY DEF AtRest, Job

LEMMA DoesKeeps ==
    ASSUME jobs \in [Writers -> Job], NEW t \in Writers, NEW job \in Job, Does(t, job)
    PROVE  jobs' \in [Writers -> Job] /\ jobs'[t] = job /\ \A o \in Writers \ {t} : jobs'[o] = jobs[o]
BY DEF Does

LEMMA TransferKeeps ==
    ASSUME GroupsTypeOK, GroupsAssumption, NEW t \in Writers, NEW u \in Members, NEW plan, Transfer(t, u, plan)
    PROVE  /\ central' \subseteq Members /\ missed' \subseteq Members /\ misses' \in 0 .. MaxMisses
           /\ \A v \in Members \ {u} : (v \in central' <=> v \in central) /\ (v \in missed' <=> v \in missed)
BY DEF Transfer, GroupsTypeOK, GroupsAssumption

LEMMA PlannedIsAJob ==
    ASSUME jobs \in [Writers -> Job], NEW t \in Writers, NEW u \in Members, NEW plan \in Plans
    PROVE  /\ Planned(t, u, plan) \in Job
           /\ Planned(t, u, plan).plan = [jobs[t].plan EXCEPT ![u] = plan]
           /\ Planned(t, u, plan).pc = jobs[t].pc /\ Planned(t, u, plan).left = jobs[t].left
           /\ Planned(t, u, plan).want = jobs[t].want /\ Planned(t, u, plan).out = jobs[t].out
           /\ Planned(t, u, plan).stuck = jobs[t].stuck
<1>1. jobs[t] \in Job
  OBVIOUS
<1>2. [jobs[t].plan EXCEPT ![u] = plan] \in [Members -> Plans]
  BY <1>1 DEF Job, Plans
<1>3. Planned(t, u, plan) = [jobs[t] EXCEPT !.plan = [jobs[t].plan EXCEPT ![u] = plan]]
  BY DEF Planned
<1> QED BY <1>1, <1>2, <1>3 DEF Job, Plans

LEMMA GroupsStepKeepsTypes ==
    ASSUME GroupsTypeOK, GroupsAssumption, GroupsNext
    PROVE  GroupsTypeOK'
<1> USE GroupsAssumption
<1>0. jobs \in [Writers -> Job] /\ rows \in [Members -> MemberRow]
  BY DEF GroupsTypeOK, MemberRow
<1>1. ASSUME NEW u \in Members, NEW wanted \in BOOLEAN, NEW enable \in BOOLEAN, EditBegins(u, wanted, enable)
      PROVE  GroupsTypeOK'
  <2>1. "edit" \in Writers
    BY DEF Writers
  <2>2. [AtRest EXCEPT !.pc = "write", !.left = {u}, !.want = IF wanted THEN {u} ELSE {},
                       !.out = IF enable THEN {} ELSE {u}, !.on = IF enable THEN {u} ELSE {}] \in Job
    BY DEF AtRest, Job
  <2> QED BY <1>0, <1>1, <2>1, <2>2, DoesKeeps DEF EditBegins, GroupsTypeOK
<1>2. ASSUME NEW u \in Members, SignInBegins(u)
      PROVE  GroupsTypeOK'
  <2>1. "signin" \in Writers
    BY DEF Writers
  <2>2. [AtRest EXCEPT !.pc = "write", !.left = {u},
                       !.want = IF coupled /\ directory[u] = "in" THEN {u} ELSE {}] \in Job
    BY DEF AtRest, Job
  <2> QED BY <1>0, <1>2, <2>1, <2>2, DoesKeeps DEF SignInBegins, GroupsTypeOK
<1>3. CASE RunAsks
  <2>1. "run" \in Writers
    BY DEF Writers
  <2>2. [AtRest EXCEPT !.pc = "read", !.want = {u \in Members : coupled /\ directory[u] = "in"}] \in Job
    BY DEF AtRest, Job
  <2> QED BY <1>0, <1>3, <2>1, <2>2, DoesKeeps DEF RunAsks, GroupsTypeOK
<1>4. CASE RunCounts
  <2>1. "run" \in Writers
    BY DEF Writers
  <2>2. Missing \subseteq Members
    BY DEF Missing, Listed
  <2>3. [jobs["run"] EXCEPT !.pc = "write", !.left = Members, !.out = Missing] \in Job
    BY <1>0, <2>1, <2>2 DEF Job
  <2> QED BY <1>0, <1>4, <2>1, <2>3, DoesKeeps, AtRestIsAJob DEF RunCounts, GroupsTypeOK
<1>5. ASSUME NEW t \in Writers, NEW u \in Members, Writes(t, u)
      PROVE  GroupsTypeOK'
  <2> DEFINE plan == Decide(HalfOf(t), u \in jobs[t].want, rows[u])
  <2>0. rows[u] \in MemberRow /\ (u \in jobs[t].want) \in BOOLEAN /\ HalfOf(t) \in Halves
    BY <1>0, Halved
  <2>1. plan \in Plans
    BY <2>0, DecideType
  <2> HIDE DEF plan
  <2>2. Planned(t, u, plan) \in Job /\ Planned(t, u, plan).left = jobs[t].left
    BY <1>0, <2>1, PlannedIsAJob
  <2>3. /\ [Planned(t, u, plan) EXCEPT !.stuck = u] \in Job
        /\ [Planned(t, u, plan) EXCEPT !.left = @ \ {u}] \in Job
    BY <2>2 DEF Job
  <2>4. UNCHANGED <<rows, directory, coupled, active>>
    BY <1>5 DEF Writes
  <2>5. CASE plan # "none" /\ HeldByOther(t, u)
    <3>1. Does(t, [Planned(t, u, plan) EXCEPT !.stuck = u]) /\ UNCHANGED <<central, missed, misses>>
      BY <1>5, <2>5 DEF Writes, plan
    <3> QED BY <1>0, <2>3, <2>4, <3>1, DoesKeeps DEF GroupsTypeOK
  <2>6. CASE ~(plan # "none" /\ HeldByOther(t, u))
    <3>1. Does(t, [Planned(t, u, plan) EXCEPT !.left = @ \ {u}]) /\ Transfer(t, u, plan)
      BY <1>5, <2>6 DEF Writes, plan
    <3>2. central' \subseteq Members /\ missed' \subseteq Members /\ misses' \in 0 .. MaxMisses
      BY <3>1, TransferKeeps
    <3> QED BY <1>0, <2>3, <2>4, <3>1, <3>2, DoesKeeps DEF GroupsTypeOK
  <2> QED BY <2>5, <2>6
<1>6. ASSUME NEW t \in Writers, Resumes(t)
      PROVE  GroupsTypeOK'
  <2> DEFINE u == jobs[t].stuck
             plan == jobs[t].plan[u]
             job == [jobs[t] EXCEPT !.left = @ \ {u}, !.stuck = NoMember]
  <2>1. jobs[t] \in Job /\ u \in Members
    BY <1>0, <1>6 DEF Resumes, Job
  <2>2. job \in Job
    BY <2>1 DEF Job
  <2>3. UNCHANGED <<rows, directory, coupled, active>>
    BY <1>6 DEF Resumes
  <2>4. \/ Does(t, job) /\ Transfer(t, u, plan)
        \/ Does(t, AtRest) /\ UNCHANGED <<central, missed, misses>>
    BY <1>6 DEF Resumes
  <2> HIDE DEF u, plan, job
  <2>5. CASE Does(t, job) /\ Transfer(t, u, plan)
    <3>1. central' \subseteq Members /\ missed' \subseteq Members /\ misses' \in 0 .. MaxMisses
      BY <2>1, <2>5, TransferKeeps
    <3> QED BY <1>0, <2>2, <2>3, <2>5, <3>1, DoesKeeps DEF GroupsTypeOK
  <2>6. CASE Does(t, AtRest) /\ UNCHANGED <<central, missed, misses>>
    BY <1>0, <2>3, <2>6, DoesKeeps, AtRestIsAJob DEF GroupsTypeOK
  <2> QED BY <2>4, <2>5, <2>6
<1>7. ASSUME NEW t \in Writers, WorkCommits(t)
      PROVE  GroupsTypeOK'
  <2>1. \A u \in Members : jobs[t].plan[u] \in Plans
    BY <1>0 DEF Job, Plans
  <2>2. rows' \in [Members -> MemberRow]
    BY <1>0, <1>7, <2>1, RowAfterFits, Halved DEF WorkCommits
  <2>3. active' \in [Members -> BOOLEAN]
    BY <1>7 DEF WorkCommits
  <2>4. jobs' \in [Writers -> Job]
    BY <1>0, <1>7, DoesKeeps, AtRestIsAJob DEF WorkCommits
  <2> QED BY <1>7, <2>2, <2>3, <2>4 DEF WorkCommits, GroupsTypeOK, MemberRow
<1>8. ASSUME NEW u \in Members, NEW d \in {"in", "out", "off", "gone"}, DirectoryChanges(u, d)
      PROVE  GroupsTypeOK'
  BY <1>8 DEF DirectoryChanges, GroupsTypeOK
<1>9. CASE Couples
  BY <1>9 DEF Couples, GroupsTypeOK
<1> QED BY <1>1, <1>2, <1>3, <1>4, <1>5, <1>6, <1>7, <1>8, <1>9 DEF GroupsNext

LEMMA GroupsStutterKeepsTypes ==
    ASSUME GroupsTypeOK, UNCHANGED groupVars
    PROVE  GroupsTypeOK'
BY DEF GroupsTypeOK, groupVars

LEMMA GroupsInitTypes ==
    ASSUME GroupsAssumption, GroupsInit
    PROVE  GroupsTypeOK
BY AtRestIsAJob DEF GroupsAssumption, GroupsInit, GroupsTypeOK, NoRow

\* Groups: a row says from which halves it comes, a transaction plans one statement for each account,
\* and Keycloak knows members of OTA's only (verzeichnis.py).
THEOREM GroupTypesHold ==
    ASSUME GroupsAssumption
    PROVE  GroupsSpec => []GroupsTypeOK
<1>1. GroupsInit => GroupsTypeOK
  BY GroupsInitTypes
<1>2. GroupsTypeOK /\ [GroupsNext]_groupVars => GroupsTypeOK'
  BY GroupsStepKeepsTypes, GroupsStutterKeepsTypes
<1> QED BY <1>1, <1>2, PTL DEF GroupsSpec

-----------------------------------------------------------------------------
\* One transaction at a time.
OnlyOne(t) == \A o \in Writers \ {t} : jobs[o].pc = "idle"
Unplanned(job) == job.stuck = NoMember /\ \A u \in Members : job.plan[u] = "none"
PlannedFits(t) ==
    /\ jobs[t].pc = "idle" => jobs[t] = AtRest
    /\ jobs[t].pc = "read" => t = "run" /\ Unplanned(jobs[t])
    /\ jobs[t].stuck = NoMember
    /\ \A u \in jobs[t].left : jobs[t].plan[u] = "none"
    /\ \A u \in Members : jobs[t].plan[u] # "none" =>
           jobs[t].plan[u] = Decide(HalfOf(t), u \in jobs[t].want, rows[u])
\* Keycloak has what the rows will be once the transaction commits.
Transferred(t) ==
    OnlyOne(t) => \A u \in Members \ missed :
        u \in central <=> RowAfter(HalfOf(t), jobs[t].plan[u], rows[u]).there
RowsFit == \A u \in Members : ~rows[u].there => rows[u].from = {}

GroupInv ==
    /\ \A t \in Writers : PlannedFits(t) /\ Transferred(t) /\ (jobs[t].pc # "idle" => OnlyOne(t))
    /\ RowsFit

LEMMA AtRestPlansNothing == Unplanned(AtRest) /\ AtRest.pc = "idle" /\ AtRest.left = {}
BY DEF Unplanned, AtRest

LEMMA NothingPlanned ==
    ASSUME GroupsTypeOK, NEW t \in Writers, NEW u \in Members
    PROVE  RowAfter(HalfOf(t), "none", rows[u]) = rows[u]
BY DEF RowAfter

LEMMA NewJobKeeps ==
    ASSUME GroupsTypeOK, GroupInv, NEW t \in Writers, NEW job \in Job, Does(t, job), OnlyOne(t),
           Unplanned(jobs[t]), Unplanned(job), job.pc = "idle" => job = AtRest,
           job.pc = "read" => t = "run", UNCHANGED <<rows, central, missed>>
    PROVE  GroupInv'
<1>1. jobs'[t] = job /\ \A o \in Writers \ {t} : jobs'[o] = jobs[o]
  BY DoesKeeps DEF GroupsTypeOK
<1>2. \A o \in Writers \ {t} : jobs[o] = AtRest
  BY DEF GroupInv, PlannedFits, OnlyOne
<1>3. \A o \in Writers : Unplanned(jobs'[o])
  BY <1>1, <1>2, AtRestPlansNothing
<1>4. \A u \in Members \ missed : u \in central <=> rows[u].there
  BY NothingPlanned DEF GroupInv, Transferred, Unplanned
<1>5. ASSUME NEW o \in Writers
      PROVE  /\ jobs'[o].pc = "idle" => jobs'[o] = AtRest
             /\ jobs'[o].pc = "read" => o = "run" /\ Unplanned(jobs'[o])
             /\ jobs'[o].left \subseteq Members
             /\ jobs'[o].pc # "idle" => OnlyOne(o)'
  <2>1. CASE o = t
    BY <1>1, <1>2, <1>3, <2>1, AtRestPlansNothing DEF OnlyOne, Job
  <2>2. CASE o # t
    BY <1>1, <1>2, <2>2, AtRestPlansNothing
  <2> QED BY <2>1, <2>2
<1>6. ASSUME NEW o \in Writers
      PROVE  PlannedFits(o)' /\ Transferred(o)'
  <2>1. PlannedFits(o)'
    BY <1>3, <1>5 DEF PlannedFits, Unplanned
  <2>2. \A u \in Members : RowAfter(HalfOf(o), jobs'[o].plan[u], rows[u]) = rows[u]
    BY <1>3, NothingPlanned DEF Unplanned
  <2>3. Transferred(o)'
    BY <1>4, <2>2 DEF Transferred
  <2> QED BY <2>1, <2>3
<1>7. RowsFit'
  BY DEF GroupInv, RowsFit
<1> QED BY <1>5, <1>6, <1>7 DEF GroupInv

LEMMA NobodyHolds ==
    ASSUME GroupInv, NEW t \in Writers, OnlyOne(t), NEW u \in Members
    PROVE  ~HeldByOther(t, u)
<1>1. \A o \in Writers \ {t} : jobs[o] = AtRest
  BY DEF GroupInv, PlannedFits, OnlyOne
<1> QED BY <1>1, AtRestPlansNothing DEF HeldByOther, HoldsRow, Unplanned

\* A statement that is decided now is one for the row as it is.
LEMMA DecidedIsDue ==
    ASSUME NEW half \in Halves, NEW wanted \in BOOLEAN, NEW member \in MemberRow,
           ~member.there => member.from = {}, NEW plan, plan = Decide(half, wanted, member)
    PROVE  /\ plan = "insert" => ~member.there
           /\ plan = "set" => member.there
           /\ plan = "delete" => member.from \in {{half}, {}}
BY DEF Decide

LEMMA WritesKeepsGroups ==
    ASSUME GroupsTypeOK, GroupInv, NEW t \in Writers, NEW u \in Members, Writes(t, u)
    PROVE  GroupInv'
<1> DEFINE plan == Decide(HalfOf(t), u \in jobs[t].want, rows[u])
           job == [Planned(t, u, plan) EXCEPT !.left = @ \ {u}]
<1>0. jobs \in [Writers -> Job] /\ rows \in [Members -> MemberRow]
  BY DEF GroupsTypeOK, MemberRow
<1>1. plan \in Plans
  <2>1. rows[u] \in MemberRow /\ (u \in jobs[t].want) \in BOOLEAN /\ HalfOf(t) \in Halves
    BY <1>0, Halved
  <2> QED BY <2>1, DecideType
<1>2. /\ jobs[t].pc = "write" /\ u \in jobs[t].left /\ UNCHANGED rows
      /\ IF plan # "none" /\ HeldByOther(t, u)
         THEN Does(t, [Planned(t, u, plan) EXCEPT !.stuck = u]) /\ UNCHANGED <<central, missed, misses>>
         ELSE Does(t, job) /\ Transfer(t, u, plan)
  BY DEF Writes
<1>3. OnlyOne(t) /\ PlannedFits(t) /\ Transferred(t)
  BY <1>2 DEF GroupInv
<1>4. Does(t, job) /\ Transfer(t, u, plan)
  BY <1>2, <1>3, NobodyHolds
<1>5. /\ job \in Job /\ job.pc = "write" /\ job.stuck = NoMember /\ job.want = jobs[t].want
      /\ job.left = jobs[t].left \ {u} /\ job.out = jobs[t].out
      /\ job.plan = [jobs[t].plan EXCEPT ![u] = plan]
  <2> DEFINE p == Planned(t, u, plan)
  <2>1. /\ p \in Job /\ p.plan = [jobs[t].plan EXCEPT ![u] = plan] /\ p.pc = jobs[t].pc
        /\ p.left = jobs[t].left /\ p.want = jobs[t].want /\ p.out = jobs[t].out /\ p.stuck = jobs[t].stuck
    BY <1>0, <1>1, PlannedIsAJob
  <2> HIDE DEF p
  <2>2. jobs[t].stuck = NoMember
    BY <1>3 DEF PlannedFits
  <2>3. job = [p EXCEPT !.left = @ \ {u}]
    BY DEF p
  <2> QED BY <1>2, <2>1, <2>2, <2>3 DEF Job
<1> HIDE DEF job
<1>6. jobs'[t] = job /\ \A o \in Writers \ {t} : jobs'[o] = jobs[o] /\ jobs[o].pc = "idle"
  BY <1>0, <1>3, <1>4, <1>5, DoesKeeps DEF OnlyOne
<1>7. jobs[t].plan \in [Members -> Plans]
  BY <1>0 DEF Job, Plans
<1>8. job.plan[u] = plan /\ \A v \in Members \ {u} : job.plan[v] = jobs[t].plan[v]
  BY <1>5, <1>7
<1>9. PlannedFits(t)'
  <2>1. \A v \in Members : job.plan[v] # "none" => job.plan[v] = Decide(HalfOf(t), v \in job.want, rows[v])
    BY <1>3, <1>5, <1>8 DEF PlannedFits
  <2>2. \A v \in job.left : job.plan[v] = "none"
    <3>1. job.left \subseteq Members \ {u} /\ job.left \subseteq jobs[t].left
      BY <1>5 DEF Job
    <3> QED BY <1>3, <1>8, <3>1 DEF PlannedFits
  <2> QED BY <1>2, <1>5, <1>6, <2>1, <2>2 DEF PlannedFits
<1>10. Transferred(t)'
  <2>1. SUFFICES ASSUME NEW v \in Members, v \notin missed'
                 PROVE  v \in central' <=> RowAfter(HalfOf(t), job.plan[v], rows[v]).there
    BY <1>2, <1>6 DEF Transferred
  <2>2. jobs[t].plan[u] = "none"
    BY <1>2, <1>3 DEF PlannedFits
  <2>3. CASE v # u
    <3>1. v \notin missed /\ (v \in central' <=> v \in central)
      BY <1>4, <2>1, <2>3 DEF Transfer
    <3> QED BY <1>3, <1>8, <2>3, <3>1 DEF Transferred
  <2>4. CASE v = u /\ TransferDue(t, u, plan)
    BY <1>4, <1>8, <2>1, <2>4 DEF Transfer
  <2>5. CASE v = u /\ ~TransferDue(t, u, plan)
    <3>1. UNCHANGED <<central, missed>> /\ plan \in {"none", "set", "clear"}
      BY <1>1, <1>4, <2>5 DEF Transfer, TransferDue, Plans
    <3>2. u \in central <=> rows[u].there
      BY <1>3, <2>1, <2>2, <2>5, <3>1, NothingPlanned DEF Transferred
    <3>3. RowAfter(HalfOf(t), plan, rows[u]).there <=> rows[u].there
      BY <1>0, <1>1, <3>1, RowAfterFits, Halved
    <3> QED BY <1>8, <2>5, <3>1, <3>2, <3>3
  <2> QED BY <2>3, <2>4, <2>5
<1>11. ASSUME NEW o \in Writers \ {t}
       PROVE  PlannedFits(o)' /\ Transferred(o)' /\ jobs'[o].pc = "idle"
  BY <1>2, <1>5, <1>6 DEF PlannedFits, Transferred, OnlyOne, GroupInv
<1>12. OnlyOne(t)' /\ RowsFit'
  BY <1>2, <1>6 DEF OnlyOne, RowsFit, GroupInv
<1> QED BY <1>9, <1>10, <1>11, <1>12 DEF GroupInv

\* What a commit makes of each row, and what it leaves.
LEMMA CommitWrites ==
    ASSUME GroupsTypeOK, GroupInv, NEW t \in Writers, WorkCommits(t), NEW u \in Members
    PROVE  /\ ~rows'[u].there => rows'[u].from = {}
           /\ \A half \in Halves :
                  (half \in rows[u].from) # (half \in rows'[u].from) =>
                      half = HalfOf(t) /\ jobs[t].plan[u] # "none"
<1> DEFINE plan == jobs[t].plan[u]
<1>0. jobs \in [Writers -> Job] /\ rows \in [Members -> MemberRow]
  BY DEF GroupsTypeOK, MemberRow
<1>1. /\ plan \in Plans /\ rows[u] \in MemberRow /\ HalfOf(t) \in Halves
      /\ (u \in jobs[t].want) \in BOOLEAN
  BY <1>0, Halved DEF Job, Plans
<1>2. rows'[u] = RowAfter(HalfOf(t), plan, rows[u])
  BY DEF WorkCommits
<1>3. ~rows[u].there => rows[u].from = {}
  BY DEF GroupInv, RowsFit
<1>4. /\ plan = "insert" => ~rows[u].there
      /\ plan = "set" => rows[u].there
      /\ plan = "delete" => rows[u].from \in {{HalfOf(t)}, {}}
  <2>1. plan # "none" => plan = Decide(HalfOf(t), u \in jobs[t].want, rows[u])
    BY DEF GroupInv, PlannedFits
  <2> HIDE DEF plan
  <2> QED BY <1>1, <1>3, <2>1, DecidedIsDue
<1> HIDE DEF plan
<1>5. /\ RowAfter(HalfOf(t), plan, rows[u]) \in MemberRow
      /\ plan \in {"set", "clear"} => (rows'[u].there <=> rows[u].there)
      /\ plan = "none" => rows'[u] = rows[u]
      /\ plan = "insert" => rows'[u].from = {HalfOf(t)} /\ rows'[u].there
      /\ plan = "set" => rows'[u].from = rows[u].from \cup {HalfOf(t)}
      /\ plan = "clear" => rows'[u].from = rows[u].from \ {HalfOf(t)}
      /\ plan = "delete" => rows'[u].from = {}
  <2>1. PICK half : half = HalfOf(t)
    OBVIOUS
  <2>2. half \in Halves
    BY <1>1, <2>1
  <2>3. rows'[u] = RowAfter(half, plan, rows[u])
    BY <1>2, <2>1
  <2> HIDE DEF plan
  <2> QED BY ONLY <1>1, <2>1, <2>2, <2>3, RowAfterFits
<1>6. ~rows'[u].there => rows'[u].from = {}
  BY <1>1, <1>3, <1>4, <1>5 DEF Plans
<1>7. ASSUME NEW half \in Halves, (half \in rows[u].from) # (half \in rows'[u].from)
      PROVE  half = HalfOf(t) /\ plan # "none"
  BY <1>1, <1>3, <1>4, <1>5, <1>7 DEF Plans
<1> QED BY <1>6, <1>7 DEF plan

LEMMA CommitKeepsGroups ==
    ASSUME GroupsTypeOK, GroupInv, NEW t \in Writers, WorkCommits(t)
    PROVE  GroupInv'
<1>1. jobs'[t] = AtRest /\ \A o \in Writers \ {t} : jobs'[o] = jobs[o] /\ jobs[o] = AtRest
  <2>1. OnlyOne(t)
    BY DEF GroupInv, WorkCommits
  <2>2. \A o \in Writers \ {t} : jobs[o] = AtRest
    BY <2>1 DEF OnlyOne, GroupInv, PlannedFits
  <2> QED BY <2>2, DoesKeeps, AtRestIsAJob DEF WorkCommits, GroupsTypeOK
<1>2. RowsFit'
  BY CommitWrites DEF RowsFit
<1>3. \A u \in Members \ missed' : u \in central' <=> rows'[u].there
  BY DEF WorkCommits, GroupInv, Transferred
<1>4. ASSUME NEW o \in Writers
      PROVE  PlannedFits(o)' /\ Transferred(o)' /\ jobs'[o].pc = "idle"
  <2>1. jobs'[o] = AtRest
    BY <1>1
  <2>2. PlannedFits(o)'
    BY <2>1, AtRestPlansNothing DEF PlannedFits, Unplanned
  <2>3. \A u \in Members : RowAfter(HalfOf(o), jobs'[o].plan[u], rows'[u]) = rows'[u]
    BY <2>1, AtRestPlansNothing DEF RowAfter, Unplanned
  <2>4. Transferred(o)'
    BY <1>3, <2>3 DEF Transferred
  <2> QED BY <2>1, <2>2, <2>4, AtRestPlansNothing
<1> QED BY <1>2, <1>4 DEF GroupInv

LEMMA MayStartFree ==
    ASSUME GroupInv, ~Beside, NEW t \in Writers, MayStart(t)
    PROVE  OnlyOne(t) /\ Unplanned(jobs[t])
BY AtRestPlansNothing DEF MayStart, OnlyOne, GroupInv, PlannedFits

LEMMA GroupsStepKeeps ==
    ASSUME GroupsAssumption, ~Beside, GroupsTypeOK, GroupInv, GroupsNext
    PROVE  GroupInv'
<1>0. jobs \in [Writers -> Job]
  BY DEF GroupsTypeOK
<1>1. ASSUME NEW u \in Members, NEW wanted \in BOOLEAN, NEW enable \in BOOLEAN, EditBegins(u, wanted, enable)
      PROVE  GroupInv'
  <2> DEFINE job == [AtRest EXCEPT !.pc = "write", !.left = {u}, !.want = IF wanted THEN {u} ELSE {},
                                   !.out = IF enable THEN {} ELSE {u}, !.on = IF enable THEN {u} ELSE {}]
  <2>1. job \in Job /\ Unplanned(job) /\ job.pc = "write"
    BY DEF AtRest, Job, Unplanned
  <2>2. "edit" \in Writers /\ Does("edit", job) /\ MayStart("edit") /\ UNCHANGED <<rows, central, missed>>
    BY <1>1 DEF Writers, EditBegins
  <2> HIDE DEF job
  <2> QED BY <2>1, <2>2, NewJobKeeps, MayStartFree
<1>2. ASSUME NEW u \in Members, SignInBegins(u)
      PROVE  GroupInv'
  <2> DEFINE job == [AtRest EXCEPT !.pc = "write", !.left = {u},
                                   !.want = IF coupled /\ directory[u] = "in" THEN {u} ELSE {}]
  <2>1. job \in Job /\ Unplanned(job) /\ job.pc = "write"
    BY DEF AtRest, Job, Unplanned
  <2>2. "signin" \in Writers /\ Does("signin", job) /\ MayStart("signin") /\ UNCHANGED <<rows, central, missed>>
    BY <1>2 DEF Writers, SignInBegins
  <2> HIDE DEF job
  <2> QED BY <2>1, <2>2, NewJobKeeps, MayStartFree
<1>3. CASE RunAsks
  <2> DEFINE job == [AtRest EXCEPT !.pc = "read", !.want = {u \in Members : coupled /\ directory[u] = "in"}]
  <2>1. job \in Job /\ Unplanned(job) /\ job.pc = "read"
    BY DEF AtRest, Job, Unplanned
  <2>2. "run" \in Writers /\ Does("run", job) /\ MayStart("run") /\ UNCHANGED <<rows, central, missed>>
    BY <1>3 DEF Writers, RunAsks
  <2> HIDE DEF job
  <2> QED BY <2>1, <2>2, NewJobKeeps, MayStartFree
<1>4. CASE RunCounts
  <2> DEFINE new == [jobs["run"] EXCEPT !.pc = "write", !.left = Members, !.out = Missing]
             job == IF 2 * Cardinality(Missing) > Cardinality(Listed) THEN AtRest ELSE new
  <2>1. "run" \in Writers /\ jobs["run"].pc = "read" /\ UNCHANGED <<rows, central, missed>> /\ Does("run", job)
    BY <1>4 DEF Writers, RunCounts
  <2>2. Unplanned(jobs["run"]) /\ OnlyOne("run")
    BY <2>1 DEF GroupInv, PlannedFits
  <2>3. Missing \subseteq Members
    BY DEF Missing, Listed
  <2>4. jobs["run"] \in Job
    BY <1>0, <2>1
  <2>5. new \in Job /\ new.pc = "write" /\ new.stuck = jobs["run"].stuck /\ new.plan = jobs["run"].plan
    BY <2>3, <2>4 DEF Job
  <2>6. Unplanned(new)
    BY <2>2, <2>5 DEF Unplanned
  <2>7. job \in Job /\ Unplanned(job) /\ (job.pc = "idle" => job = AtRest) /\ job.pc # "read"
    BY <2>5, <2>6, AtRestPlansNothing, AtRestIsAJob
  <2> HIDE DEF job
  <2> QED BY <2>1, <2>2, <2>7, NewJobKeeps
<1>5. ASSUME NEW t \in Writers, NEW u \in Members, Writes(t, u)
      PROVE  GroupInv'
  BY <1>5, WritesKeepsGroups
<1>6. ASSUME NEW t \in Writers, Resumes(t)
      PROVE  GroupInv'
  BY <1>6 DEF Resumes, GroupInv, PlannedFits
<1>7. ASSUME NEW t \in Writers, WorkCommits(t)
      PROVE  GroupInv'
  BY <1>7, CommitKeepsGroups
<1>8. ASSUME NEW u \in Members, NEW d \in {"in", "out", "off", "gone"}, DirectoryChanges(u, d)
      PROVE  GroupInv'
  BY <1>8 DEF DirectoryChanges, GroupInv, PlannedFits, Transferred, OnlyOne, RowsFit, Unplanned
<1>9. CASE Couples
  BY <1>9 DEF Couples, GroupInv, PlannedFits, Transferred, OnlyOne, RowsFit, Unplanned
<1> QED BY <1>1, <1>2, <1>3, <1>4, <1>5, <1>6, <1>7, <1>8, <1>9 DEF GroupsNext

LEMMA GroupsStutterKeeps ==
    ASSUME GroupInv, UNCHANGED groupVars
    PROVE  GroupInv'
BY DEF groupVars, GroupInv, PlannedFits, Transferred, OnlyOne, RowsFit, Unplanned

LEMMA GroupsInitFits ==
    ASSUME GroupsAssumption, GroupsInit
    PROVE  GroupInv
<1>1. \A t \in Writers : jobs[t] = AtRest
  BY DEF GroupsInit
<1>2. \A u \in Members : rows[u] = NoRow /\ ~rows[u].there /\ rows[u].from = {}
  BY DEF GroupsInit, NoRow
<1>3. \A t \in Writers : PlannedFits(t) /\ Transferred(t) /\ jobs[t].pc = "idle"
  BY <1>1, <1>2, AtRestPlansNothing DEF PlannedFits, Transferred, Unplanned, RowAfter, GroupsInit
<1> QED BY <1>2, <1>3 DEF GroupInv, RowsFit

LEMMA RowsChangeByCommit ==
    ASSUME GroupsNext, rows' # rows
    PROVE  \E t \in Writers : WorkCommits(t)
BY DEF GroupsNext, EditBegins, SignInBegins, RunAsks, RunCounts, Writes, Resumes, DirectoryChanges, Couples

LEMMA HalvesStayApart ==
    ASSUME GroupsTypeOK, GroupInv, [GroupsNext]_groupVars
    PROVE  KeepsHalvesApart
<1>1. SUFFICES ASSUME NEW u \in Members, NEW half \in Halves,
                      (half \in rows[u].from) # (half \in rows'[u].from)
               PROVE  By(half, u)
  BY DEF KeepsHalvesApart
<1>2. rows' # rows
  BY <1>1
<1>3. PICK t \in Writers : WorkCommits(t)
  BY <1>2, RowsChangeByCommit DEF groupVars
<1>4. half = HalfOf(t) /\ jobs[t].plan[u] # "none"
  BY <1>1, <1>3, CommitWrites
<1> QED BY <1>3, <1>4 DEF By

\* Also beside one another: what a commit adds to a row is its own half.
LEMMA EachGivesItsOwn ==
    ASSUME GroupsTypeOK, [GroupsNext]_groupVars
    PROVE  GivesApart
<1>1. SUFFICES ASSUME NEW u \in Members, NEW half \in rows'[u].from \ rows[u].from
               PROVE  By(half, u)
  BY DEF GivesApart
<1>2. rows' # rows
  BY <1>1
<1>3. PICK t \in Writers : WorkCommits(t)
  BY <1>2, RowsChangeByCommit DEF groupVars
<1>4. /\ jobs[t].plan[u] \in Plans /\ rows[u] \in MemberRow /\ HalfOf(t) \in Halves
      /\ rows'[u] = RowAfter(HalfOf(t), jobs[t].plan[u], rows[u])
  BY <1>3, Halved DEF GroupsTypeOK, Job, Plans, MemberRow, WorkCommits
<1> DEFINE plan == jobs[t].plan[u]
<1> HIDE DEF plan
<1>5. /\ plan = "none" => rows'[u] = rows[u]
      /\ plan = "insert" => rows'[u].from = {HalfOf(t)} /\ rows'[u].there
      /\ plan = "set" => rows'[u].from = rows[u].from \cup {HalfOf(t)}
      /\ plan = "clear" => rows'[u].from = rows[u].from \ {HalfOf(t)}
      /\ plan = "delete" => rows'[u].from = {}
  <2>1. PICK own : own = HalfOf(t)
    OBVIOUS
  <2>2. own \in Halves /\ plan \in Plans /\ rows[u] \in MemberRow /\ rows'[u] = RowAfter(own, plan, rows[u])
    BY <1>4, <2>1 DEF plan
  <2> QED BY ONLY <2>1, <2>2, RowAfterFits
<1>6. plan \in Plans
  BY <1>4 DEF plan
<1>7. half = HalfOf(t) /\ plan # "none"
  BY <1>1, <1>5, <1>6 DEF Plans
<1> QED BY <1>3, <1>7 DEF By, plan

LEMMA KeycloakAgrees ==
    ASSUME GroupsTypeOK, GroupInv
    PROVE  CentralAgrees
<1>1. SUFFICES ASSUME \A t \in Writers : jobs[t].pc = "idle", NEW u \in Members \ missed
               PROVE  u \in central <=> rows[u].there
  BY DEF CentralAgrees
<1>2. "run" \in Writers /\ OnlyOne("run") /\ jobs["run"] = AtRest
  BY <1>1 DEF Writers, OnlyOne, GroupInv, PlannedFits
<1>3. u \in central <=> RowAfter(HalfOf("run"), "none", rows[u]).there
  BY <1>2, AtRestPlansNothing DEF GroupInv, Transferred, Unplanned
<1> QED BY <1>2, <1>3, NothingPlanned

\* Groups, one transaction at a time: neither side takes or gives what only the other one may
\* (KeepsHalvesApart),
\* and when nobody writes, Keycloak has the members that OTA has, unless it missed the last transfer
\* (CentralAgrees; verzeichnis.py).
THEOREM GroupsKeepAgreeing ==
    ASSUME GroupsAssumption, ~Beside
    PROVE  GroupsSpec => [][GroupsAgree]_groupVars
<1>1. GroupsInit => GroupsTypeOK /\ GroupInv
  BY GroupsInitTypes, GroupsInitFits
<1>2. GroupsTypeOK /\ GroupInv /\ [GroupsNext]_groupVars => GroupsTypeOK' /\ GroupInv'
  BY GroupsStepKeepsTypes, GroupsStutterKeepsTypes, GroupsStepKeeps, GroupsStutterKeeps
<1>3. GroupsTypeOK /\ GroupInv /\ GroupsTypeOK' /\ GroupInv' /\ [GroupsNext]_groupVars => [GroupsAgree]_groupVars
  <2>1. GroupsTypeOK /\ GroupInv => CentralAgrees
    BY KeycloakAgrees
  <2>2. GroupsTypeOK' /\ GroupInv' => CentralAgrees'
    BY <2>1, PTL
  <2> QED BY <2>2, HalvesStayApart DEF GroupsAgree
<1> QED BY <1>1, <1>2, <1>3, PTL DEF GroupsSpec

\* Groups, also when transactions overlap: what a commit adds to a membership is the half of its own
\* side (GroupMember, models.py).
THEOREM HalvesAreGivenApart ==
    ASSUME GroupsAssumption
    PROVE  GroupsSpec => [][GivesApart]_groupVars
<1>1. GroupsInit => GroupsTypeOK
  BY GroupsInitTypes
<1>2. GroupsTypeOK /\ [GroupsNext]_groupVars => GroupsTypeOK'
  BY GroupsStepKeepsTypes, GroupsStutterKeepsTypes
<1>3. GroupsTypeOK /\ [GroupsNext]_groupVars => [GivesApart]_groupVars
  BY EachGivesItsOwn
<1> QED BY <1>1, <1>2, <1>3, PTL DEF GroupsSpec

-----------------------------------------------------------------------------
(* Accounts: nobody keeps a second way in, and who moves to Keycloak can sign in. *)

Persons == [is : {"none", "local", "keycloak"}, name : Logins \cup {EmergencyName},
            sub : Subs \cup {NoSub}, hash : BOOLEAN, active : BOOLEAN]
CentralAccounts == [is : {"none", "made", "domain"}, name : Logins \cup {EmergencyName},
                    enabled : BOOLEAN, known : BOOLEAN]
RunTypes == [on : BOOLEAN, todo : SUBSET Rows, done : SUBSET (Rows \X Subs), shown : SUBSET Subs]
AccountTypes == users \in [Rows -> Persons] /\ keycloak \in [Subs -> CentralAccounts]
    /\ run \in RunTypes

\* Among those that are there, a name is that of one row.
RowsNamedApart ==
    \A r, o \in Rows : users[r].is # "none" /\ users[o].is # "none" /\ users[r].name = users[o].name => r = o

\* A row of Keycloak has the name of its account.
NameOfSub ==
    \A r \in Rows : users[r].is = "keycloak" =>
        /\ users[r].sub \in Subs /\ keycloak[users[r].sub].is # "none"
        /\ keycloak[users[r].sub].name = users[r].name

\* What a run has flushed it will commit as it found it.
Flushed ==
    /\ Emergency \notin run.todo /\ (~run.on => run = NoRun)
    /\ \A r \in Rows, k \in Subs : <<r, k>> \in run.done =>
           /\ users[r].is = "local" /\ r # Emergency
           /\ keycloak[k].is # "none" /\ keycloak[k].name = users[r].name

\* A password that nobody knows is one that the run will show.
LearntByRun ==
    \A k \in Subs : keycloak[k].is # "none" /\ ~keycloak[k].known => k \in run.shown

\* While a run is on, nothing is locked that an old account could be given.
EnabledInRun ==
    run.on => \A r \in Rows \ {Emergency}, k \in Subs :
        /\ users[r].is = "local" /\ keycloak[k].is # "none" /\ keycloak[k].name = users[r].name
        => keycloak[k].enabled

\* An account that is not there lets nobody in.
NobodyThere == \A k \in Subs : keycloak[k].is = "none" => ~keycloak[k].enabled

AccountInv == NobodyThere /\ RowsNamedApart /\ NameOfSub /\ Flushed /\ LearntByRun /\ EnabledInRun

LEMMA AppearingKeepsNames ==
    ASSUME AccountTypes, AccountInv, AccountsAssumption, ~Renames, TakesBackForGood,
           NEW k \in Subs, NEW n \in Logins, DomainAppears(k, n)
    PROVE  AccountInv'
<1> USE DEF AccountTypes, RunTypes, Persons, CentralAccounts, AccountInv, RowsNamedApart, NameOfSub, Flushed,
        LearntByRun, EnabledInRun, NobodyThere, AccountsAssumption
<1>1. NobodyThere'
  BY DEF DomainAppears, Found, NoFault
<1>2. RowsNamedApart'
  BY DEF DomainAppears, Found, NoFault
<1>3. NameOfSub'
  BY DEF DomainAppears, Found, NoFault
<1>4. Flushed'
  BY DEF DomainAppears, Found, NoFault
<1>5. LearntByRun'
  <2>1. run' = run /\ \A o \in Subs \ {k} : keycloak'[o] = keycloak[o]
    BY DEF DomainAppears
  <2>2. keycloak'[k].known
    BY DEF DomainAppears
  <2> QED BY <2>1, <2>2
<1>6. EnabledInRun'
  BY DEF DomainAppears, Found, NoFault
<1> QED BY <1>1, <1>2, <1>3, <1>4, <1>5, <1>6

LEMMA FollowingKeepsNames ==
    ASSUME AccountTypes, AccountInv, AccountsAssumption, ~Renames, TakesBackForGood,
           NEW k \in Subs, NEW r \in Rows, SignInFollows(k, r)
    PROVE  AccountInv'
<1> USE DEF AccountTypes, RunTypes, Persons, CentralAccounts, AccountInv, RowsNamedApart, NameOfSub, Flushed,
        LearntByRun, EnabledInRun, NobodyThere, AccountsAssumption
<1>1. NobodyThere'
  BY DEF SignInFollows, MaySignIn, OfSub, Unlocked, RowsNamed, NoFault
<1>2. RowsNamedApart'
  BY DEF SignInFollows, MaySignIn, OfSub, Unlocked, RowsNamed, NoFault
<1>3. NameOfSub'
  BY DEF SignInFollows, MaySignIn, OfSub, Unlocked, RowsNamed, NoFault
<1>4. Flushed'
  BY DEF SignInFollows, MaySignIn, OfSub, Unlocked, RowsNamed, NoFault
<1>5. LearntByRun'
  BY DEF SignInFollows, MaySignIn, OfSub, Unlocked, RowsNamed, NoFault
<1>6. EnabledInRun'
  BY DEF SignInFollows, MaySignIn, OfSub, Unlocked, RowsNamed, NoFault
<1> QED BY <1>1, <1>2, <1>3, <1>4, <1>5, <1>6

LEMMA CreatingKeepsNames ==
    ASSUME AccountTypes, AccountInv, AccountsAssumption, ~Renames, TakesBackForGood,
           NEW k \in Subs, NEW r \in Rows, SignInCreates(k, r)
    PROVE  AccountInv'
<1> USE DEF AccountTypes, RunTypes, Persons, CentralAccounts, AccountInv, RowsNamedApart, NameOfSub, Flushed,
        LearntByRun, EnabledInRun, NobodyThere, AccountsAssumption
<1>1. NobodyThere'
  BY DEF SignInCreates, MaySignIn, OfSub, RowsNamed, AllUnlocked, FreeRows, Central, NoFault
<1>2. RowsNamedApart'
  BY DEF SignInCreates, MaySignIn, OfSub, RowsNamed, AllUnlocked, FreeRows, Central, NoFault
<1>3. NameOfSub'
  <2>1. keycloak' = keycloak /\ \A o \in Rows \ {r} : users'[o] = users[o]
    BY DEF SignInCreates, NoFault
  <2>2. users'[r].sub = k /\ users'[r].name = keycloak[k].name
    BY DEF SignInCreates, Central
  <2>3. keycloak[k].is # "none"
    BY DEF SignInCreates, MaySignIn
  <2> QED BY <2>1, <2>2, <2>3
<1>4. Flushed'
  BY DEF SignInCreates, MaySignIn, OfSub, RowsNamed, AllUnlocked, FreeRows, Central, NoFault
<1>5. LearntByRun'
  BY DEF SignInCreates, MaySignIn, OfSub, RowsNamed, AllUnlocked, FreeRows, Central, NoFault
<1>6. EnabledInRun'
  BY DEF SignInCreates, MaySignIn, OfSub, RowsNamed, AllUnlocked, FreeRows, Central, NoFault
<1> QED BY <1>1, <1>2, <1>3, <1>4, <1>5, <1>6

LEMMA LinkingNewKeepsNames ==
    ASSUME AccountTypes, AccountInv, AccountsAssumption, ~Renames, TakesBackForGood,
           NEW n \in Logins, NEW r \in Rows, CreateLinked(n, r)
    PROVE  AccountInv'
<1> USE DEF AccountTypes, RunTypes, Persons, CentralAccounts, AccountInv, RowsNamedApart, NameOfSub, Flushed,
        LearntByRun, EnabledInRun, NobodyThere, AccountsAssumption
<1>1. NobodyThere'
  BY DEF CreateLinked, RowsNamed, FreeRows, AllUnlocked, Found, Central, NoFault
<1>2. RowsNamedApart'
  BY DEF CreateLinked, RowsNamed, FreeRows, AllUnlocked, Found, Central, NoFault
<1>3. NameOfSub'
  BY DEF CreateLinked, RowsNamed, FreeRows, AllUnlocked, Found, Central, NoFault
<1>4. Flushed'
  BY DEF CreateLinked, RowsNamed, FreeRows, AllUnlocked, Found, Central, NoFault
<1>5. LearntByRun'
  BY DEF CreateLinked, RowsNamed, FreeRows, AllUnlocked, Found, Central, NoFault
<1>6. EnabledInRun'
  BY DEF CreateLinked, RowsNamed, FreeRows, AllUnlocked, Found, Central, NoFault
<1> QED BY <1>1, <1>2, <1>3, <1>4, <1>5, <1>6

LEMMA MakingNewKeepsNames ==
    ASSUME AccountTypes, AccountInv, AccountsAssumption, ~Renames, TakesBackForGood,
           NEW n \in Logins, NEW r \in Rows, CreateMade(n, r)
    PROVE  AccountInv'
<1> USE DEF AccountTypes, RunTypes, Persons, CentralAccounts, AccountInv, RowsNamedApart, NameOfSub, Flushed,
        LearntByRun, EnabledInRun, NobodyThere, AccountsAssumption
<1>1. NobodyThere'
  BY DEF CreateMade, RowsNamed, FreeRows, Found, AllUnlocked, FreeSubs, Made, Central, NoFault
<1>2. RowsNamedApart'
  BY DEF CreateMade, RowsNamed, FreeRows, Found, AllUnlocked, FreeSubs, Made, Central, NoFault
<1>3. NameOfSub'
  BY DEF CreateMade, RowsNamed, FreeRows, Found, AllUnlocked, FreeSubs, Made, Central, NoFault
<1>4. Flushed'
  BY DEF CreateMade, RowsNamed, FreeRows, Found, AllUnlocked, FreeSubs, Made, Central, NoFault
<1>5. LearntByRun'
  BY DEF CreateMade, RowsNamed, FreeRows, Found, AllUnlocked, FreeSubs, Made, Central, NoFault
<1>6. EnabledInRun'
  BY DEF CreateMade, RowsNamed, FreeRows, Found, AllUnlocked, FreeSubs, Made, Central, NoFault
<1> QED BY <1>1, <1>2, <1>3, <1>4, <1>5, <1>6

LEMMA UpdateKeepsNames ==
    ASSUME AccountTypes, AccountInv, AccountsAssumption, ~Renames, TakesBackForGood,
           NEW r \in Rows, NEW enabled \in BOOLEAN, NEW password \in BOOLEAN,
           UpdateAccount(r, enabled, password)
    PROVE  AccountInv'
<1> USE DEF AccountTypes, Persons, CentralAccounts, AccountInv, RowsNamedApart, NameOfSub, Flushed,
        LearntByRun, EnabledInRun, NobodyThere, AccountsAssumption
<1>e. run' = run
  BY DEF UpdateAccount
<1>d. \A o \in Rows : /\ users'[o].is = users[o].is /\ users'[o].name = users[o].name
                     /\ users'[o].sub = users[o].sub
  BY DEF UpdateAccount
<1>a. /\ \A k \in Subs : keycloak'[k].is = keycloak[k].is /\ keycloak'[k].name = keycloak[k].name
  BY DEF UpdateAccount, NoFault, Fails
<1>b. \A k \in Subs : keycloak[k].known => keycloak'[k].known
  <2>1. CASE users[r].is = "local"
    BY <2>1 DEF UpdateAccount
  <2>2. CASE users[r].is # "local"
    <3>1. users[r].sub \in Subs
      BY <2>2 DEF UpdateAccount
    <3>2. keycloak'[users[r].sub].known = (keycloak[users[r].sub].known \/ password)
      BY <2>2, <3>1 DEF UpdateAccount
    <3>3. \A k \in Subs : k # users[r].sub => keycloak'[k] = keycloak[k]
      BY <2>2, <3>1 DEF UpdateAccount
    <3> QED BY <3>2, <3>3
  <2> QED BY <2>1, <2>2
<1>c. \A k \in Subs : /\ keycloak[k].enabled /\ ~(users[r].is = "keycloak" /\ k = users[r].sub)
                      => keycloak'[k].enabled
  BY DEF UpdateAccount, NoFault, Fails
<1>1. NobodyThere'
  BY DEF UpdateAccount, Unlocked, NoFault, Fails
<1>2. RowsNamedApart'
  BY <1>d
<1>3. NameOfSub'
  BY <1>a, <1>d
<1>4. Flushed'
  BY <1>a, <1>d, <1>e
<1>5. LearntByRun'
  BY <1>a, <1>b, <1>e
<1>6. EnabledInRun'
  BY <1>a, <1>c, <1>d, <1>e
<1> QED BY <1>1, <1>2, <1>3, <1>4, <1>5, <1>6

LEMMA DeleteKeepsNames ==
    ASSUME AccountTypes, AccountInv, AccountsAssumption, ~Renames, TakesBackForGood,
           NEW r \in Rows, Delete(r)
    PROVE  AccountInv'
<1> USE DEF AccountTypes, Persons, CentralAccounts, AccountInv, RowsNamedApart, NameOfSub, Flushed,
        LearntByRun, EnabledInRun, NobodyThere, AccountsAssumption
<1>a. /\ run' = run /\ users'[r].is = "none"
      /\ \A o \in Rows \ {r} : users'[o] = users[o]
      /\ \A d \in run.done : d[1] # r
  BY DEF Delete, NoFault, Fails, NoPerson, Unlocked
<1>b. \A k \in Subs : /\ keycloak'[k].is = keycloak[k].is /\ keycloak'[k].name = keycloak[k].name
                     /\ keycloak'[k].known = keycloak[k].known
  BY DEF Delete, NoFault, Fails
<1>c. \A k \in Subs : /\ keycloak[k].enabled /\ ~(users[r].is = "keycloak" /\ k = users[r].sub)
                      => keycloak'[k].enabled
  BY DEF Delete, NoFault, Fails
<1>1. NobodyThere'
  BY DEF Delete, Unlocked, NoPerson, NoFault, Fails
<1>2. RowsNamedApart'
  BY <1>a
<1>3. NameOfSub'
  BY <1>a, <1>b
<1>4. Flushed'
  <2>1. \A o \in Rows, k \in Subs : <<o, k>> \in run.done => o # r
    BY <1>a
  <2> QED BY <1>a, <1>b, <2>1
<1>5. LearntByRun'
  BY <1>a, <1>b
<1>6. EnabledInRun'
  BY <1>a, <1>b, <1>c
<1> QED BY <1>1, <1>2, <1>3, <1>4, <1>5, <1>6

LEMMA TakeBackKeepsNames ==
    ASSUME AccountTypes, AccountInv, AccountsAssumption, ~Renames, TakesBackForGood,
           NEW r \in Rows, TakeBack(r)
    PROVE  AccountInv'
<1> USE DEF AccountTypes, RunTypes, Persons, CentralAccounts, AccountInv, RowsNamedApart, NameOfSub, Flushed,
        LearntByRun, EnabledInRun, NobodyThere, AccountsAssumption
<1>a. run' = run /\ \A k \in Subs : /\ keycloak'[k].is = keycloak[k].is
                                     /\ keycloak'[k].known = keycloak[k].known
  BY DEF TakeBack
<1>1. NobodyThere'
  BY DEF TakeBack, Unlocked, NoFault, Fails
<1>2. RowsNamedApart'
  BY DEF TakeBack, Unlocked, NoFault, Fails
<1>3. NameOfSub'
  BY DEF TakeBack, Unlocked, NoFault, Fails
<1>4. Flushed'
  BY DEF TakeBack, Unlocked, NoFault, Fails
<1>5. LearntByRun'
  BY <1>a
<1>6. EnabledInRun'
  BY DEF TakeBack, Unlocked, NoFault, Fails
<1> QED BY <1>1, <1>2, <1>3, <1>4, <1>5, <1>6

LEMMA MoveLinksKeepsNames ==
    ASSUME AccountTypes, AccountInv, AccountsAssumption, ~Renames, TakesBackForGood,
           NEW r \in Rows, MoveLinks(r)
    PROVE  AccountInv'
<1> USE DEF AccountTypes, RunTypes, Persons, CentralAccounts, AccountInv, RowsNamedApart, NameOfSub, Flushed,
        LearntByRun, EnabledInRun, NobodyThere, AccountsAssumption
<1>1. NobodyThere'
  BY DEF MoveLinks, MayMove, Unlocked, Found, Usable, ToCentral, Central, NoFault
<1>2. RowsNamedApart'
  BY DEF MoveLinks, MayMove, Unlocked, Found, Usable, ToCentral, Central, NoFault
<1>3. NameOfSub'
  BY DEF MoveLinks, MayMove, Unlocked, Found, Usable, ToCentral, Central, NoFault
<1>4. Flushed'
  BY DEF MoveLinks, MayMove, Unlocked, Found, Usable, ToCentral, Central, NoFault
<1>5. LearntByRun'
  BY DEF MoveLinks, MayMove, Unlocked, Found, Usable, ToCentral, Central, NoFault
<1>6. EnabledInRun'
  BY DEF MoveLinks, MayMove, Unlocked, Found, Usable, ToCentral, Central, NoFault
<1> QED BY <1>1, <1>2, <1>3, <1>4, <1>5, <1>6

LEMMA MoveMakesKeepsNames ==
    ASSUME AccountTypes, AccountInv, AccountsAssumption, ~Renames, TakesBackForGood,
           NEW r \in Rows, MoveMakes(r)
    PROVE  AccountInv'
<1> USE DEF AccountTypes, RunTypes, Persons, CentralAccounts, AccountInv, RowsNamedApart, NameOfSub, Flushed,
        LearntByRun, EnabledInRun, NobodyThere, AccountsAssumption
<1>1. NobodyThere'
  BY DEF MoveMakes, MayMove, Unlocked, Found, FreeSubs, Made, ToCentral, Central, NoFault, Fails
<1>2. RowsNamedApart'
  BY DEF MoveMakes, MayMove, Unlocked, Found, FreeSubs, Made, ToCentral, Central, NoFault, Fails
<1>3. NameOfSub'
  BY DEF MoveMakes, MayMove, Unlocked, Found, FreeSubs, Made, ToCentral, Central, NoFault, Fails
<1>4. Flushed'
  BY DEF MoveMakes, MayMove, Unlocked, Found, FreeSubs, Made, ToCentral, Central, NoFault, Fails
<1>5. LearntByRun'
  <2>1. PICK k \in FreeSubs : keycloak' = Made(users[r].name, k)
    BY DEF MoveMakes
  <2>2. k \in Subs /\ run' = run
    BY DEF FreeSubs, MoveMakes
  <2>3. keycloak'[k].known /\ \A o \in Subs \ {k} : keycloak'[o] = keycloak[o]
    BY <2>1, <2>2 DEF Made
  <2> QED BY <2>2, <2>3
<1>6. EnabledInRun'
  BY DEF MoveMakes, MayMove, Unlocked, Found, FreeSubs, Made, ToCentral, Central, NoFault, Fails
<1> QED BY <1>1, <1>2, <1>3, <1>4, <1>5, <1>6

LEMMA BeginningKeepsNames ==
    ASSUME AccountTypes, AccountInv, AccountsAssumption, ~Renames, TakesBackForGood,
           TakeoverBegins
    PROVE  AccountInv'
<1> USE DEF AccountTypes, RunTypes, Persons, CentralAccounts, AccountInv, RowsNamedApart, NameOfSub, Flushed,
        LearntByRun, EnabledInRun, NobodyThere, AccountsAssumption
<1>1. NobodyThere'
  BY DEF TakeoverBegins, Ready, TakenBack, Found, NoRun, NoFault
<1>2. RowsNamedApart'
  BY DEF TakeoverBegins, Ready, TakenBack, Found, NoRun, NoFault
<1>3. NameOfSub'
  BY DEF TakeoverBegins, Ready, TakenBack, Found, NoRun, NoFault
<1>4. Flushed'
  BY DEF TakeoverBegins, Ready, TakenBack, Found, NoRun, NoFault
<1>5. LearntByRun'
  BY DEF TakeoverBegins, Ready, TakenBack, Found, NoRun, NoFault
<1>6. EnabledInRun'
  BY DEF TakeoverBegins, Ready, TakenBack, Found, NoRun, NoFault
<1> QED BY <1>1, <1>2, <1>3, <1>4, <1>5, <1>6

LEMMA CommitKeepsNames ==
    ASSUME AccountTypes, AccountInv, AccountsAssumption, ~Renames, TakesBackForGood,
           TakeoverCommits
    PROVE  AccountInv'
<1> USE DEF AccountTypes, RunTypes, Persons, CentralAccounts, AccountInv, RowsNamedApart, NameOfSub, Flushed,
        LearntByRun, EnabledInRun, NobodyThere, AccountsAssumption
<1>1. NobodyThere'
  BY DEF TakeoverCommits, Unlocked, ToCentral, Central, Of, NoRun, NoFault
<1>2. RowsNamedApart'
  BY DEF TakeoverCommits, Unlocked, ToCentral, Central, Of, NoRun, NoFault
<1>3. NameOfSub'
  BY DEF TakeoverCommits, Unlocked, ToCentral, Central, Of, NoRun, NoFault
<1>4. Flushed'
  BY DEF TakeoverCommits, Unlocked, ToCentral, Central, Of, NoRun, NoFault
<1>5. LearntByRun'
  <2>1. ASSUME NEW k \in Subs, keycloak'[k].is # "none"
        PROVE  keycloak'[k].known
    <3>1. CASE k \in run.shown
      BY <3>1 DEF TakeoverCommits
    <3>2. CASE k \notin run.shown
      BY <2>1, <3>2 DEF TakeoverCommits
    <3> QED BY <3>1, <3>2
  <2> QED BY <2>1
<1>6. EnabledInRun'
  BY DEF TakeoverCommits, Unlocked, ToCentral, Central, Of, NoRun, NoFault
<1> QED BY <1>1, <1>2, <1>3, <1>4, <1>5, <1>6

LEMMA RunLinksKeepsNames ==
    ASSUME AccountTypes, AccountInv, AccountsAssumption, ~Renames, TakesBackForGood,
           NEW r \in Rows, RunLinks(r)
    PROVE  AccountInv'
<1> USE DEF AccountTypes, RunTypes, Persons, CentralAccounts, AccountInv, RowsNamedApart, NameOfSub, Flushed,
        LearntByRun, EnabledInRun, NobodyThere, AccountsAssumption
<1>1. NobodyThere'
  BY DEF RunLinks, Found, NoRun, NoFault
<1>2. RowsNamedApart'
  BY DEF RunLinks, Found, NoRun, NoFault
<1>3. NameOfSub'
  BY DEF RunLinks, Found, NoRun, NoFault
<1>4. Flushed'
  BY DEF RunLinks, Found, NoRun, NoFault
<1>5. LearntByRun'
  <2>1. PICK k \in Found(users[r].name) : run' = [run EXCEPT !.todo = @ \ {r}, !.done = @ \cup {<<r, k>>}]
    BY DEF RunLinks
  <2>2. run'.shown = run.shown /\ keycloak' = keycloak
    BY <2>1 DEF RunLinks
  <2> QED BY <2>2
<1>6. EnabledInRun'
  BY DEF RunLinks, Found, NoRun, NoFault
<1> QED BY <1>1, <1>2, <1>3, <1>4, <1>5, <1>6

LEMMA RunMakesKeepsNames ==
    ASSUME AccountTypes, AccountInv, AccountsAssumption, ~Renames, TakesBackForGood,
           NEW r \in Rows, RunMakes(r)
    PROVE  AccountInv'
<1> USE DEF AccountTypes, RunTypes, Persons, CentralAccounts, AccountInv, RowsNamedApart, NameOfSub, Flushed,
        LearntByRun, EnabledInRun, NobodyThere, AccountsAssumption
<1>1. PICK k \in FreeSubs : /\ MadeInRun(r, k)
                            /\ \/ run'.done = run.done \cup {<<r, k>>}
                               \/ run'.done = run.done
                            /\ run'.on = run.on /\ run'.shown = run.shown \cup {k}
                            /\ run'.todo = run.todo \ {r}
  <2>1. PICK k \in FreeSubs :
            /\ MadeInRun(r, k)
            /\ \/ run' = [run EXCEPT !.todo = @ \ {r}, !.done = @ \cup {<<r, k>>}, !.shown = @ \cup {k}]
               \/ run' = [run EXCEPT !.todo = @ \ {r}, !.shown = @ \cup {k}]
    BY DEF RunMakes
  <2>2. CASE run' = [run EXCEPT !.todo = @ \ {r}, !.done = @ \cup {<<r, k>>}, !.shown = @ \cup {k}]
    <3>1. run'.done = run.done \cup {<<r, k>>} /\ run'.on = run.on
      BY <2>2
    <3>2. run'.shown = run.shown \cup {k} /\ run'.todo = run.todo \ {r}
      BY <2>2
    <3> QED BY <2>1, <3>1, <3>2
  <2>3. CASE run' = [run EXCEPT !.todo = @ \ {r}, !.shown = @ \cup {k}]
    <3>1. run'.done = run.done /\ run'.on = run.on
      BY <2>3
    <3>2. run'.shown = run.shown \cup {k} /\ run'.todo = run.todo \ {r}
      BY <2>3
    <3> QED BY <2>1, <3>1, <3>2
  <2> QED BY <2>1, <2>2, <2>3
<1>2. k \in Subs /\ keycloak[k].is = "none" /\ UNCHANGED users
  BY DEF FreeSubs, RunMakes
<1>3. /\ keycloak'[k].is = "made" /\ keycloak'[k].name = users[r].name /\ keycloak'[k].enabled
      /\ \A o \in Subs \ {k} : keycloak'[o] = keycloak[o]
  BY <1>1, <1>2 DEF MadeInRun, Made
<1>4. r # Emergency /\ users[r].is = "local" /\ run.on
  BY DEF RunMakes, NoRun
<1>5. NobodyThere' /\ RowsNamedApart' /\ NameOfSub'
  BY <1>2, <1>3
<1>6. Flushed'
  BY <1>1, <1>2, <1>3, <1>4
<1>7. LearntByRun'
  BY <1>1, <1>2, <1>3
<1>8. EnabledInRun'
  BY <1>1, <1>2, <1>3
<1> QED BY <1>5, <1>6, <1>7, <1>8

LEMMA RunLeavesKeepsNames ==
    ASSUME AccountTypes, AccountInv, AccountsAssumption, ~Renames, TakesBackForGood,
           NEW r \in Rows, RunLeaves(r)
    PROVE  AccountInv'
<1> USE DEF AccountTypes, RunTypes, Persons, CentralAccounts, AccountInv, RowsNamedApart, NameOfSub, Flushed,
        LearntByRun, EnabledInRun, NobodyThere, AccountsAssumption
<1>1. NobodyThere'
  BY DEF RunLeaves, NoRun, NoFault, Fails
<1>2. RowsNamedApart'
  BY DEF RunLeaves, NoRun, NoFault, Fails
<1>3. NameOfSub'
  BY DEF RunLeaves, NoRun, NoFault, Fails
<1>4. Flushed'
  BY DEF RunLeaves, NoRun, NoFault, Fails
<1>5. LearntByRun'
  BY DEF RunLeaves, NoRun, NoFault, Fails
<1>6. EnabledInRun'
  BY DEF RunLeaves, NoRun, NoFault, Fails
<1> QED BY <1>1, <1>2, <1>3, <1>4, <1>5, <1>6

LEMMA LinkKeepsNames ==
    ASSUME AccountTypes, AccountInv, AccountsAssumption, ~Renames, TakesBackForGood,
           NEW k \in Subs, NEW r \in Rows, Link(r, k)
    PROVE  AccountInv'
<1> USE DEF AccountTypes, RunTypes, Persons, CentralAccounts, AccountInv, RowsNamedApart, NameOfSub, Flushed,
        LearntByRun, EnabledInRun, NobodyThere, AccountsAssumption
<1>1. NobodyThere'
  BY DEF Link, Doubles, OfSub, AllUnlocked, RowsNamed, NoFault, Fails, Central, NoPerson
<1>2. RowsNamedApart'
  BY DEF Link, Doubles, OfSub, AllUnlocked, RowsNamed, NoFault, Fails, Central, NoPerson
<1>3. NameOfSub'
  BY DEF Link, Doubles, OfSub, AllUnlocked, RowsNamed, NoFault, Fails, Central, NoPerson
<1>4. Flushed'
  BY DEF Link, Doubles, OfSub, AllUnlocked, RowsNamed, NoFault, Fails, Central, NoPerson
<1>5. LearntByRun'
  BY DEF Link, Doubles, OfSub, AllUnlocked, RowsNamed, NoFault, Fails, Central, NoPerson
<1>6. EnabledInRun'
  BY DEF Link, Doubles, OfSub, AllUnlocked, RowsNamed, NoFault, Fails, Central, NoPerson
<1> HIDE DEF NobodyThere, RowsNamedApart, NameOfSub, Flushed, LearntByRun, EnabledInRun
<1> QED BY <1>1, <1>2, <1>3, <1>4, <1>5, <1>6

LEMMA CentralIsAPerson ==
    ASSUME NEW n \in Logins \cup {EmergencyName}, NEW k \in Subs
    PROVE  /\ Central(n, k) \in Persons /\ Central(n, k).is = "keycloak" /\ Central(n, k).sub = k
           /\ Central(n, k).name = n /\ ~Central(n, k).hash
BY DEF Central, Persons

LEMMA MadeIsAnAccount ==
    ASSUME keycloak \in [Subs -> CentralAccounts], NEW n \in Logins \cup {EmergencyName}, NEW k \in Subs
    PROVE  /\ Made(n, k) \in [Subs -> CentralAccounts] /\ Made(n, k)[k].is = "made" /\ Made(n, k)[k].name = n
           /\ Made(n, k)[k].enabled /\ Made(n, k)[k].known
           /\ \A o \in Subs \ {k} : Made(n, k)[o] = keycloak[o]
BY DEF Made, CentralAccounts

\* What each action makes of the rows and of the accounts, one of each at most: p and a are new.

LEMMA AccountsStepKeepsTypes ==
    ASSUME AccountsTypeOK, AccountsAssumption, AccountsNext
    PROVE  AccountsTypeOK'
<1> USE DEF AccountsAssumption
<1>0. users \in [Rows -> Persons] /\ keycloak \in [Subs -> CentralAccounts]
  BY DEF AccountsTypeOK, Persons, CentralAccounts
<1>f. ASSUME NoFault \/ Fails
      PROVE  crashes' \in 0 .. MaxAborts /\ faults' \in 0 .. MaxFails
  BY <1>f DEF AccountsTypeOK, NoFault, Fails
<1>1. ASSUME NEW k \in Subs, NEW n \in Logins, DomainAppears(k, n) PROVE AccountsTypeOK'
  <2>1. keycloak' \in [Subs -> CentralAccounts]
    BY <1>0, <1>1 DEF DomainAppears, CentralAccounts
  <2> QED BY <1>1, <1>f, <2>1 DEF DomainAppears, AccountsTypeOK, CentralAccounts
<1>2. ASSUME NEW k \in Subs, NEW n \in Logins, DomainRenames(k, n) PROVE AccountsTypeOK'
  <2>1. keycloak' \in [Subs -> CentralAccounts]
    BY <1>0, <1>2 DEF DomainRenames, CentralAccounts
  <2> QED BY <1>2, <1>f, <2>1 DEF DomainRenames, AccountsTypeOK, CentralAccounts
<1>3. ASSUME NEW k \in Subs, NEW r \in Rows, SignInFollows(k, r) PROVE AccountsTypeOK'
  <2>1. users' \in [Rows -> Persons]
    <3>1. keycloak[k].name \in Logins \cup {EmergencyName} /\ users[r] \in Persons
      BY <1>0 DEF CentralAccounts
    <3>2. [users[r] EXCEPT !.name = keycloak[k].name] \in Persons
      BY <3>1 DEF Persons
    <3> QED BY <1>0, <1>3, <3>2 DEF SignInFollows
  <2> QED BY <1>3, <1>f, <2>1 DEF SignInFollows, AccountsTypeOK, Persons
<1>4. ASSUME NEW k \in Subs, NEW r \in Rows, SignInCreates(k, r) PROVE AccountsTypeOK'
  <2>1. users' \in [Rows -> Persons]
    BY <1>0, <1>4, CentralIsAPerson DEF SignInCreates, CentralAccounts
  <2> QED BY <1>4, <1>f, <2>1 DEF SignInCreates, AccountsTypeOK, Persons
<1>5. ASSUME NEW n \in Logins, NEW r \in Rows, CreateLinked(n, r) PROVE AccountsTypeOK'
  <2>1. PICK k \in Found(n) : /\ keycloak' = [keycloak EXCEPT ![k].enabled = TRUE]
                              /\ users' = [users EXCEPT ![r] = Central(n, k)]
    BY <1>5 DEF CreateLinked
  <2>2. k \in Subs
    BY DEF Found
  <2>3. users' \in [Rows -> Persons] /\ keycloak' \in [Subs -> CentralAccounts]
    <3>1. users' \in [Rows -> Persons]
      BY <1>0, <2>1, <2>2, CentralIsAPerson
    <3>2. [keycloak[k] EXCEPT !.enabled = TRUE] \in CentralAccounts
      BY <1>0, <2>2 DEF CentralAccounts
    <3> QED BY <1>0, <2>1, <2>2, <3>1, <3>2
  <2> QED BY <1>5, <1>f, <2>3 DEF CreateLinked, AccountsTypeOK, Persons, CentralAccounts
<1>6. ASSUME NEW n \in Logins, NEW r \in Rows, CreateMade(n, r) PROVE AccountsTypeOK'
  <2>1. PICK k \in FreeSubs : keycloak' = Made(n, k) /\ users' = [users EXCEPT ![r] = Central(n, k)]
    BY <1>6 DEF CreateMade
  <2>2. k \in Subs
    BY DEF FreeSubs
  <2>3. users' \in [Rows -> Persons] /\ keycloak' \in [Subs -> CentralAccounts]
    BY <1>0, <2>1, <2>2, CentralIsAPerson, MadeIsAnAccount
  <2> QED BY <1>6, <1>f, <2>3 DEF CreateMade, AccountsTypeOK, Persons, CentralAccounts
<1>7. ASSUME NEW r \in Rows, NEW enabled \in BOOLEAN, NEW password \in BOOLEAN, UpdateAccount(r, enabled, password)
      PROVE  AccountsTypeOK'
  <2>1. users' \in [Rows -> Persons]
    BY <1>0, <1>7 DEF UpdateAccount, Persons
  <2>2. keycloak' \in [Subs -> CentralAccounts]
    BY <1>0, <1>7 DEF UpdateAccount, CentralAccounts
  <2>3. NoFault \/ Fails
    BY <1>7 DEF UpdateAccount
  <2> QED BY <1>7, <1>f, <2>1, <2>2, <2>3 DEF UpdateAccount, AccountsTypeOK, Persons, CentralAccounts
<1>8. ASSUME NEW r \in Rows, Delete(r) PROVE AccountsTypeOK'
  <2>1. users' \in [Rows -> Persons]
    BY <1>0, <1>8 DEF Delete, Persons, NoPerson
  <2>2. keycloak' \in [Subs -> CentralAccounts]
    <3>1. \A k \in Subs : [keycloak[k] EXCEPT !.enabled = FALSE] \in CentralAccounts
      BY <1>0 DEF CentralAccounts
    <3> QED BY <1>0, <1>8, <3>1 DEF Delete
  <2>3. NoFault \/ Fails
    BY <1>8 DEF Delete
  <2> QED BY <1>8, <1>f, <2>1, <2>2, <2>3 DEF Delete, AccountsTypeOK, Persons, CentralAccounts
<1>9. ASSUME NEW r \in Rows, TakeBack(r) PROVE AccountsTypeOK'
  <2>1. users' \in [Rows -> Persons]
    BY <1>0, <1>9 DEF TakeBack, Persons
  <2>2. keycloak' \in [Subs -> CentralAccounts]
    BY <1>0, <1>9 DEF TakeBack, CentralAccounts
  <2> QED BY <1>9, <1>f, <2>1, <2>2 DEF TakeBack, AccountsTypeOK, Persons, CentralAccounts
<1>10. ASSUME NEW r \in Rows, MoveLinks(r) PROVE AccountsTypeOK'
  <2>1. PICK k \in Found(users[r].name) : users' = [users EXCEPT ![r] = Central(users[r].name, k)]
    BY <1>10 DEF MoveLinks, ToCentral
  <2>2. k \in Subs /\ users[r].name \in Logins \cup {EmergencyName}
    BY <1>0 DEF Found, Persons
  <2>3. users' \in [Rows -> Persons]
    BY <1>0, <2>1, <2>2, CentralIsAPerson
  <2> QED BY <1>10, <1>f, <2>3 DEF MoveLinks, AccountsTypeOK, Persons, CentralAccounts
<1>11. ASSUME NEW r \in Rows, MoveMakes(r) PROVE AccountsTypeOK'
  <2>1. PICK k \in FreeSubs : /\ keycloak' = Made(users[r].name, k)
                              /\ \/ users' = [users EXCEPT ![r] = Central(users[r].name, k)] /\ NoFault
                                 \/ Fails /\ UNCHANGED users
    BY <1>11 DEF MoveMakes, ToCentral
  <2>2. k \in Subs /\ users[r].name \in Logins \cup {EmergencyName}
    BY <1>0 DEF FreeSubs, Persons
  <2>3. users' \in [Rows -> Persons] /\ keycloak' \in [Subs -> CentralAccounts]
    BY <1>0, <2>1, <2>2, CentralIsAPerson, MadeIsAnAccount
  <2> QED BY <1>11, <1>f, <2>1, <2>3 DEF MoveMakes, AccountsTypeOK, Persons, CentralAccounts
<1>12. CASE TakeoverBegins
  <2>1. run' \in RunTypes
    BY <1>12 DEF TakeoverBegins, NoRun, RunTypes
  <2> QED BY <1>12, <1>f, <2>1 DEF TakeoverBegins, AccountsTypeOK, RunTypes
<1>13. CASE TakeoverCommits
  <2>1. ASSUME NEW r \in Rows, ~Unlocked(r)
        PROVE  ToCentral(r, CHOOSE k \in Subs : r \in Of(k)) \in Persons
    <3>1. PICK d \in run.done : d[1] = r
      BY <2>1 DEF Unlocked
    <3>2. d[2] \in Subs /\ r \in Of(d[2])
      BY <3>1 DEF Of, AccountsTypeOK
    <3>3. (CHOOSE k \in Subs : r \in Of(k)) \in Subs
      BY <3>2
    <3>4. users[r].name \in Logins \cup {EmergencyName}
      BY <1>0 DEF Persons
    <3> QED BY <3>3, <3>4, CentralIsAPerson DEF ToCentral
  <2>2. users' \in [Rows -> Persons]
    BY <1>0, <1>13, <2>1 DEF TakeoverCommits
  <2>3. keycloak' \in [Subs -> CentralAccounts]
    BY <1>0, <1>13 DEF TakeoverCommits, CentralAccounts
  <2> QED BY <1>13, <1>f, <2>2, <2>3 DEF TakeoverCommits, AccountsTypeOK, Persons, CentralAccounts, NoRun
<1>14. CASE RunCrashes
  BY <1>14 DEF RunCrashes, AccountsTypeOK, NoRun
<1>15. ASSUME NEW r \in Rows, RunLinks(r) PROVE AccountsTypeOK'
  <2>1. PICK k \in Found(users[r].name) : run' = [run EXCEPT !.todo = @ \ {r}, !.done = @ \cup {<<r, k>>}]
    BY <1>15 DEF RunLinks
  <2>2. k \in Subs
    BY DEF Found
  <2>3. run' \in RunTypes
    <3>1. /\ run.todo \ {r} \subseteq Rows /\ run.done \cup {<<r, k>>} \subseteq Rows \X Subs
          /\ run.on \in BOOLEAN /\ run.shown \subseteq Subs
      BY <2>2 DEF AccountsTypeOK
    <3>2. run' = [on |-> run.on, todo |-> run.todo \ {r}, done |-> run.done \cup {<<r, k>>}, shown |-> run.shown]
      BY <2>1 DEF AccountsTypeOK
    <3> QED BY <3>1, <3>2 DEF RunTypes
  <2> QED BY <1>15, <1>f, <2>3 DEF RunLinks, AccountsTypeOK, RunTypes
<1>16. ASSUME NEW r \in Rows, RunMakes(r) \/ RunMakesUnheard(r) PROVE AccountsTypeOK'
  <2>1. PICK k \in FreeSubs : MadeInRun(r, k)
    BY <1>16 DEF RunMakes, RunMakesUnheard
  <2>2. k \in Subs /\ users[r].name \in Logins \cup {EmergencyName}
    BY <1>0 DEF FreeSubs, Persons
  <2>3. run' \in RunTypes
    <3>1. PICK j \in FreeSubs :
              run' \in {[run EXCEPT !.todo = @ \ {r}, !.done = @ \cup {<<r, j>>}, !.shown = @ \cup {j}],
                       [run EXCEPT !.todo = @ \ {r}, !.shown = @ \cup {j}], [run EXCEPT !.todo = @ \ {r}]}
      BY <1>16, <2>1 DEF RunMakes, RunMakesUnheard
    <3>2. j \in Subs /\ run \in RunTypes
      BY DEF FreeSubs, AccountsTypeOK, RunTypes
    <3>3. /\ run.todo \ {r} \subseteq Rows /\ run.done \cup {<<r, j>>} \subseteq Rows \X Subs
          /\ run.on \in BOOLEAN /\ run.shown \cup {j} \subseteq Subs
      BY <3>2 DEF RunTypes
    <3> QED BY <3>1, <3>2, <3>3 DEF RunTypes
  <2>4. Made(users[r].name, k) \in [Subs -> CentralAccounts]
    BY <1>0, <2>2, MadeIsAnAccount
  <2>5. keycloak' \in [Subs -> CentralAccounts]
    BY <2>1, <2>2, <2>4 DEF MadeInRun, CentralAccounts
  <2>6. UNCHANGED users /\ (NoFault \/ Fails)
    BY <1>16 DEF RunMakes, RunMakesUnheard
  <2> QED BY <1>f, <2>3, <2>5, <2>6 DEF AccountsTypeOK, RunTypes, CentralAccounts
<1>17. ASSUME NEW r \in Rows, RunLeaves(r) PROVE AccountsTypeOK'
  <2>1. run' \in RunTypes
    BY <1>17 DEF RunLeaves, AccountsTypeOK, RunTypes
  <2> QED BY <1>17, <1>f, <2>1 DEF RunLeaves, AccountsTypeOK, RunTypes
<1>18. ASSUME NEW k \in Subs, NEW r \in Rows, Link(r, k) PROVE AccountsTypeOK'
  <2>1. keycloak[k].name \in Logins \cup {EmergencyName}
    BY <1>0 DEF CentralAccounts
  <2>2. Central(keycloak[k].name, k) \in Persons
    BY <2>1, CentralIsAPerson
  <2>3. [Central(keycloak[k].name, k) EXCEPT !.active = users[r].active] \in Persons /\ NoPerson \in Persons
    BY <1>0, <2>2 DEF Persons, NoPerson
  <2>4. users' \in [Rows -> Persons]
    BY <1>0, <1>18, <2>3 DEF Link
  <2>5. keycloak' \in [Subs -> CentralAccounts]
    BY <1>0, <1>18 DEF Link, CentralAccounts
  <2> QED BY <1>18, <1>f, <2>4, <2>5 DEF Link, AccountsTypeOK, Persons, CentralAccounts
<1> QED BY <1>1, <1>2, <1>3, <1>4, <1>5, <1>6, <1>7, <1>8, <1>9, <1>10, <1>11, <1>12, <1>13, <1>14, <1>15,
           <1>16, <1>17, <1>18 DEF AccountsNext

LEMMA AccountsInitTypes ==
    ASSUME AccountsAssumption, AccountsInit
    PROVE  AccountsTypeOK
<1>1. PICK old \in Rows \ {Emergency}, n \in Logins :
          users = [r \in Rows |-> CASE r = Emergency -> Local(EmergencyName)
                                    [] r = old -> Local(n)
                                    [] OTHER -> NoPerson]
  BY DEF AccountsInit
<1>2. Local(EmergencyName) \in Persons /\ Local(n) \in Persons /\ NoPerson \in Persons
  BY DEF Local, NoPerson, Persons
<1>3. users \in [Rows -> Persons]
  BY <1>1, <1>2
<1>4. keycloak \in [Subs -> CentralAccounts]
  BY DEF AccountsInit, NoAccount, CentralAccounts
<1> QED BY <1>3, <1>4 DEF AccountsInit, AccountsTypeOK, AccountsAssumption, NoRun, Persons, CentralAccounts
LEMMA AccountTypesOfRows ==
    ASSUME AccountsTypeOK
    PROVE  AccountTypes
BY DEF AccountsTypeOK, AccountTypes, RunTypes, Persons, CentralAccounts

LEMMA AccountsStutterKeepsTypes ==
    ASSUME AccountsTypeOK, UNCHANGED accountVars
    PROVE  AccountsTypeOK'
BY DEF AccountsTypeOK, accountVars

LEMMA AccountsInitNames ==
    ASSUME AccountsAssumption, AccountsInit
    PROVE  AccountInv
<1>1. PICK old \in Rows \ {Emergency}, n \in Logins :
          users = [r \in Rows |-> CASE r = Emergency -> Local(EmergencyName)
                                    [] r = old -> Local(n)
                                    [] OTHER -> NoPerson]
  BY DEF AccountsInit
<1>2. /\ \A r \in Rows : /\ users[r].is # "none" => r \in {Emergency, old}
                        /\ users[r].is # "keycloak"
      /\ users[Emergency].name = EmergencyName /\ users[old].name = n
  BY <1>1 DEF Local, NoPerson, AccountsAssumption
<1>3. RowsNamedApart
  BY <1>2 DEF RowsNamedApart, AccountsAssumption
<1>4. keycloak = [k \in Subs |-> NoAccount] /\ run = NoRun
  BY DEF AccountsInit
<1>5. NobodyThere /\ LearntByRun
  BY <1>4 DEF NobodyThere, LearntByRun, NoAccount
<1>6. Flushed /\ EnabledInRun
  BY <1>4 DEF Flushed, EnabledInRun, NoRun
<1>7. NameOfSub
  BY <1>2 DEF NameOfSub
<1> QED BY <1>3, <1>5, <1>6, <1>7 DEF AccountInv

LEMMA AccountsStutterKeepsNames ==
    ASSUME AccountInv, UNCHANGED accountVars
    PROVE  AccountInv'
BY DEF AccountInv, NobodyThere, RowsNamedApart, NameOfSub, Flushed, LearntByRun, EnabledInRun, accountVars

LEMMA AccountsStepKeepsNames ==
    ASSUME AccountsTypeOK, AccountInv, AccountsAssumption, ~Renames, TakesBackForGood, ~LosesAnswers,
           MaxAborts = 0, AccountsNext
    PROVE  AccountInv'
<1> USE AccountTypesOfRows
<1>1. ~RunCrashes
  BY DEF RunCrashes, AccountsTypeOK
<1>2. ~\E k \in Subs, n \in Logins : DomainRenames(k, n)
  BY DEF DomainRenames
<1>3. CASE \E k \in Subs, n \in Logins : DomainAppears(k, n)
  BY <1>3, AppearingKeepsNames
<1>4. CASE \E k \in Subs, r \in Rows : SignInFollows(k, r) \/ SignInCreates(k, r) \/ Link(r, k)
  BY <1>4, FollowingKeepsNames, CreatingKeepsNames, LinkKeepsNames
<1>5. CASE \E n \in Logins, r \in Rows : CreateLinked(n, r) \/ CreateMade(n, r)
  BY <1>5, LinkingNewKeepsNames, MakingNewKeepsNames
<1>6. CASE \E r \in Rows, enabled \in BOOLEAN, password \in BOOLEAN : UpdateAccount(r, enabled, password)
  BY <1>6, UpdateKeepsNames
<1>7. CASE \E r \in Rows : Delete(r) \/ TakeBack(r)
  BY <1>7, DeleteKeepsNames, TakeBackKeepsNames
<1>8. CASE \E r \in Rows : MoveLinks(r) \/ MoveMakes(r)
  BY <1>8, MoveLinksKeepsNames, MoveMakesKeepsNames
<1>9. CASE TakeoverBegins \/ TakeoverCommits
  BY <1>9, BeginningKeepsNames, CommitKeepsNames
<1>11. ~\E r \in Rows : RunMakesUnheard(r)
  BY DEF RunMakesUnheard
<1>10. CASE \E r \in Rows : RunLinks(r) \/ RunMakes(r) \/ RunLeaves(r)
  BY <1>10, RunLinksKeepsNames, RunMakesKeepsNames, RunLeavesKeepsNames
<1> QED BY <1>1, <1>2, <1>3, <1>4, <1>5, <1>6, <1>7, <1>8, <1>9, <1>10, <1>11 DEF AccountsNext

\* What a row becomes that moves.
LEMMA CentralHasNoPassword ==
    ASSUME NEW n, NEW k
    PROVE  ~Central(n, k).hash
BY DEF Central

LEMMA NoSecondWayIsKept ==
    ASSUME AccountsTypeOK, NoSecondWay, AccountsNext
    PROVE  NoSecondWay'
<1>0. AccountTypes
  BY AccountTypesOfRows
<1>u. CASE UNCHANGED users
  BY <1>u DEF NoSecondWay
<1>1. CASE \E k \in Subs, r \in Rows : SignInFollows(k, r)
  BY <1>0, <1>1 DEF SignInFollows, NoSecondWay, AccountTypes, Persons
<1>2. CASE \E k \in Subs, r \in Rows : SignInCreates(k, r)
  BY <1>0, <1>2, CentralHasNoPassword DEF SignInCreates, NoSecondWay, AccountTypes
<1>3. CASE \E k \in Subs, r \in Rows : Link(r, k)
  <2>1. PICK k \in Subs, r \in Rows : Link(r, k)
    BY <1>3
  <2>2. ~users'[r].hash
    BY <2>1 DEF Link, Central
  <2>3. \A o \in Rows \ {r} : users'[o] = users[o] \/ users'[o] = NoPerson
    BY <2>1 DEF Link
  <2> QED BY <2>2, <2>3 DEF NoSecondWay, NoPerson
<1>4. CASE \E n \in Logins, r \in Rows : CreateLinked(n, r) \/ CreateMade(n, r)
  BY <1>0, <1>4, CentralHasNoPassword DEF CreateLinked, CreateMade, NoSecondWay, AccountTypes
<1>5. CASE \E r \in Rows, enabled \in BOOLEAN, password \in BOOLEAN : UpdateAccount(r, enabled, password)
  BY <1>0, <1>5 DEF UpdateAccount, NoSecondWay, AccountTypes, Persons
<1>6. CASE \E r \in Rows : Delete(r)
  BY <1>0, <1>6 DEF Delete, NoSecondWay, AccountTypes, NoPerson
<1>7. CASE \E r \in Rows : TakeBack(r)
  BY <1>0, <1>7 DEF TakeBack, NoSecondWay, AccountTypes, Persons
<1>8. CASE \E r \in Rows : MoveLinks(r)
  BY <1>0, <1>8, CentralHasNoPassword DEF MoveLinks, ToCentral, NoSecondWay, AccountTypes
<1>9. CASE \E r \in Rows : MoveMakes(r)
  BY <1>0, <1>9, CentralHasNoPassword DEF MoveMakes, ToCentral, NoSecondWay, AccountTypes
<1>10. CASE TakeoverCommits
  BY <1>0, <1>10, CentralHasNoPassword DEF TakeoverCommits, ToCentral, NoSecondWay, AccountTypes
<1>11. CASE \/ \E k \in Subs, n \in Logins : DomainAppears(k, n) \/ DomainRenames(k, n)
            \/ TakeoverBegins \/ RunCrashes
            \/ \E r \in Rows : RunLinks(r) \/ RunMakes(r) \/ RunMakesUnheard(r) \/ RunLeaves(r)
  <2> UNCHANGED users
    BY <1>11 DEF DomainAppears, DomainRenames, TakeoverBegins, RunCrashes, RunLinks, RunMakes, RunMakesUnheard,
                 RunLeaves
  <2> QED BY <1>u
<1> QED BY <1>1, <1>2, <1>3, <1>4, <1>5, <1>6, <1>7, <1>8, <1>9, <1>10, <1>11 DEF AccountsNext

LEMMA NoSecondWayAtFirst ==
    ASSUME AccountsInit
    PROVE  NoSecondWay
<1>1. PICK old \in Rows \ {Emergency}, n \in Logins :
          users = [r \in Rows |-> CASE r = Emergency -> Local(EmergencyName)
                                    [] r = old -> Local(n)
                                    [] OTHER -> NoPerson]
  BY DEF AccountsInit
<1> QED BY <1>1 DEF NoSecondWay, Local, NoPerson

LEMMA EachMovesToUsable ==
    ASSUME AccountsTypeOK, AccountInv, AccountsNext
    PROVE  MovesToUsable
<1>0. AccountTypes
  BY AccountTypesOfRows
<1> SUFFICES ASSUME NEW r \in Rows, Moves(r), ~MovedByHand
             PROVE  CanSignIn(users[r].sub)'
  BY DEF MovesToUsable
<1>l. users[r].is = "local" /\ users[r].active /\ users'[r].is = "keycloak"
  BY DEF Moves
<1>1. CASE MoveLinks(r)
  <2>1. PICK k \in Found(users[r].name) : Usable(k) /\ users' = [users EXCEPT ![r] = ToCentral(r, k)]
    BY <1>1 DEF MoveLinks
  <2>2. k \in Subs /\ keycloak[k].is # "none" /\ keycloak[k].name = users[r].name
    BY DEF Found
  <2>3. users'[r].sub = k /\ keycloak' = keycloak /\ run' = run
    BY <1>0, <1>1, <2>1 DEF MoveLinks, ToCentral, Central, AccountTypes
  <2>4. keycloak[k].known \/ k \in run.shown
    BY <2>2 DEF AccountInv, LearntByRun
  <2> QED BY <2>1, <2>3, <2>4 DEF Usable, CanSignIn
<1>2. CASE MoveMakes(r)
  <2>1. PICK k \in FreeSubs : /\ keycloak' = Made(users[r].name, k)
                              /\ \/ users' = [users EXCEPT ![r] = ToCentral(r, k)]
                                 \/ UNCHANGED users
    BY <1>2 DEF MoveMakes
  <2>2. k \in Subs
    BY DEF FreeSubs
  <2>3. users'[r].sub = k
    BY <1>0, <1>l, <2>1 DEF ToCentral, Central, AccountTypes
  <2>4. keycloak'[k].enabled /\ keycloak'[k].known
    BY <1>0, <2>1, <2>2 DEF Made, AccountTypes
  <2> QED BY <2>3, <2>4 DEF CanSignIn
<1>3. CASE TakeoverCommits
  <2> DEFINE k == CHOOSE k \in Subs : r \in Of(k)
  <2>1. ~Unlocked(r)
    BY <1>0, <1>3, <1>l DEF TakeoverCommits, AccountTypes
  <2>2. PICK d \in run.done : d[1] = r
    BY <2>1 DEF Unlocked
  <2>3. d[2] \in Subs /\ r \in Of(d[2])
    BY <1>0, <2>2 DEF Of, AccountTypes, RunTypes
  <2>4. k \in Subs /\ r \in Of(k)
    BY <2>3
  <2>5. <<r, k>> \in run.done
    BY <1>0, <2>4 DEF Of, AccountTypes, RunTypes
  <2>6. /\ keycloak[k].is # "none" /\ keycloak[k].name = users[r].name /\ r # Emergency
        /\ run.on
    BY <1>3, <2>4, <2>5 DEF AccountInv, Flushed, TakeoverCommits
  <2>7. keycloak[k].enabled
    BY <1>l, <2>4, <2>6 DEF AccountInv, EnabledInRun
  <2>8. keycloak'[k].enabled /\ keycloak'[k].known
    <3>1. keycloak'[k] = IF k \in run.shown THEN [keycloak[k] EXCEPT !.known = TRUE] ELSE keycloak[k]
      BY <1>3, <2>4 DEF TakeoverCommits
    <3>2. keycloak[k].known \/ k \in run.shown
      BY <2>4, <2>6 DEF AccountInv, LearntByRun
    <3> QED BY <1>0, <2>4, <2>7, <3>1, <3>2 DEF CentralAccounts, AccountTypes
  <2>9. users'[r].sub = k
    BY <1>3, <2>1 DEF TakeoverCommits, ToCentral, Central
  <2> QED BY <2>8, <2>9 DEF CanSignIn
<1>4. CASE ~MoveLinks(r) /\ ~MoveMakes(r) /\ ~TakeoverCommits
  <2>1. users'[r].is = users[r].is \/ users'[r].is # "keycloak"
    <3>1. ASSUME NEW k \in Subs, NEW o \in Rows, SignInFollows(k, o) PROVE users'[r].is = users[r].is
      BY <1>0, <3>1 DEF SignInFollows, AccountTypes, Persons
    <3>2. ASSUME NEW k \in Subs, NEW o \in Rows, SignInCreates(k, o) PROVE users'[r].is = users[r].is
      BY <1>0, <1>l, <3>2 DEF SignInCreates, FreeRows, AccountTypes
    <3>3. ASSUME NEW n \in Logins, NEW o \in Rows, CreateLinked(n, o) \/ CreateMade(n, o)
          PROVE  users'[r].is = users[r].is
      BY <1>0, <1>l, <3>3 DEF CreateLinked, CreateMade, FreeRows, AccountTypes
    <3>4. ASSUME NEW o \in Rows, NEW enabled \in BOOLEAN, NEW password \in BOOLEAN,
                 UpdateAccount(o, enabled, password)
          PROVE  users'[r].is = users[r].is
      BY <1>0, <3>4 DEF UpdateAccount, AccountTypes, Persons
    <3>5. ASSUME NEW o \in Rows, Delete(o) \/ TakeBack(o)
          PROVE  users'[r].is = users[r].is \/ users'[r].is # "keycloak"
      BY <1>0, <3>5 DEF Delete, TakeBack, NoPerson, AccountTypes, Persons
    <3>6. ASSUME NEW o \in Rows \ {r}, MoveLinks(o) \/ MoveMakes(o) PROVE users'[r].is = users[r].is
      BY <1>0, <3>6 DEF MoveLinks, MoveMakes, AccountTypes
    <3>7. ASSUME UNCHANGED users PROVE users'[r].is = users[r].is
      BY <3>7
    <3>8. CASE \/ \E k \in Subs, n \in Logins : DomainAppears(k, n) \/ DomainRenames(k, n)
               \/ TakeoverBegins \/ RunCrashes
               \/ \E o \in Rows : RunLinks(o) \/ RunMakes(o) \/ RunMakesUnheard(o) \/ RunLeaves(o)
      <4> UNCHANGED users
        BY <3>8 DEF DomainAppears, DomainRenames, TakeoverBegins, RunCrashes, RunLinks, RunMakes,
                    RunMakesUnheard, RunLeaves
      <4> QED BY <3>7
    <3> QED BY <1>4, <3>1, <3>2, <3>3, <3>4, <3>5, <3>6, <3>8 DEF AccountsNext, MovedByHand
  <2> QED BY <1>l, <2>1
<1> QED BY <1>1, <1>2, <1>3, <1>4

\* The accounts here and in Keycloak stay well typed, whoever signs in, is made, linked, renamed or
\* removed, and wherever a run over the old accounts is cut off (keycloak.py, uebernahme.py).
THEOREM AccountTypesHold ==
    ASSUME AccountsAssumption
    PROVE  AccountsSpec => []AccountsTypeOK
<1>1. AccountsInit => AccountsTypeOK
  BY AccountsInitTypes
<1>2. AccountsTypeOK /\ [AccountsNext]_accountVars => AccountsTypeOK'
  BY AccountsStepKeepsTypes, AccountsStutterKeepsTypes
<1> QED BY <1>1, <1>2, PTL DEF AccountsSpec

\* Whatever fails or is cut off and whoever is renamed: no account of Keycloak's has a password here
\* that would let its owner in beside Keycloak (umziehen, uebernahme.lauf, verknuepfen).
THEOREM NobodyHasTwoWays ==
    ASSUME AccountsAssumption
    PROVE  AccountsSpec => []NoSecondWay
<1>1. AccountsInit => NoSecondWay
  BY NoSecondWayAtFirst
<1>2. AccountsTypeOK /\ NoSecondWay /\ [AccountsNext]_accountVars => NoSecondWay'
  <2>1. NoSecondWay /\ UNCHANGED accountVars => NoSecondWay'
    BY DEF NoSecondWay, accountVars
  <2> QED BY <2>1, NoSecondWayIsKept
<1> QED BY <1>1, <1>2, AccountTypesHold, PTL DEF AccountsSpec

\* For any number of people, runs and failing calls: an active person who moves to Keycloak, at a
\* local sign-in or in the run over all accounts, finds an account there that is not locked and whose
\* password somebody knows or will be shown, as long as no directory renames people, no run is cut
\* off, nothing is taken back before the last run, and a call that made an account is known to have
\* done so; calls may fail before that and after it (umziehen, uebernahme.lauf, konto_anlegen).
THEOREM WhoMovesCanSignIn ==
    ASSUME AccountsAssumption, ~Renames, TakesBackForGood, ~LosesAnswers, MaxAborts = 0
    PROVE  AccountsSpec => [][AccountsMove]_accountVars
<1>1. AccountsInit => AccountsTypeOK /\ AccountInv /\ NoSecondWay
  BY AccountsInitTypes, AccountsInitNames, NoSecondWayAtFirst
<1>2. AccountsTypeOK /\ AccountInv /\ [AccountsNext]_accountVars => AccountInv'
  BY AccountsStepKeepsNames, AccountsStutterKeepsNames
<1>3. AccountsTypeOK /\ AccountInv /\ NoSecondWay /\ [AccountsNext]_accountVars
          => [AccountsMove]_accountVars
  BY EachMovesToUsable, NoSecondWayIsKept DEF AccountsMove
<1> QED BY <1>1, <1>2, <1>3, AccountTypesHold, NobodyHasTwoWays, PTL DEF AccountsSpec
=============================================================================
