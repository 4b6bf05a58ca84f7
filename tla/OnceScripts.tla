----------------------------- MODULE OnceScripts -----------------------------
(***************************************************************************)
(* Scripts of a template that run once for each user.  A start reads what  *)
(* a user has not had, the agent runs it in the new or resumed container,  *)
(* and the results are booked in one transaction.                          *)
(***************************************************************************)
EXTENDS FiniteSets

CONSTANTS
    Users, Scripts,
    Starts,         \* starts of desks of the template, each of some user
    \* A user starts one desk at a time, answers arrive, and no script is deleted while a
    \* start is under way.
    Careful

OnceScriptsAssumption == Careful \in BOOLEAN

VARIABLES
    scripts,        \* table once_scripts: none yet, on, off, or deleted
    booked,         \* table once_script_runs: how the run went
    starts,         \* what the starts are doing
    had             \* what users have had since an administrator last reset it

onceVars == <<scripts, booked, starts, had>>

Runs == Users \X Scripts
NoStart == [pc |-> "idle", user |-> {}, todo |-> {}, results |-> {}]
Result == Scripts \X {"ok", "bad"}

OnceTypeOK ==
    /\ scripts \in [Scripts -> {"none", "on", "off", "gone"}]
    /\ booked \in [Runs -> {"no", "ok", "bad"}]
    /\ starts \in [Starts -> [pc : {"idle", "run", "book"}, user : SUBSET Users,
                              todo : SUBSET Scripts, results : SUBSET Result]]
    /\ had \subseteq Runs

OnceInit ==
    /\ scripts = [s \in Scripts |-> "none"]
    /\ booked = [r \in Runs |-> "no"]
    /\ starts = [p \in Starts |-> NoStart]
    /\ had = {}

UserOf(p) == CHOOSE u \in Users : u \in starts[p].user
Becomes(p, r) == starts' = [starts EXCEPT ![p] = r]

\* _offene_einmal_skripte
Missing(u) == {s \in Scripts : scripts[s] = "on" /\ booked[<<u, s>>] = "no"}

StartReads(p, u) ==
    /\ starts[p].pc = "idle"
    /\ Careful => \A q \in Starts : u \notin starts[q].user
    /\ Becomes(p, [pc |-> "run", user |-> {u}, todo |-> Missing(u), results |-> {}])
    /\ UNCHANGED <<scripts, booked, had>>

AgentRunsEach(p, s, outcome) == \* as if an error of Docker were a result, too
    /\ starts[p].pc = "run" /\ s \in starts[p].todo
    /\ Becomes(p, [starts[p] EXCEPT !.todo = @ \ {s}, !.results = @ \cup {<<s, outcome>>}])
    /\ had' = had \cup {<<UserOf(p), s>>}
    /\ UNCHANGED <<scripts, booked>>
\* _run_once_scripts: an error of Docker gives no result.
AgentRuns(p, s, outcome) ==
    /\ starts[p].pc = "run" /\ s \in starts[p].todo
    /\ IF outcome = "unreachable"
       THEN /\ Becomes(p, [starts[p] EXCEPT !.todo = @ \ {s}])
            /\ UNCHANGED had
       ELSE /\ Becomes(p, [starts[p] EXCEPT !.todo = @ \ {s}, !.results = @ \cup {<<s, outcome>>}])
            /\ had' = had \cup {<<UserOf(p), s>>}
    /\ UNCHANGED <<scripts, booked>>

AgentAnswers(p) ==
    /\ starts[p].pc = "run" /\ starts[p].todo = {}
    /\ Becomes(p, [starts[p] EXCEPT !.pc = "book"])
    /\ UNCHANGED <<scripts, booked, had>>

StartFails(p) == \* before the scripts, or the answer is lost
    /\ starts[p].pc = "run"
    /\ Careful => starts[p].results = {}
    /\ Becomes(p, NoStart)
    /\ UNCHANGED <<scripts, booked, had>>

BookSuccesses(p) == \* as if a run that failed were not booked
    LET u == UserOf(p) IN
    /\ starts[p].pc = "book"
    /\ booked' = [r \in Runs |-> IF r[1] = u /\ <<r[2], "ok">> \in starts[p].results THEN "ok"
                                 ELSE booked[r]]
    /\ Becomes(p, NoStart)
    /\ UNCHANGED <<scripts, had>>
\* _buche_einmal_skripte: all of them or, when one is booked already or its script is gone, none.
Book(p) ==
    LET u == UserOf(p)
        results == starts[p].results
        conflict == \E x \in results : booked[<<u, x[1]>>] # "no" \/ scripts[x[1]] = "gone" IN
    /\ starts[p].pc = "book"
    /\ booked' = IF conflict THEN booked
                 ELSE [r \in Runs |-> CASE r[1] = u /\ <<r[2], "ok">> \in results -> "ok"
                                        [] r[1] = u /\ <<r[2], "bad">> \in results -> "bad"
                                        [] OTHER -> booked[r]]
    /\ Becomes(p, NoStart)
    /\ UNCHANGED <<scripts, had>>

(* The administration.                                                      *)

Save(s, state) == \* create_once, update_once: a new text runs for nobody who had the old one
    /\ scripts[s] \notin {state, "gone"}
    /\ scripts' = [scripts EXCEPT ![s] = state]
    /\ UNCHANGED <<booked, starts, had>>

Delete(s) ==
    /\ scripts[s] \in {"on", "off"}
    /\ Careful => \A p \in Starts : starts[p] = NoStart
    /\ scripts' = [scripts EXCEPT ![s] = "gone"]
    /\ booked' = [r \in Runs |-> IF r[2] = s THEN "no" ELSE booked[r]]
    /\ had' = {r \in had : r[2] # s}
    /\ UNCHANGED starts

Again(s, onlyFailed) == \* run_once_again
    LET reset == {r \in Runs : r[2] = s /\ booked[r] \in IF onlyFailed THEN {"bad"} ELSE {"ok", "bad"}} IN
    /\ scripts[s] \in {"on", "off"} /\ reset # {}
    /\ booked' = [r \in Runs |-> IF r \in reset THEN "no" ELSE booked[r]]
    /\ had' = had \ reset
    /\ UNCHANGED <<scripts, starts>>

OnceNext ==
    \/ \E p \in Starts :
          \/ \E u \in Users : StartReads(p, u)
          \/ \E s \in Scripts, o \in {"ok", "bad", "unreachable"} : AgentRuns(p, s, o)
          \/ AgentAnswers(p) \/ StartFails(p) \/ Book(p)
    \/ \E s \in Scripts, state \in {"on", "off"} : Save(s, state)
    \/ \E s \in Scripts : Delete(s) \/ \E o \in BOOLEAN : Again(s, o)

OnceSpec == OnceInit /\ [][OnceNext]_onceVars

\* Between two resets by an administrator no user gets a script twice, whether it went well
\* or not (OnceScript: "je Nutzer genau einmal").
RunsNew ==
    \A p \in Starts : \A x \in starts'[p].results \ starts[p].results :
        <<UserOf(p), x[1]>> \notin had
RunsOnce == [][RunsNew]_onceVars
=============================================================================
