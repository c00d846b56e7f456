------------------------------ MODULE MCPlain -------------------------------
(***************************************************************************)
(* A deployment without Redis and PostgreSQL: the tasks of a process in    *)
(* its memory, and due automations claimed on SQLite, where no row is      *)
(* locked.  The two share nothing; a behaviour follows one of them, as     *)
(* part says, and the fairness of each is assumed in its own behaviours.   *)
(***************************************************************************)
EXTENDS TaskRegistryLocal

CONSTANTS a1, a2, u1, Instances, Handlers

VARIABLES part, now, row, selected, loaded, handler, claims, edits, execs, begun, recorded,
          lost, crashes

claimVars == <<now, row, selected, loaded, handler, claims, edits, execs, begun, recorded,
               lost, crashes>>
allVars == <<part, vars, claimVars>>

\* Two automations that are due at once and fit into one claim.
Lite == INSTANCE AutomationScheduler WITH
    Automations <- {a1, a2}, Existing <- {a1, a2},
    Users <- {u1}, Owner <- [a \in {a1, a2} |-> u1],
    Rules <- {{1}}, InitialRule <- {1},
    Postgres <- FALSE, Limit <- 2, MaxCount <- 0, MaxTime <- 2, MaxCrashes <- 1

MCInit == part \in {"tasks", "claims"} /\ Init /\ Lite!Init

Tasking(action) == part = "tasks" /\ action /\ UNCHANGED <<part, claimVars>>
Claiming(action) == part = "claims" /\ action /\ UNCHANGED <<part, vars>>

MCNext ==
    \/ Tasking(Next)
    \/ Claiming(Lite!Next)
    \/ part = "claims" /\ UNCHANGED allVars    \* the clock has stopped

\* The fairness of both modules.
MCFairness ==
    /\ \A t \in Tasks :
          /\ WF_allVars(Tasking(Yielded /\ StartTask(t)))
          /\ WF_allVars(Tasking(Yielded /\ BodyEnds(t, "cancelled")))
          /\ WF_allVars(Tasking(Yielded /\ \E how \in {"returned", "cancelled"} :
                                    ChatFinally(t, how) \/ ChatEmitted(t, how)))
          /\ WF_allVars(Tasking(Yielded /\ CallbackCleanup(t)))
    /\ \A s \in Stoppers :
          WF_allVars(Tasking(StopLoop(s) \/ (Yielded /\ StopAwaited(s))))
    /\ \A i \in Instances : WF_allVars(Claiming(Lite!Claim(i)))

MCSpec == MCInit /\ [][MCNext]_allVars /\ MCFairness

\* Without row locks, too, what is due is claimed in the end, and nothing is
\* that has been deleted (claim_due of models/automations.py).
ClaimedOnSqlite == Lite!DeletedIsNotClaimed /\ Lite!DueIsClaimed
=============================================================================
