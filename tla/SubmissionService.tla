-------------------------- MODULE SubmissionService --------------------------
(***************************************************************************)
(* What the submit connector promises, seen from outside: a submission is  *)
(* accepted once, runs, gets one report that never changes, and is held as *)
(* pending until that report is durable.  The harness tears the session    *)
(* down when nothing is pending.                                           *)
(***************************************************************************)
CONSTANTS Calls, Reports, NoReport

VARIABLES
    state,     \* "absent", "queued", "running" or "done"
    outcome,   \* the report, once done
    durable,   \* submissions whose report is persisted
    pending    \* submissions teardown has to wait for

serviceVars == <<state, outcome, durable, pending>>

Init ==
    /\ state = [c \in Calls |-> "absent"]
    /\ outcome = [c \in Calls |-> NoReport]
    /\ durable = {}
    /\ pending = {}

(* An accepted submission is pending from the very step that accepts it.   *)
Accept(c) ==
    /\ state[c] = "absent"
    /\ state' = [state EXCEPT ![c] = "queued"]
    /\ pending' = pending \cup {c}
    /\ UNCHANGED <<outcome, durable>>

Start(c) ==
    /\ state[c] = "queued"
    /\ state' = [state EXCEPT ![c] = "running"]
    /\ UNCHANGED <<outcome, durable, pending>>

Finish(c) ==
    /\ state[c] = "running"
    /\ state' = [state EXCEPT ![c] = "done"]
    /\ outcome'[c] \in Reports
    /\ outcome' = [outcome EXCEPT ![c] = outcome'[c]]
    /\ UNCHANGED <<durable, pending>>

Persist(c) ==
    /\ state[c] = "done"
    /\ c \notin durable
    /\ durable' = durable \cup {c}
    /\ UNCHANGED <<state, outcome, pending>>

Release(c) ==
    /\ c \in durable \cap pending
    /\ pending' = pending \ {c}
    /\ UNCHANGED <<state, outcome, durable>>

Next ==
    \E c \in Calls :
        Accept(c) \/ Start(c) \/ Finish(c) \/ Persist(c) \/ Release(c)

Spec == Init /\ [][Next]_serviceVars
=============================================================================
