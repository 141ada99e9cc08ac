--------------------------- MODULE AnalysisService ---------------------------
(***************************************************************************)
(* What POST /analyze and POST /analyze/cancel promise their caller, the   *)
(* backend: a request gets one answer; a newer request of the same run     *)
(* takes the place of the one still open; a cancelled request is answered  *)
(* "stopped" and nothing else; a cancel says "cancelling" of an open       *)
(* request and "not_running" when nothing of that run is left to stop.     *)
(***************************************************************************)
CONSTANTS
    Requests,  \* the calls of POST /analyze
    RunIds     \* the backend's run ids; Inline is the blank one

Inline == ""

VARIABLES
    runOf,   \* the run id each request carries
    state,   \* new, open, stopping, answered
    reply,   \* what the caller was told: none, rca, expired, stopped, error
    told     \* the last answer a cancel of that run got

vars == <<runOf, state, reply, told>>

Init ==
    /\ runOf \in [Requests -> RunIds \cup {Inline}]
    /\ state = [r \in Requests |-> "new"]
    /\ reply = [r \in Requests |-> "none"]
    /\ told = [run \in RunIds |-> "none"]

\* The open requests of a run; a request without a run id cannot be named.
Open(run) == {r \in Requests : runOf[r] = run /\ run # Inline /\ state[r] = "open"}

Submit(r) ==
    /\ state[r] = "new"
    /\ state' = [q \in Requests |-> IF q = r THEN "open"
                                    ELSE IF q \in Open(runOf[r]) THEN "stopping"
                                    ELSE state[q]]
    /\ UNCHANGED <<runOf, reply, told>>

\* An older request of the run may still be stopping when the newest one has
\* been answered, and then the service no longer knows it.
Stop(run) ==
    /\ \E says \in {"cancelling", "not_running"} :
         /\ Open(run) # {} => says = "cancelling"
         /\ says = "cancelling" =>
              \E r \in Requests : runOf[r] = run /\ state[r] \in {"open", "stopping"}
         /\ told' = [told EXCEPT ![run] = says]
    /\ state' = [r \in Requests |-> IF r \in Open(run) THEN "stopping" ELSE state[r]]
    /\ UNCHANGED <<runOf, reply>>

Reply(r) ==
    /\ \/ state[r] = "open" /\ \E a \in {"rca", "expired", "error"} :
                                  reply' = [reply EXCEPT ![r] = a]
       \/ state[r] = "stopping" /\ reply' = [reply EXCEPT ![r] = "stopped"]
    /\ state' = [state EXCEPT ![r] = "answered"]
    /\ UNCHANGED <<runOf, told>>

Next ==
    \/ \E r \in Requests : Submit(r) \/ Reply(r)
    \/ \E run \in RunIds : Stop(run)

Spec == Init /\ [][Next]_vars
=============================================================================
