-------------------------- MODULE RecordingPromise --------------------------
(***************************************************************************)
(* What the recorder promises for one reservation, without processes,      *)
(* rows or files: it is recorded at most once, its result is decided       *)
(* before anything is published, a stop request excludes success, and a    *)
(* settled result never changes.                                           *)
(***************************************************************************)
VARIABLES
    phase,      \* "waiting", "cancelled", "running", "publishing" or "settled"
    stop,       \* the user asked the running recording to stop
    outcome     \* the decided result

promiseVars == <<phase, stop, outcome>>

Published == {"completed", "stopped", "interrupted"}
Outcomes == Published \cup {"none", "unpublished", "missed"}

\* A program that starts may find a publication that its predecessor began.
Init ==
    /\ stop = FALSE
    /\ \/ phase = "waiting" /\ outcome = "none"
       \/ phase = "publishing" /\ outcome = "completed"

Cancel ==
    /\ phase = "waiting" /\ phase' = "cancelled"
    /\ UNCHANGED <<stop, outcome>>

Begin ==
    /\ phase = "waiting" /\ phase' = "running"
    /\ UNCHANGED <<stop, outcome>>

RequestStop ==
    /\ phase = "running" /\ stop' = TRUE
    /\ UNCHANGED <<phase, outcome>>

\* The result is decided, by the stop request if there is one.
Decide ==
    /\ phase = "running" /\ phase' = "publishing"
    /\ outcome' \in IF stop THEN {"stopped"} ELSE {"completed", "interrupted"}
    /\ UNCHANGED stop

\* It ends unpublished, or as never begun.
GiveUp ==
    /\ phase = "running" /\ phase' = "settled"
    /\ outcome' \in IF stop THEN {"unpublished"} ELSE {"unpublished", "missed"}
    /\ UNCHANGED stop

\* The decided result is reached, or the publication fails.
Settle ==
    /\ phase = "publishing" /\ phase' = "settled"
    /\ outcome' \in {outcome, "unpublished"}
    /\ UNCHANGED stop

Next == Cancel \/ Begin \/ RequestStop \/ Decide \/ GiveUp \/ Settle

Spec == Init /\ [][Next]_promiseVars
=============================================================================
