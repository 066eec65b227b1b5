---------------------------- MODULE ConfigSwitch ----------------------------
(***************************************************************************)
(* What a transactional reconfiguration promises about the gateway, apart  *)
(* from how the transaction goes about it: which configuration was brought *)
(* up last, whether it is active, and what the transaction reports.  The   *)
(* gateway may leave its active state on its own at any time (lost).       *)
(***************************************************************************)
VARIABLES
    installed,   \* the configuration activated last, "old" or "new"
    active,      \* the gateway is in its active state
    lost,        \* it left it on its own since installed was activated
    quiesced,    \* the transaction took the gateway out of its active state
    outcome      \* what the transaction ended with

switch == <<installed, active, lost, quiesced, outcome>>

Outcomes == {"RUNNING", "NO_OP", "REJECTED", "COMMITTED", "ROLLED_BACK",
             "ROLLBACK_FAILED", "CRASHED"}

\* The outcomes that leave the gateway in a configuration that is known.
Unsettled == {"RUNNING", "ROLLBACK_FAILED", "CRASHED"}

Init ==
    /\ installed = "old" /\ active = TRUE /\ lost = FALSE
    /\ quiesced = FALSE /\ outcome = "RUNNING"

Quiesce ==
    /\ outcome \in Unsettled /\ active
    /\ active' = FALSE /\ quiesced' = TRUE
    /\ UNCHANGED <<installed, lost, outcome>>

Install(config) ==
    /\ outcome \in Unsettled /\ ~active
    /\ quiesced \/ lost
    /\ installed' = config /\ active' = TRUE /\ lost' = FALSE
    /\ UNCHANGED <<quiesced, outcome>>

Lose ==
    /\ active
    /\ active' = FALSE /\ lost' = TRUE
    /\ UNCHANGED <<installed, quiesced, outcome>>

\* The gateway is where the transaction brought it.
Up(config) == installed = config /\ (active \/ lost)

Report(result) ==
    /\ outcome = "RUNNING"
    /\ result \in {"NO_OP", "REJECTED"} => Up("old") /\ ~quiesced
    /\ result = "COMMITTED" => Up("new")
    /\ result = "ROLLED_BACK" => Up("old")
    /\ outcome' = result
    /\ UNCHANGED <<installed, active, lost, quiesced>>

Next ==
    \/ Quiesce \/ Lose
    \/ \E config \in {"old", "new"} : Install(config)
    \/ \E result \in Outcomes \ {"RUNNING"} : Report(result)

Spec == Init /\ [][Next]_switch
=============================================================================
