-------------------------- MODULE GatewayContract --------------------------
(***************************************************************************)
(* The values of a loaded contract bundle that the decision core depends   *)
(* on, and the sets its data range over.  Durations count units of the     *)
(* same abstract clock; every property is stated for all of their values.  *)
(***************************************************************************)
EXTENDS Integers, FiniteSets

CONSTANTS
    Sources,               \* enabled entries of the SourcePolicy
    Generations,           \* publisher GIDs
    None,                  \* an empty std::optional
    Priority,              \* SourcePolicyEntry.priority
    IdOrder,               \* rank of a source_id in std::string order
    Lease,                 \* SourcePolicyEntry.lease_timeout_ms
    CommandTimeout,        \* gateway.command_timeout_ms
    SwitchHold,            \* gateway.source_switch_hold_ms
    MaxFutureSkew,         \* limits.max_future_skew_ms
    RecoveryValidSamples,  \* gateway.recovery_valid_samples
    LateThreshold,         \* gateway.output_tick_late_threshold_ms
    LateTicksToSafeStop    \* gateway.consecutive_late_ticks_to_safe_stop

\* The latest valid command of a source, as SourceSnapshot keeps it.
Snapshots == [gen : Generations, seq : Nat, stamp : Nat, received : Nat,
              motion : BOOLEAN]

\* A source together with its publisher generation (RecoveryCandidateKey).
Keys == [source : Sources, gen : Generations]

ASSUME ContractAssumption ==
    /\ IsFiniteSet(Sources)
    /\ Priority \in [Sources -> Nat]
    /\ IdOrder \in [Sources -> Nat]
    /\ \A s, t \in Sources : IdOrder[s] = IdOrder[t] => s = t
    /\ Lease \in [Sources -> Nat]
    /\ CommandTimeout \in Nat
    /\ SwitchHold \in Nat
    /\ MaxFutureSkew \in Nat
    /\ RecoveryValidSamples \in Nat \ {0}
    /\ LateThreshold \in Nat
    /\ LateTicksToSafeStop \in Nat \ {0}

ASSUME NoneAssumption ==
    /\ None \notin Sources
    /\ None \notin Generations
    /\ None \notin Snapshots
    /\ None \notin Keys
    /\ None \notin Int
=============================================================================
