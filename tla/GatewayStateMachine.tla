------------------------ MODULE GatewayStateMachine ------------------------
(***************************************************************************)
(* The data-plane state machine of the gateway.  Its value is              *)
(*   [state, reason, selected, candidate, count, epoch]                    *)
(* and Decide returns the value after one output tick.  The recovery       *)
(* evidence of a tick is a tally per candidate key (see Tally): the count  *)
(* of a candidate only depends on the evidence that carries its key, and   *)
(* there on whether a rejection occurred and on how many samples were      *)
(* accepted after the last one.                                            *)
(***************************************************************************)
EXTENDS GatewayContract

DataStates ==
    {"STANDBY", "RECOVERING", "ACTIVE", "DEGRADED", "SAFE_STOP", "ERROR"}

HealthReasons ==
    {"InternalInvariant", "OutputTickOverrun", "CriticalEndpointUnhealthy",
     "ClockInvalid", "VehicleStateInvalid", "VehicleStateTimeout",
     "VehicleFault", "VehicleSafeStop", "CriticalQosMismatch"}

StateReasons ==
    HealthReasons \cup {"NoReason", "NoQualifiedSource", "FirstValidCommand",
                        "SourceSwitch", "SourceFallback", "RecoveryComplete"}

Health == [internalInvariants : BOOLEAN, outputTick : BOOLEAN,
           criticalEndpoints : BOOLEAN, rosClock : BOOLEAN,
           vehicleValid : BOOLEAN, vehicleFresh : BOOLEAN,
           vehicleFault : BOOLEAN, vehicleSafeStop : BOOLEAN,
           criticalQos : BOOLEAN]

(***************************************************************************)
(* Evidence of one key: the health epoch it was recorded in, whether it    *)
(* holds a rejection, and the accepted samples after the last rejection.   *)
(* good stops at RecoveryValidSamples, beyond which no decision changes.   *)
(***************************************************************************)
Grown(n) == IF n < RecoveryValidSamples THEN n + 1 ELSE n

Tally == [epoch : Nat, broken : BOOLEAN, good : Nat]

NoEvidence == [k \in Keys |-> [epoch |-> 0, broken |-> FALSE, good |-> 0]]

\* Mutant of TallyAfter: a rejection does not end the run of samples.
TallyLenient(tally, accepted) ==
    [tally EXCEPT !.good = IF accepted THEN Grown(@) ELSE @]

TallyAfter(tally, accepted) ==
    [epoch  |-> tally.epoch,
     broken |-> tally.broken \/ ~accepted,
     good   |-> IF accepted THEN Grown(tally.good) ELSE 0]

PushEvidence(pending, key, accepted, epoch) ==
    LET tally == IF pending[key].epoch = epoch THEN pending[key]
                 ELSE [epoch |-> epoch, broken |-> FALSE, good |-> 0]
    IN  [pending EXCEPT ![key] = TallyAfter(tally, accepted)]

CountAfter(count, tally, epoch) ==
    IF tally.epoch # epoch THEN count
    ELSE IF tally.broken THEN tally.good
    ELSE count + tally.good

(***************************************************************************)
(* The highest-priority fault of a health snapshot decides the override;   *)
(* a QoS mismatch only degrades.                                           *)
(***************************************************************************)
AssessHealth(h) ==
    IF ~h.internalInvariants
        THEN [state |-> "ERROR", reason |-> "InternalInvariant"]
    ELSE IF ~h.outputTick
        THEN [state |-> "SAFE_STOP", reason |-> "OutputTickOverrun"]
    ELSE IF ~h.criticalEndpoints
        THEN [state |-> "SAFE_STOP", reason |-> "CriticalEndpointUnhealthy"]
    ELSE IF ~h.rosClock
        THEN [state |-> "SAFE_STOP", reason |-> "ClockInvalid"]
    ELSE IF ~h.vehicleValid
        THEN [state |-> "SAFE_STOP", reason |-> "VehicleStateInvalid"]
    ELSE IF ~h.vehicleFresh
        THEN [state |-> "SAFE_STOP", reason |-> "VehicleStateTimeout"]
    ELSE IF h.vehicleFault
        THEN [state |-> "SAFE_STOP", reason |-> "VehicleFault"]
    ELSE IF h.vehicleSafeStop
        THEN [state |-> "SAFE_STOP", reason |-> "VehicleSafeStop"]
    ELSE IF ~h.criticalQos
        THEN [state |-> "DEGRADED", reason |-> "CriticalQosMismatch"]
    ELSE [state |-> "NONE", reason |-> "NoReason"]

Machines == [state : DataStates, reason : StateReasons,
             selected : Sources \cup {None}, candidate : Keys \cup {None},
             count : Nat, epoch : Nat \cup {None}]

NewMachine == [state |-> "STANDBY", reason |-> "NoReason", selected |-> None,
               candidate |-> None, count |-> 0, epoch |-> None]

SourceOf(key) == IF key = None THEN None ELSE key.source

(***************************************************************************)
(* commit_decision: the reason only changes together with the state or the *)
(* selected source, and recovery progress survives only in RECOVERING.     *)
(***************************************************************************)
Commit(sm, state, reason, key) ==
    [sm EXCEPT
        !.state     = state,
        !.reason    = IF state # sm.state \/ SourceOf(key) # sm.selected
                      THEN reason ELSE @,
        !.selected  = SourceOf(key),
        !.candidate = IF state = "RECOVERING" THEN @ ELSE None,
        !.count     = IF state = "RECOVERING" THEN @ ELSE 0]

\* Mutant of SafetyGateCloses: a health override no longer gates.
GateOnSelection(sm, h, key) == key = None

SafetyGateCloses(sm, h, key) ==
    AssessHealth(h).state # "NONE" \/ key = None

SafetyGate(sm, h, key) ==
    LET override == AssessHealth(h) IN
    IF override.state \notin {"NONE", "DEGRADED"}
        THEN Commit(sm, override.state, override.reason, key)
    ELSE IF key = None /\ sm.state # "STANDBY"
        THEN Commit(sm, "SAFE_STOP", "NoQualifiedSource", key)
    ELSE IF override.state = "DEGRADED"
        THEN Commit(sm, "DEGRADED", override.reason, key)
    ELSE Commit(sm, "STANDBY", sm.reason, key)

EvaluateActive(sm, event, key) ==
    IF event \in {"FirstSelection", "NoQualifiedSource"}
        THEN Commit(sm, "ERROR", "InternalInvariant", key)
    ELSE Commit(sm, "ACTIVE",
                CASE event = "NoChange" -> sm.reason
                  [] event = "Switch"   -> "SourceSwitch"
                  [] event = "Fallback" -> "SourceFallback",
                key)

(***************************************************************************)
(* evaluate_recovery: a new health epoch or a new candidate starts from    *)
(* zero; the tick's evidence for the candidate is then applied.            *)
(***************************************************************************)
RecoveryCount(sm, key, pending, epoch) ==
    CountAfter(IF sm.epoch = epoch /\ sm.candidate = key THEN sm.count ELSE 0,
               pending[key], epoch)

RecoveryReason(sm, event) ==
    CASE event = "NoChange"       -> sm.reason
      [] event = "FirstSelection" -> "FirstValidCommand"
      [] event = "Switch"         -> "SourceSwitch"
      [] event = "Fallback"       -> "SourceFallback"

EvaluateRecovery(sm, event, key, pending, epoch) ==
    LET count == RecoveryCount(sm, key, pending, epoch)
        tracked == [sm EXCEPT !.epoch = epoch, !.candidate = key,
                              !.count = count]
    IN  IF event = "NoQualifiedSource"
            THEN Commit([sm EXCEPT !.epoch = epoch],
                        "ERROR", "InternalInvariant", key)
        ELSE IF count >= RecoveryValidSamples
            THEN Commit(tracked, "ACTIVE", "RecoveryComplete", key)
        ELSE Commit(tracked, "RECOVERING", RecoveryReason(sm, event), key)

Decide(sm, h, event, key, pending, epoch) ==
    IF sm.state = "ERROR" THEN Commit(sm, "ERROR", sm.reason, key)
    ELSE IF SafetyGateCloses(sm, h, key) THEN SafetyGate(sm, h, key)
    ELSE IF sm.state = "ACTIVE" THEN EvaluateActive(sm, event, key)
    ELSE EvaluateRecovery(sm, event, key, pending, epoch)
=============================================================================
