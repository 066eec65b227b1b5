---------------------------- MODULE ControlLoop ----------------------------
(***************************************************************************)
(* The loop that gateway and robot adapter close: the gateway opens only   *)
(* on an adapter that waits for it, the adapter gets out of SAFE_STOP only *)
(* by the gateway's commands, and the gateway sends motion only when the   *)
(* adapter has left SAFE_STOP.  The gateway is what GatewayNode and        *)
(* DecisionEngine make of it, with sources that always have a command.     *)
(* Timers run once in a unit of time, in any order.  Discovery, DDS and    *)
(* the robot may fail MaxGlitches times.                                   *)
(***************************************************************************)
EXTENDS Ros2ControlAdapter

CONSTANTS
    RecoveryTicks,     \* ticks until recovery is proven, as one number
    MaxGlitches,       \* bound: failures of the surroundings
    MaxDeactivations   \* bound: operators that deactivate or clean up

ASSUME LoopAssumption ==
    /\ RecoveryTicks \in Nat \ {0}
    /\ MaxGlitches \in Nat /\ MaxDeactivations \in Nat

VARIABLES
    phase,      \* lifecycle state of the gateway
    gid,        \* GID of its canonical publisher, None if it has none
    used,       \* history: the GIDs so far
    vehicle,    \* the gateway's fresh VehicleState, None if there is none
    healthy,    \* ticks in a row on a vehicle that is out of SAFE_STOP
    wire,       \* the canonical command in flight, None if there is none
    due,        \* the timers that are yet to run in this unit of time
    ever,       \* history: the publisher has been active
    glitches, deactivations

gateway == <<phase, gid, used, vehicle, healthy, ever>>
bounds == <<glitches, deactivations>>
vars == <<adapter, gateway, wire, due, bounds>>

Timers == {"graph", "output", "report"}

Init ==
    /\ AdapterInit
    /\ phase = "unconfigured" /\ gid = None /\ used = {}
    /\ vehicle = None /\ healthy = 0 /\ ever = FALSE
    /\ wire = None /\ due = Timers
    /\ glitches = 0 /\ deactivations = 0

Glitch == glitches < MaxGlitches /\ glitches' = glitches + 1

-----------------------------------------------------------------------------
(***************************************************************************)
(* The gateway, and the activator that configures and activates it again   *)
(* and again until it is active.                                           *)
(***************************************************************************)
Configure ==
    /\ phase = "unconfigured"
    /\ \E p \in Publishers \ used : gid' = p /\ used' = used \cup {p}
    /\ phase' = "inactive" /\ vehicle' = None /\ healthy' = 0 /\ ever' = FALSE
    /\ UNCHANGED <<adapter, wire, due, bounds>>

\* Mutant of GateOpens: any report out of a fault opens the gate.
GateOpensOnHealthy == vehicle \in {"standby", "running"}

GateOpens == vehicle = "Timeout"

Activate ==
    /\ phase = "inactive" /\ GateOpens
    /\ phase' = "active" /\ healthy' = 0 /\ ever' = TRUE
    /\ UNCHANGED <<adapter, gid, used, vehicle, wire, due, bounds>>

Deactivate ==
    /\ phase = "active" /\ deactivations < MaxDeactivations
    /\ phase' = "inactive" /\ deactivations' = deactivations + 1
    /\ UNCHANGED <<adapter, gid, used, vehicle, healthy, wire, due, ever,
                   glitches>>

\* The endpoint goes with its publisher.
Cleanup ==
    /\ phase = "inactive" /\ Publishers # used
    /\ deactivations < MaxDeactivations
    /\ phase' = "unconfigured" /\ deactivations' = deactivations + 1
    /\ gid' = None /\ vehicle' = None
    /\ UNCHANGED <<adapter, used, healthy, wire, due, ever, glitches>>

\* Mutant of OutOfSafeStop: a vehicle that stands by is not out of it.
OutOfSafeStopRunning == vehicle = "running"

OutOfSafeStop == vehicle \in {"standby", "running"}

\* run_output_tick: HOLD until the vehicle has proven its recovery.
RunOutputTick ==
    /\ "output" \in due /\ due' = due \ {"output"}
    /\ \/ /\ phase = "active"
          /\ healthy' = IF ~OutOfSafeStop THEN 0
                        ELSE IF healthy < RecoveryTicks THEN healthy + 1
                        ELSE healthy
          /\ wire' = [from |-> gid,
                      content |-> IF healthy' = RecoveryTicks THEN "motion"
                                  ELSE "hold"]
       \/ phase # "active" /\ UNCHANGED <<healthy, wire>>
    /\ UNCHANGED <<adapter, phase, gid, used, vehicle, ever, bounds>>

-----------------------------------------------------------------------------
(***************************************************************************)
(* The adapter's callbacks, and what may fail around them.                 *)
(***************************************************************************)
Truth == IF gid = None THEN "unavailable" ELSE gid

\* Discovery may miss endpoints, see several, or remember one that is gone.
Discovery ==
    /\ "graph" \in due /\ due' = due \ {"graph"}
    /\ \/ PollCanonicalEndpoint(Truth) /\ UNCHANGED bounds
       \/ /\ Glitch /\ UNCHANGED deactivations
          /\ \E observation \in
                (used \cup {"unavailable", "ambiguous"}) \ {Truth} :
                   PollCanonicalEndpoint(observation)
    /\ UNCHANGED <<gateway, wire>>

\* A motion command may arrive too late for its stamp, any may be lost.
CommandArrives ==
    /\ wire # None /\ wire' = None
    /\ \/ HandleCanonicalCommand(wire.from, wire.content) /\ UNCHANGED bounds
       \/ /\ Glitch /\ UNCHANGED deactivations
          /\ \/ UNCHANGED adapter
             \/ /\ wire.content = "motion"
                /\ HandleCanonicalCommand(wire.from, "bad")
    /\ UNCHANGED <<gateway, due>>

\* publish_controller_command and publish_vehicle_state; a gateway that is
\* not configured has no subscription, and a report may be lost until what
\* the gateway has is no longer fresh.
Report ==
    /\ "report" \in due /\ due' = due \ {"report"}
    /\ PublishVehicleState
    /\ \/ /\ vehicle' = IF gid = None THEN None ELSE report'
          /\ UNCHANGED bounds
       \/ Glitch /\ UNCHANGED deactivations /\ vehicle' = None
    /\ UNCHANGED <<phase, gid, used, healthy, ever, wire>>

Drive ==
    /\ PublishControllerCommand
    /\ UNCHANGED <<gateway, wire, due, bounds>>

PlatformRecovers ==
    /\ platform = "Fault" /\ PlatformChanges
    /\ UNCHANGED <<gateway, wire, due, bounds>>

PlatformFails ==
    /\ platform = "None" /\ PlatformChanges
    /\ Glitch /\ UNCHANGED <<gateway, wire, due, deactivations>>

Tick ==
    /\ due = {} /\ wire = None /\ due' = Timers
    /\ AdapterTime
    /\ UNCHANGED <<gateway, wire, bounds>>

-----------------------------------------------------------------------------
Next ==
    \/ Configure \/ Activate \/ Deactivate \/ Cleanup
    \/ RunOutputTick \/ Discovery \/ CommandArrives \/ Report \/ Drive
    \/ PlatformRecovers \/ PlatformFails \/ Tick

Spec == Init /\ [][Next]_vars

\* Timers run, messages arrive, the activator goes on, the robot recovers,
\* and time passes.
Fairness ==
    /\ WF_vars(Configure) /\ WF_vars(Activate)
    /\ WF_vars(RunOutputTick) /\ WF_vars(Discovery) /\ WF_vars(Report)
    /\ WF_vars(CommandArrives) /\ WF_vars(PlatformRecovers) /\ WF_vars(Tick)

FairSpec == Spec /\ Fairness

(***************************************************************************)
(* The types of the gateway's side of the loop.                            *)
(***************************************************************************)
TypeOK ==
    /\ AdapterTyped
    /\ phase \in {"unconfigured", "inactive", "active"}
    /\ gid \in Publishers \cup {None} /\ used \subseteq Publishers
    /\ vehicle \in {None, "Ambiguous", "Invalid", "Platform", "Timeout",
                    "Throws", "standby", "running"}
    /\ healthy \in 0 .. RecoveryTicks /\ ever \in BOOLEAN
    /\ wire \in [from : Publishers, content : {"motion", "hold"}]
                  \cup {None}
    /\ due \subseteq Timers
    /\ glitches \in 0 .. MaxGlitches
    /\ deactivations \in 0 .. MaxDeactivations

(***************************************************************************)
(* The activation that waits for the adapter and the adapter that waits    *)
(* for the gateway do not wait for each other: once the surroundings stop  *)
(* failing, the gateway becomes active.  The one exception: a gateway that *)
(* was active before, whose last command was rejected.  The rejection      *)
(* stands until a command is accepted or the publisher is another one, so  *)
(* only cleaning up helps (on_activate, current_fault_code).               *)
(***************************************************************************)
Activates ==
    phase = "inactive" ~> phase # "inactive" \/ (ever /\ rejected # "None")

(***************************************************************************)
(* An active gateway gets its vehicle out of SAFE_STOP and moving, from    *)
(* whatever state the adapter was left in by rejected commands, a lost     *)
(* publisher or a platform fault.                                          *)
(***************************************************************************)
Moves == phase = "active" ~> phase # "active" \/ report = "running"

-----------------------------------------------------------------------------
\* What the proofs rest on: a gateway that is configured has its publisher.
HasPublisher == phase # "unconfigured" => gid # None

LoopInv == TypeOK /\ HasPublisher /\ AdapterInv
=============================================================================
