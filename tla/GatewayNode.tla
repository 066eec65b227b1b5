---------------------------- MODULE GatewayNode ----------------------------
(***************************************************************************)
(* The lifecycle of the gateway node against its output tick.  The node    *)
(* runs on a multi-threaded executor: lifecycle services, output tick and  *)
(* health callbacks are in callback groups of their own, so they           *)
(* interleave at every release of runtime_mutex_; each action is one       *)
(* critical section.  What a tick decides is left to DecisionEngine: here  *)
(* only matters whether it decided ERROR, which by                         *)
(* DecisionEngine!ErrorOnlyFromInvariant it does for a broken invariant.   *)
(* What the code guards with a handler may fail here: a publisher, the     *)
(* engine when it is told of a transition, a health callback, a tick.      *)
(* TimerBase::cancel does not: request_lifecycle_error is noexcept, so the *)
(* process would end.                                                      *)
(***************************************************************************)
EXTENDS Naturals

CONSTANTS
    Threads,         \* executor threads
    MaxBundles,      \* bound: configurations
    MaxActivations   \* bound: activations

ASSUME NodeAssumption ==
    Threads \in Nat /\ MaxBundles \in Nat /\ MaxActivations \in Nat

VARIABLES
    \* rclcpp_lifecycle: primary or transition state, the thread that runs
    \* the callback of the transition, and what the callback returned
    lifecycle, runner, result,
    step,             \* next critical section of on_deactivate
    failed,           \* its flag of the same name
    \* the node
    bundle,           \* identity of contract_bundle_ and publishers, 0 if none
    healthPlane,      \* health_plane_configured_
    dataPlane,        \* data_plane_enabled_
    timerOn,          \* output_timer_ is not cancelled
    publishers,       \* none, some or all of the three are activated
    invariants,       \* health_snapshot_.internal_invariants_healthy
    errorRequested,   \* lifecycle_error_requested_
    errorSeen,        \* its copy taken by on_deactivate
    configured, active,   \* its decision engine
    tick,             \* the tick callback: where it is and what it decided
    healthThrew,      \* a health callback is on its way to its catch block
    bundles, activations  \* history: configurations and activations so far

transition == <<lifecycle, runner, result, step, failed>>
node == <<bundle, healthPlane, dataPlane, timerOn, publishers, invariants,
          errorRequested, errorSeen>>
engine == <<configured, active>>
counts == <<bundles, activations>>
vars == <<transition, node, engine, tick, healthThrew, counts>>

-----------------------------------------------------------------------------
PrimaryStates == {"unconfigured", "inactive", "active", "finalized"}
TransitionStates == {"activating", "deactivating", "errorprocessing"}

TickStages == {"idle", "decided", "threw", "requesting", "cancelling",
               "triggering", "running"}

Ticks == [at : TickStages, bundle : Nat, error : BOOLEAN]

IdleTick == [at |-> "idle", bundle |-> 0, error |-> FALSE]

Init ==
    /\ lifecycle = "unconfigured" /\ runner = "none" /\ result = "none"
    /\ step = "none" /\ failed = FALSE
    /\ bundle = 0 /\ healthPlane = FALSE /\ dataPlane = FALSE
    /\ timerOn = FALSE /\ publishers = "off" /\ invariants = TRUE
    /\ errorRequested = FALSE /\ errorSeen = FALSE
    /\ configured = FALSE /\ active = FALSE
    /\ tick = IdleTick /\ healthThrew = FALSE
    /\ bundles = 0 /\ activations = 0

\* A callback only starts on a thread that is not in another one.
Busy == (IF runner = "service" THEN 1 ELSE 0)
        + (IF tick.at # "idle" THEN 1 ELSE 0)
        + (IF healthThrew THEN 1 ELSE 0)

ThreadFree == Busy < Threads

(***************************************************************************)
(* rclcpp_lifecycle: a transition starts from its primary state only, runs *)
(* its callback, and moves on with what the callback returned.             *)
(***************************************************************************)
StartTransition(from, to, thread) ==
    /\ lifecycle = from /\ runner = "none"
    /\ lifecycle' = to /\ runner' = thread /\ result' = "none"

\* An error is processed, unless it is one of error processing itself.
Processed == result = "ERROR" /\ lifecycle # "errorprocessing"

\* Where a callback's return value leads otherwise.
Destination ==
    IF result = "ERROR" THEN "finalized"
    ELSE IF result = "FAILURE" \/ lifecycle = "deactivating" THEN "inactive"
    ELSE IF lifecycle = "activating" THEN "active"
    ELSE "unconfigured"

Finish ==
    /\ result # "none"
    /\ result' = "none"
    /\ \/ /\ Processed
          /\ lifecycle' = "errorprocessing"
          /\ UNCHANGED <<runner, tick>>
       \/ /\ ~Processed
          /\ lifecycle' = Destination
          /\ runner' = "none"
          /\ tick' = IF runner = "tick" THEN IdleTick ELSE tick
    /\ UNCHANGED <<step, failed, node, engine, healthThrew, counts>>

-----------------------------------------------------------------------------
(***************************************************************************)
(* Lifecycle callbacks.  on_configure prepares everything aside and        *)
(* commits it in one critical section, after which health is processed.    *)
(***************************************************************************)
OnConfigure ==
    /\ lifecycle = "unconfigured" /\ runner = "none" /\ ThreadFree
    /\ bundles < MaxBundles
    /\ lifecycle' = "inactive"
    /\ bundles' = bundles + 1 /\ bundle' = bundles'
    /\ healthPlane' = TRUE /\ dataPlane' = FALSE /\ timerOn' = FALSE
    /\ publishers' = "off" /\ invariants' = TRUE
    /\ errorRequested' = FALSE
    /\ configured' = TRUE /\ active' = FALSE
    /\ UNCHANGED <<runner, result, step, failed, errorSeen, tick, healthThrew,
                   activations>>

StartActivate ==
    /\ activations < MaxActivations /\ ThreadFree
    /\ StartTransition("inactive", "activating", "service")
    /\ UNCHANGED <<step, failed, node, engine, tick, healthThrew, counts>>

\* The configuration and publisher checks of on_activate, and what the engine
\* asks of an Activate event.
ActivationInOrder ==
    /\ healthPlane /\ bundle # 0 /\ configured /\ ~active
    /\ ~dataPlane /\ publishers = "off"

Activating == lifecycle = "activating" /\ result = "none"

\* A broken invariant or an inconsistency is an error, a closed vehicle,
\* endpoint or QoS gate a failure.
ActivationRefused ==
    /\ Activating
    /\ \/ ~(ActivationInOrder /\ invariants) /\ result' = "ERROR"
       \/ ActivationInOrder /\ invariants /\ result' = "FAILURE"
    /\ UNCHANGED <<lifecycle, runner, step, failed, node, engine, tick,
                   healthThrew, counts>>

(***************************************************************************)
(* A publisher, the engine or the timer does not start and what did is     *)
(* rolled back.  A publisher that does not stop is logged and stays on; an *)
(* engine that refuses its Deactivate event stays active, which breaks the *)
(* invariant.  All of them were on by then.                                *)
(***************************************************************************)
\* Mutant of ActivationRolledBack: an engine that stays active is logged too.
RolledBackQuietly ==
    /\ Activating /\ ActivationInOrder /\ invariants
    /\ errorRequested' = FALSE
    /\ publishers' \in {"off", "some", "on"}
    /\ active' \in BOOLEAN
    /\ dataPlane' = FALSE /\ timerOn' = FALSE
    /\ result' \in {"FAILURE", "ERROR"}
    /\ UNCHANGED <<lifecycle, runner, step, failed, bundle, healthPlane,
                   invariants, errorSeen, configured, tick, healthThrew,
                   counts>>

ActivationRolledBack ==
    /\ Activating /\ ActivationInOrder /\ invariants
    /\ errorRequested' = FALSE
    /\ publishers' \in {"off", "some", "on"}
    /\ active' \in BOOLEAN /\ invariants' = ~active'
    /\ dataPlane' = FALSE /\ timerOn' = FALSE
    /\ result' \in {"FAILURE", "ERROR"}
    /\ UNCHANGED <<lifecycle, runner, step, failed, bundle, healthPlane,
                   errorSeen, configured, tick, healthThrew, counts>>

ActivationCommitted ==
    /\ Activating /\ ActivationInOrder /\ invariants
    /\ result' = "SUCCESS"
    /\ publishers' = "on" /\ active' = TRUE
    /\ dataPlane' = TRUE /\ timerOn' = TRUE
    /\ errorRequested' = FALSE
    /\ activations' = activations + 1
    /\ UNCHANGED <<lifecycle, runner, step, failed, bundle, healthPlane,
                   invariants, errorSeen, configured, tick, healthThrew,
                   bundles>>

OnActivate == ActivationRefused \/ ActivationRolledBack \/ ActivationCommitted

StartDeactivate ==
    /\ ThreadFree
    /\ StartTransition("active", "deactivating", "service")
    /\ step' = "gate" /\ failed' = FALSE
    /\ UNCHANGED <<node, engine, tick, healthThrew, counts>>

\* Mutant of CloseGate: the publishers are stopped with the gate left open.
CloseGateLate ==
    /\ lifecycle = "deactivating" /\ step = "gate"
    /\ timerOn' = FALSE
    /\ errorSeen' = errorRequested
    /\ step' = "publishers"
    /\ UNCHANGED <<lifecycle, runner, result, failed, bundle, healthPlane,
                   dataPlane, publishers, invariants, errorRequested, engine,
                   tick, healthThrew, counts>>

\* on_deactivate: close the gate, stop the publishers, deactivate the engine.
CloseGate ==
    /\ lifecycle = "deactivating" /\ step = "gate"
    /\ dataPlane' = FALSE /\ timerOn' = FALSE
    /\ errorSeen' = errorRequested
    /\ step' = "publishers"
    /\ UNCHANGED <<lifecycle, runner, result, failed, bundle, healthPlane,
                   publishers, invariants, errorRequested, engine, tick,
                   healthThrew, counts>>

StopPublishers ==
    /\ lifecycle = "deactivating" /\ step = "publishers"
    /\ \/ publishers' = "off" /\ failed' = FALSE
       \/ /\ publishers # "off" /\ failed' = TRUE
          /\ publishers' \in {"off", "some", publishers}
    /\ step' = "engine"
    /\ UNCHANGED <<lifecycle, runner, result, bundle, healthPlane, dataPlane,
                   timerOn, invariants, errorRequested, errorSeen, engine,
                   tick, healthThrew, counts>>

\* The Deactivate event only takes the engine down with a SUCCESS result; an
\* engine that refuses it is an error as well.
DeactivateEngine ==
    /\ lifecycle = "deactivating" /\ step = "engine"
    /\ step' = "none"
    /\ \/ /\ ~failed /\ ~errorSeen /\ configured /\ active
          /\ result' = "SUCCESS" /\ active' = FALSE
       \/ result' = "ERROR" /\ UNCHANGED active
    /\ UNCHANGED <<lifecycle, runner, failed, node, configured, tick,
                   healthThrew, counts>>

\* on_cleanup resets the node to what its constructor leaves behind.
CleanedUp ==
    /\ ~active
    /\ bundle' = 0 /\ healthPlane' = FALSE /\ dataPlane' = FALSE
    /\ timerOn' = FALSE /\ publishers' = "off" /\ invariants' = TRUE
    /\ errorRequested' = FALSE
    /\ configured' = FALSE
    /\ UNCHANGED <<errorSeen, active>>

\* The engine refuses its Cleanup event, as it does while it is active: the
\* exception leaves on_cleanup in the middle.
CleanupThrows ==
    /\ configured
    /\ healthPlane' = FALSE /\ dataPlane' = FALSE
    /\ timerOn' = FALSE /\ publishers' = "off"
    /\ UNCHANGED <<bundle, invariants, errorRequested, errorSeen, engine>>

OnCleanup ==
    /\ lifecycle = "inactive" /\ runner = "none" /\ ThreadFree
    /\ \/ CleanedUp /\ lifecycle' = "unconfigured" /\ UNCHANGED runner
       \/ /\ CleanupThrows
          /\ lifecycle' = "errorprocessing" /\ runner' = "service"
    /\ UNCHANGED <<result, step, failed, tick, healthThrew, counts>>

\* Mutant of OnError: the engine is not taken out of its active state.
OnErrorDirect ==
    /\ lifecycle = "errorprocessing" /\ result = "none"
    /\ CleanedUp
    /\ result' = "SUCCESS"
    /\ UNCHANGED <<lifecycle, runner, step, failed, tick, healthThrew, counts>>

\* on_error: the engine leaves its active state, then on_cleanup.
OnError ==
    /\ lifecycle = "errorprocessing" /\ result = "none"
    /\ \/ /\ active
          /\ active' = FALSE
          /\ UNCHANGED <<node, configured, result>>
       \/ CleanedUp /\ result' = "SUCCESS"
       \/ CleanupThrows /\ result' = "ERROR"
    /\ UNCHANGED <<lifecycle, runner, step, failed, tick, healthThrew, counts>>

\* There is no on_shutdown: rclcpp_lifecycle succeeds without it, and leaves
\* everything as it is.
Shutdown ==
    /\ lifecycle \in PrimaryStates \ {"finalized"}
    /\ runner = "none" /\ ThreadFree
    /\ lifecycle' = "finalized"
    /\ UNCHANGED <<runner, result, step, failed, node, engine, tick,
                   healthThrew, counts>>

CallbackStep ==
    \/ Finish
    \/ OnActivate \/ CloseGate \/ StopPublishers \/ DeactivateEngine \/ OnError

LifecycleStep ==
    \/ CallbackStep
    \/ OnConfigure \/ StartActivate \/ StartDeactivate \/ OnCleanup
    \/ Shutdown

-----------------------------------------------------------------------------
(***************************************************************************)
(* run_output_tick: one critical section decides, a second one publishes   *)
(* unless the node has moved on; an ERROR decision and an exception both   *)
(* end in request_lifecycle_error.                                         *)
(***************************************************************************)
TickStarts == tick.at = "idle" /\ timerOn /\ dataPlane /\ ThreadFree

ActiveGatewayComplete ==
    bundle # 0 /\ configured /\ active /\ publishers = "on"

TickDecides ==
    /\ TickStarts /\ ActiveGatewayComplete
    /\ tick' = [at |-> "decided", bundle |-> bundle,
                error |-> ~invariants]
    /\ UNCHANGED <<transition, node, engine, healthThrew, counts>>

PublishAllowed ==
    dataPlane /\ bundle = tick.bundle /\ publishers = "on"

TickPublishes ==
    /\ tick.at = "decided" /\ PublishAllowed
    /\ tick' = IF tick.error THEN [tick EXCEPT !.at = "requesting"]
               ELSE IdleTick
    /\ UNCHANGED <<transition, node, engine, healthThrew, counts>>

TickDiscards ==
    /\ tick.at = "decided" /\ ~PublishAllowed
    /\ tick' = IdleTick
    /\ UNCHANGED <<transition, node, engine, healthThrew, counts>>

\* An exception: an incomplete active gateway, any other one while deciding,
\* or publish() itself.
TickThrows ==
    /\ TickStarts \/ (tick.at = "decided" /\ PublishAllowed)
    /\ tick' = [tick EXCEPT !.at = "threw"]
    /\ UNCHANGED <<transition, node, engine, healthThrew, counts>>

TickFails ==
    /\ tick.at = "threw"
    /\ invariants' = FALSE
    /\ tick' = [tick EXCEPT !.at = "requesting"]
    /\ UNCHANGED <<transition, bundle, healthPlane, dataPlane, timerOn,
                   publishers, errorRequested, errorSeen, engine,
                   healthThrew, counts>>

\* request_lifecycle_error: close the gate, cancel the timer it found there.
RequestLifecycleError ==
    /\ tick.at = "requesting"
    /\ errorRequested' = TRUE /\ dataPlane' = FALSE
    /\ tick' = [tick EXCEPT !.at = "cancelling", !.bundle = bundle]
    /\ UNCHANGED <<transition, bundle, healthPlane, timerOn, publishers,
                   invariants, errorSeen, engine, healthThrew, counts>>

CancelTimer ==
    /\ tick.at = "cancelling"
    /\ timerOn' = (timerOn /\ bundle # tick.bundle)
    /\ tick' = [tick EXCEPT !.at = "triggering"]
    /\ UNCHANGED <<transition, bundle, healthPlane, dataPlane, publishers,
                   invariants, errorRequested, errorSeen, engine, healthThrew,
                   counts>>

\* Mutant of TriggerDeactivate: the thread waits for the node to be active.
TriggerWaits ==
    /\ tick.at = "triggering"
    /\ StartTransition("active", "deactivating", "tick")
    /\ step' = "gate" /\ failed' = FALSE
    /\ tick' = [tick EXCEPT !.at = "running"]
    /\ UNCHANGED <<node, engine, healthThrew, counts>>

\* trigger_transition(DEACTIVATE): the callbacks run on the tick's thread; the
\* request has no effect unless the node is in its active state.
TriggerDeactivate ==
    /\ tick.at = "triggering"
    /\ \/ /\ StartTransition("active", "deactivating", "tick")
          /\ step' = "gate" /\ failed' = FALSE
          /\ tick' = [tick EXCEPT !.at = "running"]
       \/ /\ lifecycle # "active"
          /\ tick' = IdleTick
          /\ UNCHANGED transition
    /\ UNCHANGED <<node, engine, healthThrew, counts>>

TickReturnStep ==
    \/ TickPublishes \/ TickDiscards \/ TickFails
    \/ RequestLifecycleError \/ CancelTimer \/ TriggerDeactivate

TickStep == TickReturnStep \/ TickDecides \/ TickThrows

\* A health or source callback throws under runtime_mutex_ and takes it again
\* in its catch block, where the configuration may be another one.
HealthCallbackThrows ==
    /\ healthPlane /\ ~healthThrew /\ ThreadFree
    /\ healthThrew' = TRUE
    /\ UNCHANGED <<transition, node, engine, tick, counts>>

HealthCallbackFails ==
    /\ healthThrew
    /\ healthThrew' = FALSE
    /\ invariants' = FALSE
    /\ UNCHANGED <<transition, bundle, healthPlane, dataPlane, timerOn,
                   publishers, errorRequested, errorSeen, engine, tick,
                   counts>>

Next ==
    LifecycleStep \/ TickStep \/ HealthCallbackThrows \/ HealthCallbackFails

Spec == Init /\ [][Next]_vars

(***************************************************************************)
(* A callback that has started runs on.  Nothing obliges an operator to    *)
(* request a transition, a callback to fail, or the gates to open.         *)
(***************************************************************************)
FairSpec == Spec /\ WF_vars(CallbackStep) /\ WF_vars(TickReturnStep)

-----------------------------------------------------------------------------
StagesTyped ==
    /\ lifecycle \in PrimaryStates \cup TransitionStates
    /\ runner \in {"none", "service", "tick"}
    /\ result \in {"none", "SUCCESS", "FAILURE", "ERROR"}
    /\ step \in {"none", "gate", "publishers", "engine"}
    /\ publishers \in {"off", "some", "on"}
    /\ tick \in Ticks
    /\ bundle \in Nat /\ bundles \in Nat /\ activations \in Nat

FlagsTyped ==
    /\ failed \in BOOLEAN /\ healthPlane \in BOOLEAN
    /\ dataPlane \in BOOLEAN /\ timerOn \in BOOLEAN
    /\ invariants \in BOOLEAN
    /\ errorRequested \in BOOLEAN /\ errorSeen \in BOOLEAN
    /\ configured \in BOOLEAN /\ active \in BOOLEAN
    /\ healthThrew \in BOOLEAN

TypeOK == StagesTyped /\ FlagsTyped

(***************************************************************************)
(* Whenever the data plane is open, everything a tick uses is there: the   *)
(* check for an incomplete active gateway in run_output_tick never fires,  *)
(* whatever transition is running on the other thread or was the last one. *)
(* A node that was shut down while it was active is open, too.             *)
(***************************************************************************)
OpenGate ==
    dataPlane =>
        /\ ActiveGatewayComplete /\ healthPlane
        /\ \/ lifecycle \in {"active", "finalized"}
           \/ lifecycle = "activating" /\ result = "SUCCESS"
           \/ lifecycle = "deactivating" /\ step = "gate"

(***************************************************************************)
(* The engine follows the lifecycle, or the node knows that it does not:   *)
(* after whatever transitions, complete or failed half-way, an inactive    *)
(* node has a configuration and a closed gate, and an engine that is still *)
(* active under it has broken the invariant, without which no activation   *)
(* is committed; an active node has everything and an unconfigured one     *)
(* nothing.                                                                *)
(***************************************************************************)
Resting ==
    /\ healthPlane /\ bundle # 0 /\ configured
    /\ ~dataPlane /\ ~timerOn
    /\ active => ~invariants

EngineFollowsLifecycle ==
    /\ lifecycle = "inactive" \/ Activating => Resting
    /\ lifecycle = "active" => ActiveGatewayComplete
    /\ lifecycle = "unconfigured" =>
          bundle = 0 /\ ~configured /\ ~active /\ publishers = "off"

(***************************************************************************)
(* A tick only publishes from an engine and publishers that are all on,    *)
(* and never in a node that was deactivated, that failed to activate or    *)
(* was cleaned up since it decided.  Only SHUTDOWN leaves them on.         *)
(***************************************************************************)
PublishOnlyActivated ==
    [][TickPublishes => ActiveGatewayComplete
                        /\ lifecycle \notin {"unconfigured", "inactive",
                                             "errorprocessing"}]_vars

\* Liveness: a transition that has started ends in a primary state, even when
\* the tick's own thread runs it.
TransitionsComplete == lifecycle \in TransitionStates
                          ~> lifecycle \in PrimaryStates

\* Liveness: a tick returns, so that its callback group is free again.
TickReturns == tick.at # "idle" ~> tick.at = "idle"

-----------------------------------------------------------------------------
(***************************************************************************)
(* The inductive strengthening of OpenGate and EngineFollowsLifecycle that *)
(* the proofs rest on: what each stage of a transition finds and leaves.   *)
(***************************************************************************)
Shut == bundle = 0 /\ ~configured /\ ~active /\ publishers = "off"

Deactivating ==
    /\ bundle # 0 /\ configured /\ healthPlane
    /\ step # "none" => active /\ result = "none"
    /\ step = "none" => result \in {"SUCCESS", "ERROR"}
    /\ step = "gate" => publishers = "on"
    /\ step # "gate" => ~dataPlane /\ ~timerOn
    /\ result = "SUCCESS" => ~active

\* The output timer only runs under an activation.
TimerStops ==
    timerOn =>
        \/ lifecycle \in {"active", "finalized"}
        \/ lifecycle = "activating" /\ result = "SUCCESS"
        \/ lifecycle = "deactivating" /\ step = "gate"

StagesInOrder ==
    /\ result # "none" => lifecycle \in TransitionStates
    /\ lifecycle = "active" => healthPlane
    /\ lifecycle = "activating" =>
          /\ result = "SUCCESS" => ActiveGatewayComplete /\ healthPlane
          /\ result = "FAILURE" => Resting
    /\ lifecycle = "deactivating" => Deactivating
    /\ lifecycle = "errorprocessing" =>
          /\ result \in {"none", "SUCCESS", "ERROR"}
          /\ result = "SUCCESS" => Shut

NodeInv ==
    /\ TypeOK /\ OpenGate /\ EngineFollowsLifecycle /\ TimerStops
    /\ StagesInOrder

-----------------------------------------------------------------------------
(***************************************************************************)
(* The safety half of TransitionsComplete and TickReturns, whose other     *)
(* half is that the threads run: whatever the interleaving, the callback   *)
(* that is due finds its guard open, and no step undoes what was done.     *)
(***************************************************************************)
\* Each transition has one thread, a tick's own one if that asked for it.
RunnersInOrder ==
    /\ runner = "none" <=> lifecycle \in PrimaryStates
    /\ tick.at = "running" <=> runner = "tick"

CallbackDue ==
    \/ result # "none"
    \/ lifecycle \in {"activating", "errorprocessing"}
    \/ lifecycle = "deactivating" /\ step # "none"

\* A tick that does not run a transition asks for one or needs none.
NobodyStuck ==
    /\ lifecycle \in TransitionStates => CallbackDue
    /\ tick.at = "running" => lifecycle \in TransitionStates
    /\ tick.at = "triggering" => lifecycle # "active" \/ runner = "none"

\* The callback steps that a transition has before it, and a tick's.
StepsOfStage == [gate |-> 7, publishers |-> 6, engine |-> 5, none |-> 0]

StepsLeft ==
    IF lifecycle \in PrimaryStates THEN 0
    ELSE IF result # "none" THEN IF Processed THEN 4 ELSE 1
    ELSE IF lifecycle = "errorprocessing" THEN IF active THEN 3 ELSE 2
    ELSE IF lifecycle = "activating" THEN 5
    ELSE StepsOfStage[step]

StepsOfTick == [decided |-> 6, threw |-> 5, requesting |-> 4,
                cancelling |-> 3, triggering |-> 2, running |-> 1, idle |-> 0]

\* A transition ends after seven callback steps at the latest, a tick after
\* six of its own and those of the transition it has asked for.
ProgressBounded ==
    [][/\ lifecycle \in TransitionStates =>
            IF CallbackStep THEN StepsLeft' < StepsLeft
                            ELSE StepsLeft' = StepsLeft
       /\ tick.at # "idle" =>
            \/ tick' = tick
            \/ StepsOfTick[tick'.at] < StepsOfTick[tick.at]]_vars
=============================================================================
