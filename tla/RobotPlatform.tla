--------------------------- MODULE RobotPlatform ---------------------------
(***************************************************************************)
(* What the ros2_control adapter believes of the robot below it: the       *)
(* endpoint of its controller, the hardware component that the controller  *)
(* manager reports, odometry and TF, and the fault code it makes of them.  *)
(* The adapter spins on one thread, so every callback is one step; timers  *)
(* are assumed to run once in every unit of time.                          *)
(***************************************************************************)
EXTENDS Integers

CONSTANTS
    Controllers,      \* GIDs of the expected controller's subscription
    Nothing,          \* an empty std::optional
    ControllerWindow, \* gateway.graph_stable_window_ms
    StateTimeout,     \* health.controller_state_timeout_ms
    OdometryTimeout   \* health.odometry_timeout_ms

ASSUME PlatformAssumption ==
    /\ Nothing \notin Controllers \cup {"ambiguous", "absent", "misfit"}
    /\ Controllers \cap {"ambiguous", "absent", "misfit"} = {}
    /\ Nothing \notin Int /\ Nothing \notin STRING
    /\ ControllerWindow \in Nat \ {0}
    /\ StateTimeout \in Nat \ {0} /\ OdometryTimeout \in Nat \ {0}

VARIABLES
    controller,  \* ControllerEndpointMonitor
    hardware,    \* HardwareComponentMonitor
    request,     \* the pending list_hardware_components, if there is one
    odometry,    \* age of latest_valid_odometry_, Nothing while
                 \* latest_odometry_sample_valid_ is false
    tf,          \* tf_health_snapshot_
    left,        \* the timers that are yet to run in this unit of time
    shown,       \* history: since a look showed a controller alone, by GID
    truth        \* history: since the manager saw what hardware says

platformVars ==
    <<controller, hardware, request, odometry, tf, left, shown, truth>>

PlatformTimers == {"controller", "hardware"}

\* Bounds of the histories and of the age of a request.
TooOld == 2 * StateTimeout + 2
Unseen == StateTimeout + 2
GivenUp == StateTimeout + 3

NewController ==
    [stable |-> Nothing, candidate |-> Nothing, candidateAge |-> 0,
     confirmedAge |-> 0, ever |-> FALSE, state |-> "unavailable"]

PlatformInit ==
    /\ controller = NewController
    /\ hardware = [state |-> "unavailable", age |-> 0]
    /\ request = Nothing
    /\ odometry = Nothing
    /\ tf = "unavailable"
    /\ left = PlatformTimers
    /\ shown = [c \in Controllers |-> Unseen] /\ truth = TooOld

Aged(age, limit) == IF age < limit THEN age + 1 ELSE age

-----------------------------------------------------------------------------
(***************************************************************************)
(* ControllerEndpointMonitor::observe.  A look shows one subscription that *)
(* fits, several, the controller's node with a subscription that does not  *)
(* fit, or nothing of that node.                                           *)
(***************************************************************************)
ControllerViews == Controllers \cup {"ambiguous", "misfit", "absent"}

NoCandidate(c) == [c EXCEPT !.candidate = Nothing, !.candidateAge = 0]

Confirm(gid) ==
    [stable |-> gid, candidate |-> Nothing, candidateAge |-> 0,
     confirmedAge |-> 0, ever |-> TRUE, state |-> "healthy"]

\* Mutant of Linger: an endpoint that is not seen counts as confirmed.
LingerConfirmed(c) ==
    [NoCandidate(c) EXCEPT !.state = "healthy", !.confirmedAge = 0]

\* Discovery may miss an endpoint for a while.
Linger(c) == [NoCandidate(c) EXCEPT !.state = "healthy"]

Lingers(c, view) ==
    view = "absent" /\ c.stable # Nothing /\ c.confirmedAge <= StateTimeout

Lose(c, view) ==
    [NoCandidate(c) EXCEPT
        !.stable = Nothing,
        !.state = IF view = "absent" /\ c.ever THEN "timedOut"
                  ELSE "unavailable"]

Stabilize(c, gid) ==
    IF gid # c.candidate
    THEN [c EXCEPT !.candidate = gid, !.candidateAge = 0,
                   !.state = "stabilizing"]
    ELSE [c EXCEPT !.state = "stabilizing"]

Proven(c, gid) ==
    \/ c.stable = gid
    \/ c.candidate = gid /\ c.candidateAge >= ControllerWindow

ObserveController(c, view) ==
    CASE view = "ambiguous" -> [NoCandidate(c) EXCEPT !.state = "ambiguous"]
      [] Lingers(c, view) -> Linger(c)
      [] view \in {"absent", "misfit"} /\ ~Lingers(c, view) -> Lose(c, view)
      [] view \in Controllers /\ Proven(c, view) -> Confirm(view)
      [] view \in Controllers /\ ~Proven(c, view) -> Stabilize(c, view)

PollControllerEndpoint(view) ==
    /\ controller' = ObserveController(controller, view)
    /\ left' = left \ {"controller"}
    /\ shown' = [c \in Controllers |-> IF c = view THEN 0 ELSE shown[c]]
    /\ UNCHANGED <<hardware, request, odometry, tf, truth>>

-----------------------------------------------------------------------------
(***************************************************************************)
(* The hardware component: one request at a time, to a manager that        *)
(* answers late or never.  An answer without the component, or with two of *)
(* its name, counts like an inactive one.                                  *)
(***************************************************************************)
Answers == {"healthy", "inactive"}

\* Mutant of Overdue: a request is given up when an answer is there.
OverdueAnswered == request.age > StateTimeout /\ request.answer # Nothing

NewRequest == [age |-> 0, answer |-> Nothing, since |-> 0]

Overdue == request.age > StateTimeout

PollHardwareComponent(ready) ==
    /\ left' = left \ {"hardware"}
    /\ \/ /\ request # Nothing /\ Overdue
          /\ request' = Nothing
       \/ /\ request # Nothing /\ ~Overdue
          /\ UNCHANGED request
       \/ /\ request = Nothing
          /\ request' = IF ready THEN NewRequest ELSE Nothing
    /\ UNCHANGED <<controller, hardware, odometry, tf, shown, truth>>

\* The controller manager, external: it looks at its components, and the
\* answer travels.
ManagerAnswers(answer) ==
    /\ request # Nothing /\ request.answer = Nothing
    /\ request' = [request EXCEPT !.answer = answer]
    /\ UNCHANGED <<controller, hardware, odometry, tf, left, shown, truth>>

HandleHardwareComponentResponse ==
    /\ request # Nothing /\ request.answer # Nothing
    /\ hardware' = [state |-> request.answer, age |-> 0]
    /\ request' = Nothing
    /\ truth' = request.since
    /\ UNCHANGED <<controller, odometry, tf, left, shown>>

\* HardwareComponentMonitor::assess.
HardwareHealth ==
    IF hardware.state # "unavailable" /\ hardware.age > StateTimeout
    THEN "timedOut" ELSE hardware.state

-----------------------------------------------------------------------------
(***************************************************************************)
(* Odometry and TF.  The age of a sample is the larger one of the times    *)
(* since it was stamped and since it was received.                         *)
(***************************************************************************)
Stamps == 0 .. OdometryTimeout

HandleOdometry(valid, age) ==
    /\ odometry' = IF valid THEN age ELSE Nothing
    /\ UNCHANGED <<controller, hardware, request, tf, left, shown, truth>>

OdometryIsHealthy == odometry # Nothing /\ odometry <= OdometryTimeout

\* publish_vehicle_state looks up the transform; the controller command
\* uses the result of its last lookup.
AssessTf(state) ==
    /\ tf' = state
    /\ UNCHANGED <<controller, hardware, request, odometry, left, shown,
                   truth>>

TfStates == {"healthy", "unavailable", "stale"}

(***************************************************************************)
(* platform_fault_code, while ROS time is positive.                        *)
(***************************************************************************)
PlatformFault ==
    CASE HardwareHealth \in {"unavailable", "timedOut"} ->
            "HardwareStateTimeout"
      [] HardwareHealth = "inactive" -> "HardwareInactive"
      [] HardwareHealth = "healthy" /\ controller.state # "healthy" ->
            IF controller.state = "timedOut" THEN "ControllerStateTimeout"
            ELSE "ControllerUnavailable"
      [] HardwareHealth = "healthy" /\ controller.state = "healthy" ->
            CASE ~OdometryIsHealthy -> "OdometryTimeout"
              [] OdometryIsHealthy /\ tf = "healthy" -> "None"
              [] OdometryIsHealthy /\ tf = "unavailable" -> "TfUnavailable"
              [] OdometryIsHealthy /\ tf = "stale" -> "TfStale"

-----------------------------------------------------------------------------
PlatformTick ==
    /\ left = {} /\ left' = PlatformTimers
    /\ controller' =
         [controller EXCEPT
            !.candidateAge = IF controller.candidate = Nothing THEN 0
                             ELSE Aged(@, ControllerWindow),
            !.confirmedAge = IF controller.stable = Nothing THEN 0
                             ELSE Aged(@, StateTimeout + 1)]
    /\ hardware' = [hardware EXCEPT !.age = Aged(@, StateTimeout + 1)]
    /\ request' = IF request = Nothing THEN Nothing
                  ELSE [request EXCEPT
                          !.age = Aged(@, GivenUp),
                          !.since = IF request.answer = Nothing THEN 0
                                    ELSE Aged(@, GivenUp)]
    /\ odometry' = IF odometry = Nothing THEN Nothing
                   ELSE Aged(odometry, OdometryTimeout + 1)
    /\ shown' = [c \in Controllers |-> Aged(shown[c], Unseen)]
    /\ truth' = Aged(truth, TooOld)
    /\ UNCHANGED tf

PlatformNext ==
    \/ \E view \in ControllerViews : PollControllerEndpoint(view)
    \/ \E ready \in BOOLEAN : PollHardwareComponent(ready)
    \/ \E answer \in Answers : ManagerAnswers(answer)
    \/ HandleHardwareComponentResponse
    \/ \E valid \in BOOLEAN, age \in Stamps : HandleOdometry(valid, age)
    \/ \E state \in TfStates : AssessTf(state)
    \/ PlatformTick

PlatformSpec == PlatformInit /\ [][PlatformNext]_platformVars

-----------------------------------------------------------------------------
(***************************************************************************)
(* The types of the adapter's platform fields and of the histories.        *)
(***************************************************************************)
Monitors ==
    [stable : Controllers \cup {Nothing},
     candidate : Controllers \cup {Nothing},
     candidateAge : 0 .. ControllerWindow,
     confirmedAge : 0 .. StateTimeout + 1,
     ever : BOOLEAN,
     state : {"unavailable", "stabilizing", "healthy", "ambiguous",
              "timedOut"}]

Requests == [age : 0 .. GivenUp, answer : Answers \cup {Nothing},
             since : 0 .. GivenUp]

PlatformTypeOK ==
    /\ controller \in Monitors
    /\ hardware \in [state : Answers \cup {"unavailable"},
                     age : 0 .. StateTimeout + 1]
    /\ request \in Requests \cup {Nothing}
    /\ odometry \in 0 .. OdometryTimeout + 1 \cup {Nothing}
    /\ tf \in TfStates /\ left \in SUBSET PlatformTimers
    /\ shown \in [Controllers -> 0 .. Unseen] /\ truth \in 0 .. TooOld

(***************************************************************************)
(* A platform without a fault was really there: the controller was seen    *)
(* within its timeout and a poll, the manager saw the hardware active      *)
(* within the life of one request and one answer, however late answers and *)
(* however patchy discovery was (platform_fault_code).                     *)
(***************************************************************************)
PlatformBacked ==
    PlatformFault = "None" =>
        /\ shown[controller.stable] <= StateTimeout + 1
        /\ truth <= 2 * StateTimeout + 1
        /\ odometry \in 0 .. OdometryTimeout

(***************************************************************************)
(* A manager that dies with a request does not end the supervision of the  *)
(* hardware: the request is given up within two polls of its timeout, so   *)
(* that another one can be sent (poll_hardware_component).                 *)
(***************************************************************************)
RequestsReleased == request # Nothing => request.age < GivenUp

-----------------------------------------------------------------------------
(***************************************************************************)
(* The inductive strengthening that the proofs rest on.                    *)
(***************************************************************************)
\* A timer that is yet to run in this unit of time lets things age by one.
Slack(timer) == IF timer \in left THEN 1 ELSE 0

\* The confirmed controller was seen when its age says, and lingers no longer
\* than the timeout and the time to the next poll.
ControllerSeen ==
    /\ controller.stable # Nothing /\ controller.confirmedAge <= StateTimeout
         => shown[controller.stable] <= controller.confirmedAge
    /\ controller.state = "healthy"
         => /\ controller.stable # Nothing
            /\ controller.confirmedAge <= StateTimeout + Slack("controller")
            /\ shown[controller.stable] <= StateTimeout + Slack("controller")

\* A request lives no longer than the timeout and the time to the next poll,
\* and its answer is no older than it is.
RequestAges ==
    request # Nothing
        => /\ request.age <= StateTimeout + Slack("hardware")
           /\ request.since <= request.age

\* What the hardware is believed to be was so when the request that asked for
\* it was alive.
HardwareTrue ==
    hardware.state # "unavailable" /\ hardware.age <= StateTimeout
        => truth <= hardware.age + StateTimeout + 1

PlatformInv ==
    PlatformTypeOK /\ ControllerSeen /\ RequestAges /\ HardwareTrue
=============================================================================
