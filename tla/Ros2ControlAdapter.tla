------------------------ MODULE Ros2ControlAdapter ------------------------
(***************************************************************************)
(* The robot's execution adapter, from canonical commands to controller    *)
(* commands and VehicleState.  Everything runs in serial ROS callbacks.    *)
(* What it believes of the robot below it (RobotPlatform) is one verdict   *)
(* here, which may change at any time.                                     *)
(***************************************************************************)
EXTENDS CanonicalInput

VARIABLES
    platform,   \* whether platform_fault_code finds a fault
    report,     \* history: the last VehicleState it published
    output      \* history: the last controller command it published

adapter == <<canonical, platform, report, output>>

AdapterInit ==
    /\ CanonicalInit
    /\ platform = "Fault" /\ report = None /\ output = "zero"

-----------------------------------------------------------------------------
(***************************************************************************)
(* poll_canonical_endpoint: a new publisher starts over.  The loss of a    *)
(* confirmed one changes nothing here: the endpoint's state alone keeps    *)
(* the command it left from being executed.                                *)
(***************************************************************************)
\* Mutant of StartsOver: the watchdog of the previous gateway runs on.
StartsOverButWatchdog ==
    /\ confirmed' = Endpoint'
    /\ command' = None /\ rejected' = "None" /\ UNCHANGED silence

StartsOver ==
    /\ confirmed' = Endpoint'
    /\ command' = None /\ rejected' = "None" /\ silence' = None

PollCanonicalEndpoint(observation) ==
    /\ Observe(observation)
    /\ \/ NewPublisher /\ StartsOver
       \/ ~NewPublisher /\ UNCHANGED mailbox
    /\ author' = IF command' = None THEN None ELSE author
    /\ seen' = observation
    /\ span' = IF observation = seen THEN span ELSE 0
    /\ UNCHANGED <<platform, report, output>>

HandleCanonicalCommand(p, content) ==
    /\ Accept(p, content) \/ Reject(p, content)
    /\ UNCHANGED <<platform, report, output>>

\* The verdict of RobotPlatform changes.
PlatformChanges ==
    /\ platform' = IF platform = "None" THEN "Fault" ELSE "None"
    /\ UNCHANGED <<canonical, report, output>>

(***************************************************************************)
(* current_fault_code: the endpoint, the last rejection, the platform and  *)
(* the watchdog, in this order.  "Throws" is the assertion at its end.     *)
(***************************************************************************)
\* Mutant of FaultCode: the endpoint is not asked again.
FaultCodeUnasked ==
    CASE rejected # "None" -> "Invalid"
      [] rejected = "None" /\ platform = "Fault" -> "Platform"
      [] rejected = "None" /\ platform = "None" ->
            CASE ~WatchdogHealthy -> "Timeout"
              [] WatchdogHealthy /\ command = None -> "Throws"
              [] WatchdogHealthy /\ command # None -> "None"

FaultCode ==
    CASE Endpoint = "ambiguous" \/ rejected = "Ambiguous" -> "Ambiguous"
      [] Endpoint \in {"unavailable", "unstable"} /\ rejected # "Ambiguous" ->
            "Invalid"
      [] Endpoint \in Publishers /\ rejected \in {"Endpoint", "Invalid"} ->
            "Invalid"
      [] Endpoint \in Publishers /\ rejected = "None" /\ platform = "Fault" ->
            "Platform"
      [] Endpoint \in Publishers /\ rejected = "None" /\ platform = "None" ->
            CASE ~WatchdogHealthy -> "Timeout"
              [] WatchdogHealthy /\ command = None -> "Throws"
              [] WatchdogHealthy /\ command # None -> "None"

PublishControllerCommand ==
    /\ output' = IF FaultCode = "None" /\ command = "motion"
                 THEN "motion" ELSE "zero"
    /\ UNCHANGED <<canonical, platform, report>>

\* An adapter without ROS time publishes nothing.
PublishVehicleState ==
    /\ report' = CASE FaultCode # "None" -> FaultCode
                   [] FaultCode = "None" /\ command = "hold" -> "standby"
                   [] FaultCode = "None" /\ command = "motion" -> "running"
    /\ UNCHANGED <<canonical, platform, output>>

AdapterTime == CanonicalTime /\ UNCHANGED <<platform, report, output>>

AdapterTyped ==
    /\ CanonicalTyped
    /\ platform \in {"None", "Fault"}
    /\ report \in {None, "Ambiguous", "Invalid", "Platform", "Timeout",
                   "Throws", "standby", "running"}
    /\ output \in {"zero", "motion"}

-----------------------------------------------------------------------------
(***************************************************************************)
(* A controller command that moves the robot was sent, within the          *)
(* watchdog's timeout, by the gateway that is confirmed when it is         *)
(* published, although a command outlives the loss of its publisher        *)
(* (publish_controller_command).                                           *)
(***************************************************************************)
MotionOfConfirmed ==
    [][PublishControllerCommand /\ output' = "motion" =>
         /\ author = Endpoint /\ stable = seen
         /\ silence \in 0 .. WatchdogTimeout]_adapter

(***************************************************************************)
(* No sequence of polls and commands leaves a healthy watchdog without a   *)
(* command, which would throw out of two timer callbacks.                  *)
(***************************************************************************)
NoThrow == FaultCode # "Throws"

-----------------------------------------------------------------------------
(***************************************************************************)
(* What the proofs rest on.  The command may outlive its publisher's       *)
(* confirmation, but never the note that was taken of its publisher, and   *)
(* a watchdog that was fed has a command unless one was rejected since.    *)
(***************************************************************************)
CommandOfNoted == command # None => author = confirmed

FedByCommand == silence # None /\ rejected = "None" => command # None

AdapterInv ==
    /\ ReportedIsConfirmed /\ CandidateSeen
    /\ CommandOfNoted /\ FedByCommand
=============================================================================
