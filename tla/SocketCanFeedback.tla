------------------------- MODULE SocketCanFeedback -------------------------
(***************************************************************************)
(* The feedback path of the SocketCAN adapter: the I/O thread hands CAN    *)
(* state frames and fatal errors to handlers that share runtime_mutex_     *)
(* with the ROS callbacks, which publish VehicleState and diagnostics.     *)
(* Each critical section is a step.  The command path of the same adapter  *)
(* is SocketCanTransmit; its callbacks appear here with what they do to    *)
(* the canonical state.                                                    *)
(***************************************************************************)
EXTENDS CanonicalInput, RollingCounter

CONSTANTS
    CanTimeout,      \* adapter.can_state_frame_timeout_ms
    RecoveryFrames   \* adapter.recovery_valid_frames

ASSUME FeedbackAssumption ==
    /\ CanTimeout \in Nat \ {0}
    /\ RecoveryFrames \in Nat \ {0}

VARIABLES
    baseline,        \* last_counter_ of state_counter_checker_
    healthy,         \* can_link_healthy_
    recovered,       \* can_recovery_valid_count_
    latest,          \* signals of latest_valid_can_state_
    age,             \* since latest was received, or since the start
    timedOut,        \* can_state_timed_out_
    fatal,           \* fatal_can_io_
    receiving,       \* the I/O thread runs
    exited,          \* an exception has left rclcpp::spin
    published,       \* the last VehicleState: its state and fault code
    lastFrame, row   \* history: counter of the last frame on the bus, and how
                     \* many frames up to it were valid and consecutive

link == <<baseline, healthy, recovered, latest, age, timedOut, fatal>>
outside == <<receiving, exited, published, lastFrame, row>>
feedback == <<canonical, link, outside>>

\* What a decoded frame says of the vehicle.
Signals == {"driving", "safe_stop", "fault"}

Reports ==
    {"Nothing", "CanIo", "CanTimeout", "VehicleFault", "Ambiguous", "Invalid",
     "CanonicalTimeout", "SafeStop", "Driving"}

FeedbackInit ==
    /\ CanonicalInit
    /\ baseline = None /\ healthy = FALSE /\ recovered = 0
    /\ latest = None /\ age = 0
    /\ timedOut = FALSE /\ fatal = FALSE
    /\ receiving = TRUE /\ exited = FALSE /\ published = "Nothing"
    /\ lastFrame = None /\ row = 0

-----------------------------------------------------------------------------
(***************************************************************************)
(* The I/O thread.                                                         *)
(***************************************************************************)
\* RollingCounterChecker::observe: what is accepted, and the new baseline.
Accepted(counter) == baseline \in {None, Pred(counter)}

Baseline(counter) ==
    IF Accepted(counter) \/ counter = baseline THEN counter ELSE None

\* Mutant of CountAfterReject: only an undecodable frame starts over.
CountKept == recovered

CountAfterReject == 0

CountAfterAccept ==
    IF ~healthy /\ recovered < RecoveryFrames THEN recovered + 1
    ELSE recovered

HandleCanFrame(counter, signals) ==
    /\ receiving
    /\ baseline' = Baseline(counter)
    /\ \/ /\ Accepted(counter)
          /\ latest' = signals /\ age' = 0 /\ timedOut' = FALSE
          /\ recovered' = CountAfterAccept
          /\ healthy' = (healthy \/ recovered' >= RecoveryFrames)
       \/ /\ ~Accepted(counter)
          /\ recovered' = CountAfterReject
          /\ UNCHANGED <<latest, age, timedOut, healthy>>
    /\ lastFrame' = counter
    /\ row' = IF lastFrame = Pred(counter)
              THEN Older(row, RecoveryFrames) ELSE 1
    /\ UNCHANGED <<canonical, fatal, receiving, exited, published>>

\* The codec rejects the frame.
HandleBadFrame ==
    /\ receiving
    /\ recovered' = 0
    /\ row' = 0
    /\ UNCHANGED <<canonical, baseline, healthy, latest, age, timedOut, fatal,
                   receiving, exited, published, lastFrame>>

\* Mutant of HandleCanError: the link keeps its state.
HandleCanErrorOnce ==
    /\ receiving
    /\ recovered' = 0 /\ baseline' = None
    /\ receiving' = FALSE
    /\ UNCHANGED <<canonical, healthy, latest, age, timedOut, fatal, exited,
                   published, lastFrame, row>>

\* A fatal error ends the I/O thread; an error that is not fatal is only
\* remembered for the diagnostics.
HandleCanError ==
    /\ receiving
    /\ fatal' = TRUE /\ healthy' = FALSE
    /\ recovered' = 0 /\ baseline' = None
    /\ receiving' = FALSE
    /\ UNCHANGED <<canonical, latest, age, timedOut, exited, published,
                   lastFrame, row>>

-----------------------------------------------------------------------------
(***************************************************************************)
(* The ROS thread.                                                         *)
(***************************************************************************)
Running == ~exited

\* Mutant of TimedOutNow: a frame is fresh when the timeout is reached.
TimedOutLate == age > CanTimeout

TimedOutNow == age >= CanTimeout

MarkCanTimeout ==
    IF TimedOutNow
    THEN /\ baseline' = IF timedOut THEN baseline ELSE None
         /\ timedOut' = TRUE /\ healthy' = FALSE /\ recovered' = 0
    ELSE UNCHANGED <<baseline, timedOut, healthy, recovered>>

CanonicalFault ==
    CASE Endpoint = "ambiguous" \/ rejected = "Ambiguous" -> "Ambiguous"
      [] Endpoint # "ambiguous" /\ rejected = "Invalid" -> "Invalid"
      [] Endpoint # "ambiguous" /\ rejected \in {"None", "Endpoint"} ->
            IF ~WatchdogHealthy \/ Endpoint \notin Publishers
            THEN "CanonicalTimeout" ELSE "None"

\* What canonical_fault_code_locked throws on.
HealthyWithoutCommand == CanonicalFault = "None" /\ command = None

VehicleFirst == latest = "fault" \/ ~healthy' \/ fatal

Composed ==
    CASE fatal -> "CanIo"
      [] ~fatal /\ ~healthy' -> "CanTimeout"
      [] ~fatal /\ healthy' /\ latest = "fault" -> "VehicleFault"
      [] ~VehicleFirst /\ CanonicalFault # "None" -> CanonicalFault
      [] ~VehicleFirst /\ CanonicalFault = "None" ->
            IF latest = "safe_stop" THEN "SafeStop" ELSE "Driving"

PublishVehicleState ==
    /\ Running
    /\ MarkCanTimeout
    /\ \/ /\ ~VehicleFirst /\ HealthyWithoutCommand
          /\ exited' = TRUE /\ receiving' = FALSE
          /\ UNCHANGED published
       \/ /\ VehicleFirst \/ ~HealthyWithoutCommand
          /\ published' = Composed
          /\ UNCHANGED <<exited, receiving>>
    /\ UNCHANGED <<canonical, latest, age, fatal, lastFrame, row>>

\* The diagnostics ask for the canonical fault whatever the state of the link.
PublishDiagnostics ==
    /\ Running
    /\ MarkCanTimeout
    /\ exited' = HealthyWithoutCommand
    /\ receiving' = (receiving /\ ~HealthyWithoutCommand)
    /\ UNCHANGED <<canonical, latest, age, fatal, published, lastFrame, row>>

PollEndpoint(observation) ==
    /\ Running
    /\ Poll(observation)
    /\ UNCHANGED <<link, outside>>

HandleCanonicalCommand(p, content) ==
    /\ Running
    /\ Accept(p, content) \/ Reject(p, content)
    /\ UNCHANGED <<link, outside>>

FeedbackTick ==
    /\ Running
    /\ CanonicalTime
    /\ age' = Older(age, CanTimeout)
    /\ UNCHANGED <<baseline, healthy, recovered, latest, timedOut, fatal,
                   outside>>

-----------------------------------------------------------------------------
FeedbackNext ==
    \/ \E counter \in Counters, signals \in Signals :
          HandleCanFrame(counter, signals)
    \/ HandleBadFrame \/ HandleCanError
    \/ PublishVehicleState \/ PublishDiagnostics
    \/ \E observation \in Observations : PollEndpoint(observation)
    \/ \E p \in Publishers, content \in Contents :
          HandleCanonicalCommand(p, content)
    \/ FeedbackTick

FeedbackSpec == FeedbackInit /\ [][FeedbackNext]_feedback

-----------------------------------------------------------------------------
(***************************************************************************)
(* The types of the adapter's fields and of the histories.                 *)
(***************************************************************************)
FeedbackTypeOK ==
    /\ CanonicalTyped
    /\ baseline \in Counters \cup {None}
    /\ healthy \in BOOLEAN /\ recovered \in 0 .. RecoveryFrames
    /\ latest \in Signals \cup {None}
    /\ age \in 0 .. CanTimeout
    /\ timedOut \in BOOLEAN /\ fatal \in BOOLEAN
    /\ receiving \in BOOLEAN /\ exited \in BOOLEAN
    /\ published \in Reports
    /\ lastFrame \in Counters \cup {None}
    /\ row \in 0 .. RecoveryFrames

(***************************************************************************)
(* The link only becomes healthy at the end of recovery_valid_frames       *)
(* frames in a row that were valid and had consecutive counters on the     *)
(* bus, whatever timeouts, rejections and new baselines came in between    *)
(* (handle_can_frame, RollingCounterChecker).                              *)
(***************************************************************************)
LinkProven == [][healthy' /\ ~healthy => row' = RecoveryFrames]_feedback

Publishes(report) == PublishVehicleState /\ ~exited' /\ published' = report

(***************************************************************************)
(* A VehicleState that shows the vehicle driving is backed by both         *)
(* directions: the I/O thread is alive, its last valid frame is younger    *)
(* than the timeout, and an accepted command of the confirmed gateway is   *)
(* within the local watchdog (compose_vehicle_state_locked).               *)
(***************************************************************************)
DrivingBacked ==
    [][Publishes("Driving")
         => receiving /\ age < CanTimeout /\ Authorized]_feedback

(***************************************************************************)
(* A SAFE_STOP without a fault code is never the answer to a lost gateway: *)
(* while no command is authorised the canonical fault is reported, which   *)
(* the gateway's bootstrap exception relies on                             *)
(* (compose_vehicle_state_locked).                                         *)
(***************************************************************************)
CanonicalFaultVisible ==
    [][Publishes("SafeStop") => Authorized]_feedback

(***************************************************************************)
(* Once the I/O thread has died every VehicleState says so                 *)
(* (handle_can_error).                                                     *)
(***************************************************************************)
DeathReported ==
    [][PublishVehicleState /\ ~receiving => published' = "CanIo"]_feedback

(***************************************************************************)
(* The assertion in canonical_fault_code_locked: "healthy SocketCAN        *)
(* adapter watchdog has no accepted canonical command" is never thrown.    *)
(***************************************************************************)
HealthyImpliesCommand == ~exited
-----------------------------------------------------------------------------
(***************************************************************************)
(* The inductive strengthening: the recovery count is covered by the row   *)
(* of frames on the bus, and an I/O thread only ends with a fatal error or *)
(* with the process.                                                       *)
(***************************************************************************)
RowCovers ==
    /\ recovered <= row
    /\ baseline = None => recovered = 0
    /\ baseline # None => lastFrame = baseline

DeathKnown == receiving \/ fatal \/ exited

FeedbackInv == FeedbackTypeOK /\ CanonicalInv /\ RowCovers /\ DeathKnown
=============================================================================
