------------------------------ MODULE RosClock ------------------------------
(***************************************************************************)
(* The gateway's supervision of ROS time.  Every health callback and every *)
(* output tick samples the clock under runtime_mutex_; the jump callback   *)
(* runs on the thread that sets the time, takes no lock, and only leaves   *)
(* its event in an atomic counter that the next sample takes.              *)
(***************************************************************************)
EXTENDS Integers

CONSTANTS
    NoSample,      \* an empty std::optional
    StallTimeout,  \* gateway.ros_clock_stall_timeout_ms
    MaxRos,        \* bound: the largest ROS time
    MaxGap         \* bound: the longest time without a sample

ASSUME ClockAssumption ==
    /\ NoSample \notin Int
    /\ StallTimeout \in Nat /\ MaxRos \in Nat /\ MaxGap \in Nat

VARIABLES
    ros,           \* ROS time
    jumping,       \* ROS time went back and the jump callback is yet to run
    configured,    \* health_plane_configured_, and the jump handler exists
    last,          \* last_ros_time_ns_
    progressAge,   \* steady time since last_ros_time_progress_at_
    backward,      \* ros_clock_backward_jump_
    pending,       \* pending_ros_clock_backward_jumps_ > 0
    healthy,       \* health_snapshot_.ros_clock_healthy
    advanced,      \* history: ROS time moved on after the last jump reported
    still,         \* history: steady time since it last moved on
    gap, slack     \* history: steady time since the last sample, and that
                   \* between the last sample with progress and the one before

source == <<ros, jumping>>
monitor == <<last, progressAge, backward, pending, healthy>>
history == <<advanced, still, gap, slack>>
clockVars == <<source, configured, monitor, history>>

\* No age is compared with anything larger.
Oldest == StallTimeout + MaxGap + 1

Unsampled ==
    /\ last' = NoSample /\ progressAge' = 0
    /\ backward' = FALSE /\ pending' = FALSE /\ healthy' = FALSE
    /\ advanced' = TRUE /\ still' = 0 /\ gap' = 0 /\ slack' = 0

ClockInit ==
    /\ ros = 0 /\ jumping = FALSE /\ configured = FALSE
    /\ last = NoSample /\ progressAge = 0
    /\ backward = FALSE /\ pending = FALSE /\ healthy = FALSE
    /\ advanced = TRUE /\ still = 0 /\ gap = 0 /\ slack = 0

-----------------------------------------------------------------------------
(***************************************************************************)
(* The thread that sets ROS time.                                          *)
(***************************************************************************)
Advance ==
    /\ ~jumping /\ ros < MaxRos
    /\ ros' \in ros + 1 .. MaxRos
    /\ advanced' = TRUE /\ still' = 0
    /\ UNCHANGED <<jumping, configured, monitor, gap, slack>>

JumpBack ==
    /\ ~jumping
    /\ ros' \in 0 .. ros - 1
    /\ jumping' = TRUE
    /\ UNCHANGED <<configured, monitor, history>>

JumpCallback ==
    /\ jumping /\ jumping' = FALSE
    /\ pending' = (pending \/ configured)
    /\ advanced' = (advanced /\ ~configured)
    /\ UNCHANGED <<ros, configured, last, progressAge, backward, healthy,
                   still, gap, slack>>

-----------------------------------------------------------------------------
(***************************************************************************)
(* update_ros_clock_health_locked, as every caller runs it: poll_ros_clock *)
(* and publish_diagnostics, the first critical section of poll_graph and   *)
(* run_output_tick.  The number of jumps is only for the diagnostics.      *)
(***************************************************************************)
First == last = NoSample
MovedOn == ~First /\ ros > last
WentBack == pending \/ (~First /\ ros < last)

\* Mutant of BackwardAfter: forward progress wins over a reported jump.
BackwardProgressWins == (WentBack \/ (backward /\ ~First)) /\ ~MovedOn

BackwardAfter == WentBack \/ (backward /\ ~First /\ ~MovedOn)

\* Mutant of ProgressAfter: every sample counts as progress.
ProgressEvery == 0

ProgressAfter ==
    IF First \/ MovedOn \/ WentBack THEN 0 ELSE progressAge

\* Both profiles of the repository run on simulated or on system time; a
\* clock that still shows zero has not started.
Running == ros > 0

Sample ==
    /\ configured
    /\ last' = ros /\ pending' = FALSE
    /\ backward' = BackwardAfter /\ progressAge' = ProgressAfter
    /\ healthy' = (Running /\ progressAge' <= StallTimeout /\ ~backward')
    /\ still' = IF First THEN 0 ELSE still
    /\ slack' = IF First \/ MovedOn \/ WentBack THEN gap ELSE slack
    /\ gap' = 0
    /\ UNCHANGED <<source, configured, advanced>>

Configure ==
    /\ ~configured /\ configured' = TRUE
    /\ Unsampled /\ UNCHANGED source

Cleanup ==
    /\ configured /\ configured' = FALSE
    /\ Unsampled /\ UNCHANGED source

Aged(age, limit) == IF age < limit THEN age + 1 ELSE age

PassTime ==
    /\ gap < MaxGap
    /\ progressAge' = Aged(progressAge, StallTimeout + 1)
    /\ still' = Aged(still, Oldest) /\ gap' = gap + 1
    /\ UNCHANGED <<source, configured, last, backward, pending, healthy,
                   advanced, slack>>

-----------------------------------------------------------------------------
ClockNext ==
    \/ Advance \/ JumpBack \/ JumpCallback
    \/ Sample \/ Configure \/ Cleanup \/ PassTime

ClockSpec == ClockInit /\ [][ClockNext]_clockVars

-----------------------------------------------------------------------------
(***************************************************************************)
(* The types of the monitor's fields and of the histories.                 *)
(***************************************************************************)
ClockTypeOK ==
    /\ ros \in 0 .. MaxRos /\ jumping \in BOOLEAN /\ configured \in BOOLEAN
    /\ last \in 0 .. MaxRos \cup {NoSample}
    /\ progressAge \in 0 .. StallTimeout + 1
    /\ backward \in BOOLEAN /\ pending \in BOOLEAN /\ healthy \in BOOLEAN
    /\ advanced \in BOOLEAN /\ still \in 0 .. Oldest
    /\ gap \in 0 .. MaxGap /\ slack \in 0 .. MaxGap

(***************************************************************************)
(* A sample that calls the clock healthy proves that ROS time has moved on *)
(* since the last backward jump that was reported, even one that landed    *)
(* above the previous sample (update_ros_clock_health_locked).             *)
(***************************************************************************)
JumpNeverHidden == [][Sample /\ healthy' => advanced]_clockVars

(***************************************************************************)
(* A stall cannot hide between samples: when a sample calls the clock      *)
(* healthy, ROS time moved on at most the stall timeout and one sampling   *)
(* interval ago (update_ros_clock_health_locked).                          *)
(***************************************************************************)
StallDetected ==
    [][Sample /\ healthy' => still' <= StallTimeout + slack']_clockVars

-----------------------------------------------------------------------------
(***************************************************************************)
(* The inductive strengthening that the proofs rest on.                    *)
(***************************************************************************)
\* A jump that was reported and not made good is still on the books: the
\* counter holds it, or the flag does and time is not above the last sample.
JumpRemembered ==
    ~advanced => pending \/ (backward /\ ~First /\ ros <= last)

\* What is above the last sample was reached since.
ProgressRecent == MovedOn => still <= gap

\* Time has stood still no longer than the monitor thinks, but for the
\* interval between the samples that saw it move.
StillCovered ==
    ~First /\ ~backward
        => still <= progressAge + slack \/ progressAge > StallTimeout

ClockInv == ClockTypeOK /\ JumpRemembered /\ ProgressRecent /\ StillCovered
=============================================================================
