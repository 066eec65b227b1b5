------------------------- MODULE SocketCanTransmit -------------------------
(***************************************************************************)
(* The command path of the SocketCAN adapter: serial ROS callbacks that    *)
(* accept, reject and revoke canonical commands, and the I/O thread that   *)
(* sends one control frame per period, or at once when a HOLD is asked     *)
(* for.  The two share a mailbox under runtime_mutex_ and an atomic flag;  *)
(* each critical section and each use of the flag is a step.               *)
(***************************************************************************)
EXTENDS CanonicalInput, RollingCounter

CONSTANT
    TxPeriod         \* adapter.tx_period_ms

ASSUME TransmitAssumption ==
    /\ TxPeriod \in Nat \ {0}
    /\ None \notin [mode : {"active", "hold"}, counter : Counters]

VARIABLES
    callback,        \* where request_immediate_hold is in the ROS callback
    forceHold,       \* force_next_hold_
    immediate,       \* immediate_transmit_requested_
    io,              \* where the I/O thread is in run()
    frame,           \* the frame it is composing or writing
    retry,           \* retry_frame
    due,             \* time since next_transmit was set
    nextCounter,     \* next_control_counter_
    onWire,          \* history: counter of the last frame written
    late,            \* history: ACTIVE frames written since authority was lost
    owed             \* history: a HOLD was asked for and none written yet

mailboxFlags == <<callback, forceHold, immediate>>
worker == <<io, frame, retry, due, nextCounter>>
history == <<onWire, late, owed>>
vars == <<canonical, mailboxFlags, worker, history>>

Frames == [mode : {"active", "hold"}, counter : Counters]

Init ==
    /\ CanonicalInit
    /\ callback = "idle" /\ forceHold = FALSE /\ immediate = FALSE
    /\ io = "polling" /\ due = 0
    /\ frame = None /\ retry = None
    /\ nextCounter = 0
    /\ onWire = Modulo - 1 /\ late = 0 /\ owed = FALSE

\* Frames that are late stop being counted once authority is back.
Regained == late' = IF Authorized' THEN 0 ELSE late

-----------------------------------------------------------------------------
(***************************************************************************)
(* The ROS thread.                                                         *)
(***************************************************************************)
PollCanonicalEndpoint(observation) ==
    /\ callback = "idle"
    /\ Poll(observation)
    /\ callback' = IF NewPublisher \/ PublisherLost THEN "force" ELSE "idle"
    /\ Regained
    /\ UNCHANGED <<forceHold, immediate, worker, onWire, owed>>

AcceptCommand(p, content) ==
    /\ callback = "idle"
    /\ Accept(p, content)
    /\ Regained /\ owed' = (owed /\ ~Authorized')
    /\ UNCHANGED <<mailboxFlags, worker, onWire>>

RejectCommand(p, content) ==
    /\ callback = "idle"
    /\ Reject(p, content)
    /\ callback' = "force"
    /\ Regained
    /\ UNCHANGED <<forceHold, immediate, worker, onWire, owed>>

ForceHold ==
    /\ callback = "force"
    /\ forceHold' = TRUE /\ owed' = TRUE /\ callback' = "request"
    /\ UNCHANGED <<canonical, immediate, worker, onWire, late>>

RequestImmediate ==
    /\ callback = "request"
    /\ immediate' = TRUE /\ callback' = "idle"
    /\ UNCHANGED <<canonical, forceHold, worker, history>>

-----------------------------------------------------------------------------
(***************************************************************************)
(* The I/O thread: one turn of the loop of run() composes at most one      *)
(* frame.  A turn with nothing to send changes nothing.                    *)
(***************************************************************************)
TakeImmediate ==
    /\ io = "polling" /\ immediate
    /\ immediate' = FALSE
    /\ io' = "composing"
    /\ UNCHANGED <<canonical, callback, forceHold, frame, retry, due,
                   nextCounter, history>>

\* Mutant of PeriodElapsed: a pending frame waits for an immediate request.
PeriodUnlessPending == due >= TxPeriod /\ retry = None

PeriodElapsed == due >= TxPeriod

TakePeriodic ==
    /\ io = "polling" /\ ~immediate /\ PeriodElapsed
    /\ io' = IF retry = None THEN "composing" ELSE "writing"
    /\ frame' = IF retry = None THEN frame ELSE retry
    /\ UNCHANGED <<canonical, mailboxFlags, retry, due, nextCounter, history>>

\* Mutant of Mode: the watchdog is not asked.
ModeUnwatched ==
    IF /\ ~forceHold /\ command = "motion"
       /\ Endpoint \in Publishers /\ rejected = "None"
    THEN "active" ELSE "hold"

Mode ==
    IF ~forceHold /\ Authorized /\ command = "motion" THEN "active" ELSE "hold"

MakePeriodicControlFrame ==
    /\ io = "composing"
    /\ frame' = [mode |-> Mode, counter |-> nextCounter]
    /\ forceHold' = FALSE
    /\ io' = "writing"
    /\ UNCHANGED <<canonical, callback, immediate, retry, due,
                   nextCounter, history>>

TurnEnds == io' = "polling" /\ due' = 0 /\ frame' = None

\* The write that succeeds; the success handler has yet to run.
Write ==
    /\ io = "writing"
    /\ io' = "confirming"
    /\ onWire' = frame.counter
    /\ late' = IF frame.mode = "active" /\ ~Authorized /\ late < 2
               THEN late + 1 ELSE late
    /\ owed' = (owed /\ frame.mode = "active")
    /\ UNCHANGED <<canonical, mailboxFlags, frame, retry, due,
                   nextCounter>>

\* Mutant of Settled: a pending frame stays pending when it is sent.
SettledKept == retry

Settled == None

(***************************************************************************)
(* The success handler.  When it throws, transmit_frame makes that a fatal *)
(* error and the loop is left.                                             *)
(***************************************************************************)
ConfirmControlFrameTransmitted ==
    /\ io = "confirming"
    /\ \/ /\ frame.counter = nextCounter
          /\ nextCounter' = Succ(nextCounter) /\ retry' = Settled /\ TurnEnds
       \/ /\ frame.counter # nextCounter
          /\ io' = "mismatch" /\ UNCHANGED <<frame, retry, due, nextCounter>>
    /\ UNCHANGED <<canonical, mailboxFlags, history>>

WouldBlock ==
    /\ io = "writing"
    /\ retry' = frame
    /\ TurnEnds
    /\ UNCHANGED <<canonical, mailboxFlags, nextCounter, history>>

\* A fatal error of poll, read or write, a command that does not fit the CAN
\* signal, or stop(): the loop is left.
LeaveLoop ==
    /\ io \in {"polling", "composing", "writing"}
    /\ io' = "dead" /\ frame' = None /\ retry' = None
    /\ UNCHANGED <<canonical, mailboxFlags, due, nextCounter, history>>

Tick ==
    /\ CanonicalTime
    /\ due' = Older(due, TxPeriod)
    /\ UNCHANGED <<mailboxFlags, io, frame, retry, nextCounter,
                   history>>

-----------------------------------------------------------------------------
Callback ==
    \/ \E observation \in Observations : PollCanonicalEndpoint(observation)
    \/ \E p \in Publishers, content \in Contents :
          AcceptCommand(p, content) \/ RejectCommand(p, content)

HoldRequest == ForceHold \/ RequestImmediate

\* What the I/O thread does by itself while nothing fails.
Turn ==
    \/ TakeImmediate \/ TakePeriodic \/ MakePeriodicControlFrame
    \/ ConfirmControlFrameTransmitted

Next ==
    \/ Callback \/ HoldRequest \/ Turn \/ Write \/ WouldBlock
    \/ LeaveLoop \/ Tick

Spec == Init /\ [][Next]_vars

(***************************************************************************)
(* The two threads are scheduled, time passes, and a kernel queue that is  *)
(* full does not stay full at every attempt: a frame that is tried for     *)
(* ever is written.                                                        *)
(***************************************************************************)
FairSpec ==
    /\ Spec
    /\ WF_vars(HoldRequest) /\ WF_vars(Turn) /\ WF_vars(Tick)
    /\ WF_vars(Write \/ WouldBlock) /\ SF_vars(Write)

-----------------------------------------------------------------------------
(***************************************************************************)
(* The types of the adapter's fields and of the histories.                 *)
(***************************************************************************)
TypeOK ==
    /\ CanonicalTyped
    /\ callback \in {"idle", "force", "request"}
    /\ forceHold \in BOOLEAN /\ immediate \in BOOLEAN
    /\ io \in {"polling", "composing", "writing", "confirming", "mismatch",
               "dead"}
    /\ frame \in Frames \cup {None} /\ retry \in Frames \cup {None}
    /\ due \in 0 .. TxPeriod
    /\ nextCounter \in Counters /\ onWire \in Counters
    /\ late \in 0 .. 2 /\ owed \in BOOLEAN

(***************************************************************************)
(* After the authority to move is lost (endpoint, rejection or watchdog,   *)
(* at any moment between composing, a full queue and writing) at most one  *)
(* ACTIVE frame still reaches the bus, until authority is back             *)
(* (make_periodic_control_frame, retry_frame of run()).                    *)
(***************************************************************************)
AtMostOneLate == late <= 1

(***************************************************************************)
(* The rolling counters on the bus are consecutive whatever is retried,    *)
(* replaced or refused, so the check of the counter in                     *)
(* confirm_control_frame_transmitted never stops the I/O thread.           *)
(***************************************************************************)
CountersConsecutive ==
    [][Write => onWire' = Succ(onWire) /\ onWire' = nextCounter]_vars

(***************************************************************************)
(* A HOLD that was asked for is sent, unless authority comes back first or *)
(* the I/O thread has ended (request_immediate_hold, run()).               *)
(***************************************************************************)
HoldDelivered == owed ~> (~owed \/ Authorized \/ io = "dead")
-----------------------------------------------------------------------------
(***************************************************************************)
(* The inductive strengthening: every frame that is being written or kept  *)
(* carries the pending counter, and an ACTIVE frame is still to be sent    *)
(* only while none has been sent since authority was lost.                 *)
(***************************************************************************)
FramesCounted ==
    /\ io # "mismatch"
    /\ io \in {"writing", "confirming"}
         => frame # None /\ frame.counter = nextCounter
    /\ retry # None => retry.counter = nextCounter
    /\ nextCounter = IF io = "confirming" THEN onWire ELSE Succ(onWire)

Armed ==
    \/ io = "writing" /\ frame.mode = "active"
    \/ io # "confirming" /\ retry # None /\ retry.mode = "active"

ArmedOnce ==
    late # 0 => late = 1 /\ ~Authorized /\ ~Armed
=============================================================================
