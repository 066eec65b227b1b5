-------------------------- MODULE SocketCan_proofs --------------------------
(***************************************************************************)
(* The proofs about the SocketCAN adapter, in two parts that share nothing *)
(* but the canonical state, which CanonicalInput_proofs treats.            *)
(***************************************************************************)
EXTENDS SocketCanTransmit, SocketCanFeedback, CanonicalInput_proofs

(***************************************************************************)
(* The command path, for any publishers, windows, periods and moduli: the  *)
(* frames on the bus carry consecutive counters, at most one ACTIVE frame  *)
(* gets out after authority was lost, and commands and publishers are      *)
(* confirmed.  What is left of it is the I/O thread, by the inductive      *)
(* FramesCounted and ArmedOnce.                                            *)
(***************************************************************************)
WorkerTyped ==
    /\ io \in {"polling", "composing", "writing", "confirming", "mismatch",
               "dead"}
    /\ frame \in Frames \cup {None} /\ retry \in Frames \cup {None}
    /\ due \in 0 .. TxPeriod
    /\ nextCounter \in Counters

FlagsTyped ==
    /\ callback \in {"idle", "force", "request"}
    /\ forceHold \in BOOLEAN /\ immediate \in BOOLEAN
    /\ onWire \in Counters /\ late \in 0 .. 2 /\ owed \in BOOLEAN

TransmitInv == TypeOK /\ CanonicalInv /\ FramesCounted /\ ArmedOnce

-----------------------------------------------------------------------------
\* Every step is a step of the canonical state.
LEMMA NextIsCanonicalStep == [Next]_vars => CanonicalStep
BY DEF Next, Callback, HoldRequest, Turn, PollCanonicalEndpoint,
       AcceptCommand, RejectCommand, ForceHold, RequestImmediate,
       TakeImmediate, TakePeriodic, MakePeriodicControlFrame, Write,
       ConfirmControlFrameTransmitted, WouldBlock, LeaveLoop, Tick, vars,
       CanonicalStep

\* Counters stay counters.
LEMMA SuccTyped ==
    ASSUME NEW c \in Counters PROVE Succ(c) \in Counters
BY TransmitAssumption, ModuloAssumption DEF Succ, Counters

\* Every step keeps the fields of the I/O thread well typed.
LEMMA WorkerTypedKept == WorkerTyped /\ [Next]_vars => WorkerTyped'
<1> SUFFICES ASSUME WorkerTyped, [Next]_vars PROVE WorkerTyped'
    OBVIOUS
<1> USE DEF WorkerTyped, worker
<1>1. ASSUME NEW observation \in Observations,
             PollCanonicalEndpoint(observation)
      PROVE  WorkerTyped'
      BY <1>1 DEF PollCanonicalEndpoint
<1>2. ASSUME NEW p \in Publishers, NEW content \in Contents,
             AcceptCommand(p, content) \/ RejectCommand(p, content)
      PROVE  WorkerTyped'
      BY <1>2 DEF AcceptCommand, RejectCommand
<1>3. CASE ForceHold
      BY <1>3 DEF ForceHold
<1>4. CASE RequestImmediate
      BY <1>4 DEF RequestImmediate
<1>5. CASE TakeImmediate
      BY <1>5 DEF TakeImmediate
<1>6. CASE TakePeriodic
      BY <1>6 DEF TakePeriodic
<1>7. CASE MakePeriodicControlFrame
  <2>1. frame' \in Frames
        BY <1>7 DEF MakePeriodicControlFrame, Mode, Frames
  <2>2. QED  BY <1>7, <2>1 DEF MakePeriodicControlFrame
<1>8. CASE ConfirmControlFrameTransmitted
      BY <1>8, SuccTyped, TransmitAssumption, ModuloAssumption
      DEF ConfirmControlFrameTransmitted, Settled, TurnEnds
<1>9. CASE Write
      BY <1>9 DEF Write
<1>10. CASE WouldBlock
      BY <1>10, TransmitAssumption, ModuloAssumption DEF WouldBlock, TurnEnds
<1>11. CASE LeaveLoop
      BY <1>11 DEF LeaveLoop
<1>12. CASE Tick
      BY <1>12, OlderTyped, TransmitAssumption, ModuloAssumption DEF Tick
<1>13. CASE UNCHANGED vars
      BY <1>13 DEF vars
<1>14. QED
      BY <1>1, <1>2, <1>3, <1>4, <1>5, <1>6, <1>7, <1>8, <1>9, <1>10,
         <1>11, <1>12, <1>13
      DEF Next, Callback, HoldRequest, Turn

\* Every step keeps the flags and histories well typed.
LEMMA FlagsTypedKept ==
    FlagsTyped /\ WorkerTyped /\ FramesCounted /\ [Next]_vars => FlagsTyped'
<1> SUFFICES ASSUME FlagsTyped, WorkerTyped, FramesCounted, [Next]_vars
             PROVE  FlagsTyped'
    OBVIOUS
<1> USE DEF FlagsTyped, mailboxFlags, history
<1>1. ASSUME NEW observation \in Observations,
             PollCanonicalEndpoint(observation)
      PROVE  FlagsTyped'
      BY <1>1 DEF PollCanonicalEndpoint, Regained
<1>2. ASSUME NEW p \in Publishers, NEW content \in Contents,
             AcceptCommand(p, content) \/ RejectCommand(p, content)
      PROVE  FlagsTyped'
  <2>1. CASE AcceptCommand(p, content)
    <3>1. owed' \in BOOLEAN
          BY <2>1 DEF AcceptCommand
    <3>2. late' \in 0 .. 2
          BY <2>1 DEF AcceptCommand, Regained
    <3>3. UNCHANGED <<mailboxFlags, onWire>>
          BY <2>1 DEF AcceptCommand
    <3>4. QED  BY <3>1, <3>2, <3>3
  <2>2. CASE RejectCommand(p, content)
        BY <2>2 DEF RejectCommand, Regained
  <2>3. QED  BY <1>2, <2>1, <2>2
<1>3. CASE ForceHold
      BY <1>3 DEF ForceHold
<1>4. CASE RequestImmediate
      BY <1>4 DEF RequestImmediate
<1>5. CASE TakeImmediate
      BY <1>5 DEF TakeImmediate
<1>6. CASE TakePeriodic
      BY <1>6 DEF TakePeriodic
<1>7. CASE MakePeriodicControlFrame
      BY <1>7 DEF MakePeriodicControlFrame
<1>8. CASE ConfirmControlFrameTransmitted
      BY <1>8 DEF ConfirmControlFrameTransmitted
<1>9. CASE Write
  <2>1. onWire' \in Counters
        BY <1>9 DEF Write, FramesCounted, WorkerTyped
  <2>2. late' \in 0 .. 2
        BY <1>9 DEF Write
  <2>3. QED  BY <1>9, <2>1, <2>2 DEF Write
<1>10. CASE WouldBlock
      BY <1>10 DEF WouldBlock
<1>11. CASE LeaveLoop
      BY <1>11 DEF LeaveLoop
<1>12. CASE Tick
      BY <1>12 DEF Tick
<1>13. CASE UNCHANGED vars
      BY <1>13 DEF vars
<1>14. QED
      BY <1>1, <1>2, <1>3, <1>4, <1>5, <1>6, <1>7, <1>8, <1>9, <1>10,
         <1>11, <1>12, <1>13
      DEF Next, Callback, HoldRequest, Turn

-----------------------------------------------------------------------------
\* What is written or kept carries the pending counter.
LEMMA FramesCountedKept ==
    TypeOK /\ FramesCounted /\ [Next]_vars => FramesCounted'
<1> SUFFICES ASSUME TypeOK, FramesCounted, [Next]_vars
             PROVE  FramesCounted'
    OBVIOUS
<1> USE DEF FramesCounted
<1>1. CASE UNCHANGED <<worker, onWire>>
      BY <1>1 DEF worker
<1>2. CASE TakeImmediate
      BY <1>2 DEF TakeImmediate, history
<1>3. CASE TakePeriodic
      BY <1>3 DEF TakePeriodic, history
<1>4. CASE MakePeriodicControlFrame
  <2>1. frame' \in Frames /\ frame'.counter = nextCounter
        BY <1>4 DEF MakePeriodicControlFrame, Mode, Frames, TypeOK
  <2>2. frame' # None
        BY <2>1, TransmitAssumption, ModuloAssumption DEF Frames, Counters
  <2>3. QED  BY <1>4, <2>1, <2>2 DEF MakePeriodicControlFrame, history
<1>5. CASE ConfirmControlFrameTransmitted
      BY <1>5 DEF ConfirmControlFrameTransmitted, Settled, TurnEnds, history
<1>6. CASE Write
      BY <1>6 DEF Write
<1>7. CASE WouldBlock
      BY <1>7 DEF WouldBlock, TurnEnds, history
<1>8. CASE LeaveLoop
      BY <1>8 DEF LeaveLoop, history
<1>9. CASE Tick
      BY <1>9 DEF Tick, history
<1>10. QED
      BY <1>1, <1>2, <1>3, <1>4, <1>5, <1>6, <1>7, <1>8, <1>9
      DEF Next, Callback, HoldRequest, Turn, PollCanonicalEndpoint,
          AcceptCommand, RejectCommand, ForceHold, RequestImmediate, history,
          vars

\* Authority only depends on the canonical state.
LEMMA AuthorizedKept == UNCHANGED canonical => Authorized' = Authorized
BY DEF canonical, tracker, mailbox, Authorized, Endpoint, WatchdogHealthy

\* An ACTIVE frame is only to be sent while none was sent without authority.
LEMMA ArmedOnceKept ==
    TypeOK /\ FramesCounted /\ ArmedOnce /\ [Next]_vars => ArmedOnce'
<1> SUFFICES ASSUME TypeOK, FramesCounted, ArmedOnce, [Next]_vars
             PROVE  ArmedOnce'
    OBVIOUS
<1>1. CASE UNCHANGED worker /\ Regained
  <2>1. Armed' = Armed
        BY <1>1 DEF worker, Armed
  <2>2. QED  BY <1>1, <2>1 DEF Regained, ArmedOnce
<1>2. CASE UNCHANGED <<worker, canonical, late>>
      BY <1>2, AuthorizedKept DEF worker, Armed, ArmedOnce
<1>3. CASE TakeImmediate
      BY <1>3, AuthorizedKept DEF TakeImmediate, history, Armed, ArmedOnce
<1>4. CASE TakePeriodic
      BY <1>4, AuthorizedKept DEF TakePeriodic, history, Armed, ArmedOnce
<1>5. CASE MakePeriodicControlFrame
  <2>1. frame'.mode = "active" => Authorized
        BY <1>5 DEF MakePeriodicControlFrame, Mode
  <2>2. QED
        BY <1>5, <2>1, AuthorizedKept
        DEF MakePeriodicControlFrame, history, Armed, ArmedOnce
<1>6. CASE ConfirmControlFrameTransmitted
  <2>1. io' = "polling" /\ retry' = None
        BY <1>6
        DEF ConfirmControlFrameTransmitted, FramesCounted, Settled, TurnEnds
  <2>2. ~Armed'
        BY <2>1 DEF Armed
  <2>3. QED
        BY <1>6, <2>2, AuthorizedKept
        DEF ConfirmControlFrameTransmitted, history, ArmedOnce
<1>7. CASE Write
  <2>1. ~Armed'
        BY <1>7 DEF Write, Armed
  <2>2. late # 0 => frame.mode # "active"
        BY <1>7 DEF Write, Armed, ArmedOnce
  <2>3. late' # 0 => late' = 1 /\ ~Authorized
        BY <1>7, <2>2 DEF Write, ArmedOnce, TypeOK
  <2>4. QED
        BY <1>7, <2>1, <2>3, AuthorizedKept DEF Write, ArmedOnce
<1>8. CASE WouldBlock
      BY <1>8, AuthorizedKept
      DEF WouldBlock, TurnEnds, history, Armed, ArmedOnce
<1>9. CASE LeaveLoop
      BY <1>9, AuthorizedKept DEF LeaveLoop, history, Armed, ArmedOnce
<1>10. CASE Tick
  <2>1. Authorized' => Authorized
        BY <1>10, TimeKeepsUnauthorized DEF Tick, TypeOK
  <2>2. QED  BY <1>10, <2>1 DEF Tick, history, Armed, ArmedOnce
<1>11. QED
      BY <1>1, <1>2, <1>3, <1>4, <1>5, <1>6, <1>7, <1>8, <1>9, <1>10
      DEF Next, Callback, HoldRequest, Turn, PollCanonicalEndpoint,
          AcceptCommand, RejectCommand, ForceHold, RequestImmediate, history,
          vars

-----------------------------------------------------------------------------
LEMMA InitInv == Init => TransmitInv
<1> SUFFICES ASSUME Init PROVE TransmitInv
    OBVIOUS
<1> USE CanonicalAssumption, TransmitAssumption, ModuloAssumption
   DEF Init, CanonicalInit
<1>1. CanonicalTyped
      BY DEF CanonicalTyped
<1>2. FlagsTyped /\ WorkerTyped
  <2>1. onWire \in Counters /\ nextCounter \in Counters
        BY DEF Counters
  <2>2. late \in 0 .. 2 /\ due \in 0 .. TxPeriod
        OBVIOUS
  <2>3. FlagsTyped
        BY <2>1, <2>2 DEF FlagsTyped
  <2>4. WorkerTyped
        BY <2>1, <2>2 DEF WorkerTyped
  <2>5. QED  BY <2>3, <2>4
<1>3. CanonicalInv
      BY DEF CanonicalInv, CommandFromConfirmed, ReportedIsConfirmed,
             CandidateSeen, AcceptedLast, Endpoint, Reported, Observations
<1>4. nextCounter = Succ(onWire)
  <2>1. (Modulo - 1) + 1 = Modulo /\ Modulo % Modulo = 0
        OBVIOUS
  <2>2. QED  BY <2>1 DEF Succ
<1>5. FramesCounted
      BY <1>4 DEF FramesCounted
<1>6. QED
      BY <1>1, <1>2, <1>3, <1>5
      DEF TransmitInv, TypeOK, FlagsTyped, WorkerTyped, ArmedOnce

LEMMA NextInv == TransmitInv /\ [Next]_vars => TransmitInv'
<1> SUFFICES ASSUME TransmitInv, [Next]_vars PROVE TransmitInv'
    OBVIOUS
<1>1. TypeOK /\ CanonicalInv /\ FramesCounted /\ ArmedOnce
      BY DEF TransmitInv
<1>2. CanonicalTyped /\ FlagsTyped /\ WorkerTyped
      BY <1>1 DEF TypeOK, FlagsTyped, WorkerTyped
<1>3. CanonicalTyped' /\ CanonicalInv'
      BY <1>1, <1>2, NextIsCanonicalStep, CanonicalTypedKept,
         CanonicalInvKept
<1>4. FlagsTyped' /\ WorkerTyped'
      BY <1>1, <1>2, FlagsTypedKept, WorkerTypedKept
<1>5. TypeOK'
      BY <1>3, <1>4 DEF TypeOK, FlagsTyped, WorkerTyped
<1>6. FramesCounted' /\ ArmedOnce'
      BY <1>1, FramesCountedKept, ArmedOnceKept
<1>7. QED  BY <1>3, <1>5, <1>6 DEF TransmitInv

(***************************************************************************)
(* The inductive invariant of the command path.                            *)
(***************************************************************************)
THEOREM TransmitInvInvariant == Spec => []TransmitInv
BY InitInv, NextInv, PTL DEF Spec

(***************************************************************************)
(* Every reachable state of the command path is type-correct.              *)
(***************************************************************************)
THEOREM TransmitTypeCorrect == Spec => []TypeOK
<1>1. TransmitInv => TypeOK
      BY DEF TransmitInv
<1>2. QED  BY TransmitInvInvariant, <1>1, PTL

(***************************************************************************)
(* After authority was lost at most one ACTIVE frame reaches the bus,      *)
(* however callbacks, retries and immediate requests interleave            *)
(* (make_periodic_control_frame, run).                                     *)
(***************************************************************************)
THEOREM AtMostOneLateHolds == Spec => []AtMostOneLate
<1>1. TransmitInv => AtMostOneLate
      BY DEF TransmitInv, TypeOK, ArmedOnce, AtMostOneLate
<1>2. QED  BY TransmitInvInvariant, <1>1, PTL

(***************************************************************************)
(* The command that may be executed is one of the confirmed publisher      *)
(* (poll_canonical_endpoint, handle_canonical_command).                    *)
(***************************************************************************)
THEOREM CommandFromConfirmedHolds == Spec => []CommandFromConfirmed
<1>1. TransmitInv => CommandFromConfirmed
      BY DEF TransmitInv, CanonicalInv
<1>2. QED  BY TransmitInvInvariant, <1>1, PTL

(***************************************************************************)
(* The counters on the bus are consecutive, and the check of               *)
(* confirm_control_frame_transmitted never fails.                          *)
(***************************************************************************)
THEOREM CountersConsecutiveHolds == Spec => CountersConsecutive
<1>1. TransmitInv /\ [Next]_vars
        => [Write => onWire' = Succ(onWire) /\ onWire' = nextCounter]_vars
      BY DEF TransmitInv, FramesCounted, Write
<1>2. QED
      BY TransmitInvInvariant, <1>1, PTL DEF Spec, CountersConsecutive

(***************************************************************************)
(* A publisher is only confirmed after the whole stable window             *)
(* (CanonicalEndpointTracker::observe).                                    *)
(***************************************************************************)
THEOREM ConfirmationStableHolds == Spec => ConfirmationStable
<1>1. TransmitInv /\ [Next]_vars
        => [stable' # stable /\ stable' \in Publishers
              => seen = stable' /\ seen' = stable'
                   /\ span >= StableWindow]_canonical
      BY NextIsCanonicalStep, ConfirmedAfterSpan
      DEF TransmitInv, TypeOK, CanonicalInv
<1>2. QED
      BY TransmitInvInvariant, <1>1, PTL DEF Spec, ConfirmationStable

-----------------------------------------------------------------------------
(***************************************************************************)
(* The feedback path, for any publishers, timeouts, recovery lengths and   *)
(* moduli: what the adapter reports of the vehicle is backed by the frames *)
(* on the bus and by the canonical side, and a dead I/O thread is reported *)
(* as such.  The invariant is FeedbackInv.                                 *)
(***************************************************************************)
LinkTyped ==
    /\ baseline \in Counters \cup {None}
    /\ healthy \in BOOLEAN /\ recovered \in 0 .. RecoveryFrames
    /\ latest \in Signals \cup {None}
    /\ age \in 0 .. CanTimeout
    /\ timedOut \in BOOLEAN /\ fatal \in BOOLEAN

OutsideTyped ==
    /\ receiving \in BOOLEAN /\ exited \in BOOLEAN
    /\ published \in Reports
    /\ lastFrame \in Counters \cup {None}
    /\ row \in 0 .. RecoveryFrames

-----------------------------------------------------------------------------
\* Every step is a step of the canonical state.
LEMMA FeedbackIsCanonicalStep == [FeedbackNext]_feedback => CanonicalStep
BY DEF FeedbackNext, HandleCanFrame, HandleBadFrame, HandleCanError,
       PublishVehicleState, PublishDiagnostics, PollEndpoint,
       HandleCanonicalCommand, FeedbackTick, feedback, CanonicalStep

\* What a look at the age of the last frame leaves is well typed.
LEMMA MarkTyped ==
    LinkTyped /\ MarkCanTimeout
      => /\ baseline' \in Counters \cup {None}
         /\ healthy' \in BOOLEAN /\ recovered' \in 0 .. RecoveryFrames
         /\ timedOut' \in BOOLEAN
<1> SUFFICES ASSUME LinkTyped, MarkCanTimeout
             PROVE  /\ baseline' \in Counters \cup {None}
                    /\ healthy' \in BOOLEAN
                    /\ recovered' \in 0 .. RecoveryFrames
                    /\ timedOut' \in BOOLEAN
    OBVIOUS
<1>1. 0 \in 0 .. RecoveryFrames
      BY FeedbackAssumption, ModuloAssumption
<1>2. CASE TimedOutNow
  <2>1. healthy' = FALSE /\ timedOut' = TRUE /\ recovered' = 0
        BY <1>2 DEF MarkCanTimeout
  <2>2. baseline' \in {baseline, None}
        BY <1>2 DEF MarkCanTimeout
  <2>3. baseline' \in Counters \cup {None}
        BY <2>2 DEF LinkTyped
  <2>4. QED  BY <1>1, <2>1, <2>3
<1>3. CASE ~TimedOutNow
      BY <1>3 DEF MarkCanTimeout, LinkTyped
<1>4. QED  BY <1>2, <1>3

\* Every step keeps the state of the link well typed.
LEMMA LinkTypedKept == LinkTyped /\ [FeedbackNext]_feedback => LinkTyped'
<1> SUFFICES ASSUME LinkTyped, [FeedbackNext]_feedback PROVE LinkTyped'
    OBVIOUS
<1>1. ASSUME NEW counter \in Counters, NEW signals \in Signals,
             HandleCanFrame(counter, signals)
      PROVE  LinkTyped'
  <2>1. baseline' \in Counters \cup {None}
        BY <1>1 DEF HandleCanFrame, Baseline
  <2>2. recovered' \in 0 .. RecoveryFrames
        BY <1>1, FeedbackAssumption, ModuloAssumption
        DEF HandleCanFrame, CountAfterAccept, CountAfterReject, LinkTyped
  <2>3. healthy' \in BOOLEAN
    <3>1. CASE healthy' = (healthy \/ recovered' >= RecoveryFrames)
          BY <3>1
    <3>2. CASE healthy' = healthy
          BY <3>2 DEF LinkTyped
    <3>3. QED  BY <1>1, <3>1, <3>2 DEF HandleCanFrame
  <2>4. latest' \in Signals \cup {None} /\ age' \in 0 .. CanTimeout
        BY <1>1, FeedbackAssumption, ModuloAssumption
           DEF HandleCanFrame, LinkTyped
  <2>5. timedOut' \in BOOLEAN
    <3>1. CASE timedOut' = FALSE
          BY <3>1
    <3>2. CASE timedOut' = timedOut
          BY <3>2 DEF LinkTyped
    <3>3. QED  BY <1>1, <3>1, <3>2 DEF HandleCanFrame
  <2>6. fatal' \in BOOLEAN
        BY <1>1 DEF HandleCanFrame, LinkTyped
  <2>7. QED  BY <2>1, <2>2, <2>3, <2>4, <2>5, <2>6 DEF LinkTyped
<1>2. CASE HandleBadFrame
      BY <1>2, FeedbackAssumption, ModuloAssumption
         DEF HandleBadFrame, LinkTyped
<1>3. CASE HandleCanError
  <2>1. fatal' = TRUE /\ healthy' = FALSE
        BY <1>3 DEF HandleCanError
  <2>2. /\ baseline' \in Counters \cup {None}
        /\ recovered' \in 0 .. RecoveryFrames
        BY <1>3, FeedbackAssumption, ModuloAssumption DEF HandleCanError
  <2>3. UNCHANGED <<latest, age, timedOut>>
        BY <1>3 DEF HandleCanError
  <2>4. QED  BY <2>1, <2>2, <2>3 DEF LinkTyped
<1>4. CASE PublishVehicleState
      BY <1>4, MarkTyped DEF PublishVehicleState, LinkTyped
<1>5. CASE PublishDiagnostics
      BY <1>5, MarkTyped DEF PublishDiagnostics, LinkTyped
<1>6. CASE FeedbackTick
      BY <1>6, OlderTyped, FeedbackAssumption, ModuloAssumption
         DEF FeedbackTick, LinkTyped
<1>7. CASE UNCHANGED link
      BY <1>7 DEF link, LinkTyped
<1>8. QED
      BY <1>1, <1>2, <1>3, <1>4, <1>5, <1>6, <1>7
      DEF FeedbackNext, PollEndpoint, HandleCanonicalCommand, feedback

\* A canonical fault is one of the reports, or none.
LEMMA CanonicalFaultTyped ==
    CanonicalTyped => CanonicalFault \in Reports \cup {"None"}
BY EndpointTyped DEF CanonicalTyped, CanonicalFault, Reports

\* What is published is a report.
LEMMA ComposedTyped ==
    ASSUME CanonicalTyped PROVE Composed \in Reports
<1>1. CASE fatal \/ ~healthy' \/ latest = "fault"
      BY <1>1 DEF Composed, VehicleFirst, Reports
<1>2. CASE ~(fatal \/ ~healthy' \/ latest = "fault")
  <2>1. CASE CanonicalFault = "None"
        BY <1>2, <2>1 DEF Composed, VehicleFirst, Reports
  <2>2. CASE CanonicalFault # "None"
    <3>1. Composed = CanonicalFault
          BY <1>2, <2>2 DEF Composed, VehicleFirst
    <3>2. QED  BY <2>2, <3>1, CanonicalFaultTyped
  <2>3. QED  BY <2>1, <2>2
<1>3. QED  BY <1>1, <1>2

\* Every step keeps what is around the link well typed.
LEMMA OutsideTypedKept ==
    OutsideTyped /\ CanonicalTyped /\ [FeedbackNext]_feedback => OutsideTyped'
<1> SUFFICES ASSUME OutsideTyped, CanonicalTyped, [FeedbackNext]_feedback
             PROVE  OutsideTyped'
    OBVIOUS
<1>1. ASSUME NEW counter \in Counters, NEW signals \in Signals,
             HandleCanFrame(counter, signals)
      PROVE  OutsideTyped'
  <2>1. row' \in 0 .. RecoveryFrames
        BY <1>1, OlderTyped, FeedbackAssumption, ModuloAssumption
        DEF HandleCanFrame, OutsideTyped
  <2>2. QED  BY <1>1, <2>1 DEF HandleCanFrame, OutsideTyped
<1>2. CASE HandleBadFrame
      BY <1>2, FeedbackAssumption, ModuloAssumption
         DEF HandleBadFrame, OutsideTyped
<1>3. CASE HandleCanError
      BY <1>3 DEF HandleCanError, OutsideTyped
<1>4. CASE PublishVehicleState
      BY <1>4, ComposedTyped DEF PublishVehicleState, OutsideTyped
<1>5. CASE PublishDiagnostics
  <2>1. exited' \in BOOLEAN
        BY <1>5 DEF PublishDiagnostics, HealthyWithoutCommand
  <2>2. receiving' \in BOOLEAN
        BY <1>5 DEF PublishDiagnostics
  <2>3. QED  BY <1>5, <2>1, <2>2 DEF PublishDiagnostics, OutsideTyped
<1>6. CASE UNCHANGED outside
      BY <1>6 DEF outside, OutsideTyped
<1>7. QED
      BY <1>1, <1>2, <1>3, <1>4, <1>5, <1>6
      DEF FeedbackNext, PollEndpoint, HandleCanonicalCommand, FeedbackTick,
          feedback

-----------------------------------------------------------------------------
\* An accepted frame adds at least as much to the row as to the count.
LEMMA FrameCovered ==
    ASSUME LinkTyped, OutsideTyped, RowCovers,
           NEW counter \in Counters, NEW signals \in Signals,
           HandleCanFrame(counter, signals)
    PROVE  RowCovers'
<1>1. counter # None
      BY CanonicalAssumption, FeedbackAssumption, ModuloAssumption DEF Counters
<1>2. CASE Accepted(counter) /\ baseline = None
  <2>1. recovered = 0 /\ recovered' \in {0, 1}
        BY <1>2 DEF HandleCanFrame, RowCovers, CountAfterAccept
  <2>2. row' >= 1
        BY FeedbackAssumption, ModuloAssumption
           DEF HandleCanFrame, Older, OutsideTyped
  <2>3. baseline' = counter /\ lastFrame' = counter
        BY <1>2 DEF HandleCanFrame, Baseline
  <2>4. row' \in Nat
        BY FeedbackAssumption, ModuloAssumption
           DEF HandleCanFrame, Older, OutsideTyped
  <2>5. recovered' <= row'
        BY <2>1, <2>2, <2>4
  <2>6. QED  BY <1>1, <2>3, <2>5 DEF RowCovers
<1>3. CASE Accepted(counter) /\ baseline # None
  <2>1. lastFrame = Pred(counter)
        BY <1>3 DEF Accepted, RowCovers
  <2>2. row' = Older(row, RecoveryFrames) /\ recovered <= row
        BY <2>1 DEF HandleCanFrame, RowCovers
  <2>3. recovered' <= row'
        BY <1>3, <2>2, FeedbackAssumption, ModuloAssumption
        DEF HandleCanFrame, CountAfterAccept, Older, LinkTyped, OutsideTyped
  <2>4. baseline' = counter /\ lastFrame' = counter
        BY <1>3 DEF HandleCanFrame, Baseline
  <2>5. QED  BY <1>1, <2>3, <2>4 DEF RowCovers
<1>4. CASE ~Accepted(counter)
  <2>1. recovered' = 0 /\ row' >= 0
        BY <1>4, FeedbackAssumption, ModuloAssumption
        DEF HandleCanFrame, CountAfterReject, Older, OutsideTyped
  <2>2. baseline' \in {None, counter} /\ lastFrame' = counter
        BY <1>4 DEF HandleCanFrame, Baseline
  <2>3. QED  BY <2>1, <2>2 DEF RowCovers
<1>5. QED  BY <1>2, <1>3, <1>4

\* A look at the age of the last frame only takes back.
LEMMA MarkCovered ==
    ASSUME OutsideTyped, RowCovers, MarkCanTimeout,
           UNCHANGED <<lastFrame, row>>
    PROVE  RowCovers'
BY FeedbackAssumption, ModuloAssumption
   DEF OutsideTyped, RowCovers, MarkCanTimeout

\* The row of frames on the bus covers the count of the recovery.
LEMMA RowCoversKept ==
    LinkTyped /\ OutsideTyped /\ RowCovers /\ [FeedbackNext]_feedback
      => RowCovers'
<1> SUFFICES ASSUME LinkTyped, OutsideTyped, RowCovers,
    [FeedbackNext]_feedback
             PROVE  RowCovers'
    OBVIOUS
<1>1. ASSUME NEW counter \in Counters, NEW signals \in Signals,
             HandleCanFrame(counter, signals)
      PROVE  RowCovers'
      BY <1>1, FrameCovered
<1>2. CASE HandleBadFrame
      BY <1>2 DEF HandleBadFrame, RowCovers
<1>3. CASE HandleCanError
      BY <1>3, FeedbackAssumption, ModuloAssumption
         DEF HandleCanError, RowCovers, OutsideTyped
<1>4. CASE PublishVehicleState
      BY <1>4, MarkCovered DEF PublishVehicleState
<1>5. CASE PublishDiagnostics
      BY <1>5, MarkCovered DEF PublishDiagnostics
<1>6. CASE UNCHANGED <<recovered, baseline, lastFrame, row>>
      BY <1>6 DEF RowCovers
<1>7. QED
      BY <1>1, <1>2, <1>3, <1>4, <1>5, <1>6
      DEF FeedbackNext, PollEndpoint, HandleCanonicalCommand, FeedbackTick,
          feedback,
          link, outside

\* The I/O thread only ends with a fatal error or with the process.
LEMMA DeathKnownKept == DeathKnown /\ [FeedbackNext]_feedback => DeathKnown'
<1> SUFFICES ASSUME DeathKnown, [FeedbackNext]_feedback PROVE DeathKnown'
    OBVIOUS
<1>1. CASE UNCHANGED <<receiving, fatal, exited>>
      BY <1>1 DEF DeathKnown
<1>2. CASE HandleCanError
      BY <1>2 DEF HandleCanError, DeathKnown
<1>3. CASE PublishVehicleState
  <2>1. exited' = TRUE \/ UNCHANGED <<receiving, fatal, exited>>
        BY <1>3 DEF PublishVehicleState
  <2>2. QED  BY <1>1, <2>1 DEF DeathKnown
<1>4. CASE PublishDiagnostics
  <2>1. CASE HealthyWithoutCommand
        BY <1>4, <2>1 DEF PublishDiagnostics, DeathKnown
  <2>2. CASE ~HealthyWithoutCommand
        BY <1>4, <2>2 DEF PublishDiagnostics, DeathKnown, Running
  <2>3. QED  BY <2>1, <2>2
<1>5. QED
      BY <1>1, <1>2, <1>3, <1>4
      DEF FeedbackNext, HandleCanFrame, HandleBadFrame, PollEndpoint,
          HandleCanonicalCommand, FeedbackTick, feedback, link, outside

-----------------------------------------------------------------------------
LEMMA FeedbackInitInv == FeedbackInit => FeedbackInv
<1> SUFFICES ASSUME FeedbackInit PROVE FeedbackInv
    OBVIOUS
<1> USE CanonicalAssumption, FeedbackAssumption, ModuloAssumption
   DEF FeedbackInit, CanonicalInit
<1>1. CanonicalTyped
      BY DEF CanonicalTyped
<1>2. LinkTyped
  <2>1. recovered \in 0 .. RecoveryFrames /\ age \in 0 .. CanTimeout
        OBVIOUS
  <2>2. healthy = FALSE /\ timedOut = FALSE /\ fatal = FALSE
        /\ baseline = None /\ latest = None
        OBVIOUS
  <2>3. QED  BY ONLY <2>1, <2>2 DEF LinkTyped
<1>3. OutsideTyped
  <2>1. row \in 0 .. RecoveryFrames /\ published \in Reports
        BY DEF Reports
  <2>2. receiving = TRUE /\ exited = FALSE /\ lastFrame = None
        OBVIOUS
  <2>3. QED  BY ONLY <2>1, <2>2 DEF OutsideTyped
<1>4. CanonicalInv
      BY DEF CanonicalInv, CommandFromConfirmed, ReportedIsConfirmed,
             CandidateSeen, AcceptedLast, Endpoint, Reported, Observations
<1>5. RowCovers /\ DeathKnown
      BY DEF RowCovers, DeathKnown
<1>6. QED
      BY <1>1, <1>2, <1>3, <1>4, <1>5
      DEF FeedbackInv, FeedbackTypeOK, LinkTyped, OutsideTyped

LEMMA FeedbackNextInv == FeedbackInv /\ [FeedbackNext]_feedback => FeedbackInv'
<1> SUFFICES ASSUME FeedbackInv, [FeedbackNext]_feedback PROVE FeedbackInv'
    OBVIOUS
<1>1. FeedbackTypeOK /\ CanonicalInv /\ RowCovers /\ DeathKnown
      BY DEF FeedbackInv
<1>2. CanonicalTyped /\ LinkTyped /\ OutsideTyped
      BY <1>1 DEF FeedbackTypeOK, LinkTyped, OutsideTyped
<1>3. CanonicalTyped' /\ CanonicalInv'
      BY <1>1, <1>2, FeedbackIsCanonicalStep, CanonicalTypedKept,
         CanonicalInvKept
<1>4. LinkTyped' /\ OutsideTyped'
      BY <1>2, LinkTypedKept, OutsideTypedKept
<1>5. FeedbackTypeOK'
      BY <1>3, <1>4 DEF FeedbackTypeOK, LinkTyped, OutsideTyped
<1>6. RowCovers' /\ DeathKnown'
      BY <1>1, <1>2, RowCoversKept, DeathKnownKept
<1>7. QED  BY <1>3, <1>5, <1>6 DEF FeedbackInv

(***************************************************************************)
(* The inductive invariant of the feedback path.                           *)
(***************************************************************************)
THEOREM FeedbackInvInvariant == FeedbackSpec => []FeedbackInv
BY FeedbackInitInv, FeedbackNextInv, PTL DEF FeedbackSpec

(***************************************************************************)
(* Every reachable state of the feedback path is type-correct.             *)
(***************************************************************************)
THEOREM FeedbackTypeCorrect == FeedbackSpec => []FeedbackTypeOK
<1>1. FeedbackInv => FeedbackTypeOK
      BY DEF FeedbackInv
<1>2. QED  BY FeedbackInvInvariant, <1>1, PTL

(***************************************************************************)
(* The link becomes healthy only at the end of a full row of valid,        *)
(* consecutive frames on the bus (handle_can_frame).                       *)
(***************************************************************************)
THEOREM LinkProvenHolds == FeedbackSpec => LinkProven
<1>1. FeedbackInv /\ FeedbackInv' /\ [FeedbackNext]_feedback
        => [healthy' /\ ~healthy => row' = RecoveryFrames]_feedback
  <2> SUFFICES ASSUME FeedbackInv, FeedbackInv', [FeedbackNext]_feedback,
                      healthy', ~healthy
               PROVE  row' = RecoveryFrames
      OBVIOUS
  <2>1. PICK counter \in Counters, signals \in Signals :
           HandleCanFrame(counter, signals)
        BY DEF FeedbackNext, HandleBadFrame, HandleCanError,
               PublishVehicleState,
               PublishDiagnostics, MarkCanTimeout, PollEndpoint,
               HandleCanonicalCommand, FeedbackTick, feedback, link
  <2>2. recovered' >= RecoveryFrames
        BY <2>1 DEF HandleCanFrame
  <2>3. recovered' <= row' /\ row' \in 0 .. RecoveryFrames
        /\ recovered' \in 0 .. RecoveryFrames
        BY DEF FeedbackInv, RowCovers, FeedbackTypeOK
  <2>4. QED  BY <2>2, <2>3, FeedbackAssumption, ModuloAssumption
<1>2. QED
      BY FeedbackInvInvariant, <1>1, PTL DEF FeedbackSpec, LinkProven

(***************************************************************************)
(* A dead I/O thread is what every later VehicleState reports              *)
(* (handle_can_error, compose_vehicle_state_locked).                       *)
(***************************************************************************)
THEOREM DeathReportedHolds == FeedbackSpec => DeathReported
<1>1. FeedbackInv /\ [FeedbackNext]_feedback
        => [PublishVehicleState /\ ~receiving => published' = "CanIo"]_feedback
  <2> SUFFICES ASSUME FeedbackInv, PublishVehicleState, ~receiving
               PROVE  published' = "CanIo"
      OBVIOUS
  <2>1. fatal
        BY DEF FeedbackInv, DeathKnown, PublishVehicleState, Running
  <2>2. published' = Composed
        BY <2>1 DEF PublishVehicleState, VehicleFirst
  <2>3. Composed = "CanIo"
        BY <2>1 DEF Composed, VehicleFirst
  <2>4. QED  BY <2>2, <2>3
<1>2. QED
      BY FeedbackInvInvariant, <1>1, PTL DEF FeedbackSpec, DeathReported

\* When neither side is at fault, the command counts.
LEMMA NoFaultAuthorized ==
    ASSUME FeedbackInv, CanonicalFault = "None", command # None
    PROVE  Authorized
<1>1. rejected = "None"
      BY DEF FeedbackInv, CanonicalInv, AcceptedLast
<1>2. Endpoint \in Publishers
      BY DEF FeedbackInv, CanonicalInv, CommandFromConfirmed
<1>3. Endpoint # "ambiguous"
      BY <1>2, CanonicalAssumption
<1>4. WatchdogHealthy
      BY <1>1, <1>2, <1>3 DEF CanonicalFault
<1>5. QED  BY <1>1, <1>2, <1>4 DEF Authorized

\* What is published without a fault code and of a vehicle without a fault.
LEMMA PublishesBacked ==
    ASSUME FeedbackInv, NEW report \in {"Driving", "SafeStop"},
           Publishes(report)
    PROVE  receiving /\ age < CanTimeout /\ Authorized
<1>1. published' = Composed /\ (VehicleFirst \/ ~HealthyWithoutCommand)
      BY DEF Publishes, PublishVehicleState
<1>2. ~fatal /\ healthy' /\ latest # "fault"
      BY <1>1 DEF Publishes, Composed, VehicleFirst
<1>3. ~VehicleFirst
      BY <1>2 DEF VehicleFirst
<1>4. CanonicalFault = "None"
  <2>1. ASSUME CanonicalFault # "None" PROVE FALSE
    <3>1. Composed = CanonicalFault
          BY <1>2, <1>3, <2>1 DEF Composed
    <3>2. CanonicalFault \in {"Ambiguous", "Invalid", "CanonicalTimeout",
                              "None"}
          BY EndpointTyped
          DEF FeedbackInv, FeedbackTypeOK, CanonicalTyped, CanonicalFault
    <3>3. QED  BY <1>1, <2>1, <3>1, <3>2 DEF Publishes
  <2>2. QED  BY <2>1
<1>5. command # None
      BY <1>1, <1>3, <1>4 DEF HealthyWithoutCommand
<1>6. Authorized
      BY <1>4, <1>5, NoFaultAuthorized
<1>7. receiving
      BY <1>2 DEF FeedbackInv, DeathKnown, Publishes, PublishVehicleState,
                  Running
<1>8. ~TimedOutNow
      BY <1>2 DEF Publishes, PublishVehicleState, MarkCanTimeout
<1>9. age < CanTimeout
      BY <1>8, FeedbackAssumption, ModuloAssumption
         DEF TimedOutNow, FeedbackInv, FeedbackTypeOK
<1>10. QED  BY <1>6, <1>7, <1>9

(***************************************************************************)
(* A VehicleState that shows the vehicle driving is backed by a live I/O   *)
(* thread, a frame within its timeout and an authorised command            *)
(* (compose_vehicle_state_locked).                                         *)
(***************************************************************************)
THEOREM DrivingBackedHolds == FeedbackSpec => DrivingBacked
<1>1. FeedbackInv /\ [FeedbackNext]_feedback
        => [Publishes("Driving")
              => receiving /\ age < CanTimeout /\ Authorized]_feedback
      BY PublishesBacked
<1>2. QED
      BY FeedbackInvInvariant, <1>1, PTL DEF FeedbackSpec, DrivingBacked

(***************************************************************************)
(* A lost gateway is never reported as a plain SAFE_STOP                   *)
(* (compose_vehicle_state_locked).                                         *)
(***************************************************************************)
THEOREM CanonicalFaultVisibleHolds == FeedbackSpec => CanonicalFaultVisible
<1>1. FeedbackInv /\ [FeedbackNext]_feedback
        => [Publishes("SafeStop") => Authorized]_feedback
      BY PublishesBacked
<1>2. QED
      BY FeedbackInvInvariant, <1>1, PTL
         DEF FeedbackSpec, CanonicalFaultVisible
=============================================================================
