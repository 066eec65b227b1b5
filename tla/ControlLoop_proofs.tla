------------------------- MODULE ControlLoop_proofs -------------------------
(***************************************************************************)
(* For any publishers, windows, timeouts and number of failures: the       *)
(* robot's adapter never finds a healthy watchdog without a command, and   *)
(* moves the robot only on a recent command of the confirmed gateway; and  *)
(* its platform without a fault was really there.                          *)
(***************************************************************************)
EXTENDS ControlLoop, CanonicalInput_proofs, RobotPlatform

\* One step of the adapter, whoever takes it.
AdapterStep ==
    \/ \E observation \in Observations : PollCanonicalEndpoint(observation)
    \/ \E p \in Publishers, content \in Contents :
            HandleCanonicalCommand(p, content)
    \/ PlatformChanges \/ PublishControllerCommand \/ PublishVehicleState
    \/ AdapterTime
    \/ UNCHANGED adapter

LEMMA FaultCodeTyped ==
    CanonicalTyped /\ platform \in {"None", "Fault"}
      => FaultCode \in {"Ambiguous", "Invalid", "Platform", "Timeout",
                        "Throws", "None"}
<1> SUFFICES ASSUME CanonicalTyped, platform \in {"None", "Fault"}
             PROVE  FaultCode \in {"Ambiguous", "Invalid", "Platform",
                                   "Timeout", "Throws", "None"}
    OBVIOUS
<1>1. Endpoint \in Publishers \cup {"unavailable", "unstable", "ambiguous"}
      BY EndpointTyped
<1>2. rejected \in {"None", "Endpoint", "Ambiguous", "Invalid"}
      BY DEF CanonicalTyped
<1>3. CASE Endpoint = "ambiguous" \/ rejected = "Ambiguous"
      BY <1>3, CanonicalAssumption DEF FaultCode
<1>4. CASE Endpoint \in {"unavailable", "unstable"} /\ rejected # "Ambiguous"
      BY <1>4, CanonicalAssumption DEF FaultCode, Observations
<1>5. CASE Endpoint \in Publishers /\ rejected \in {"Endpoint", "Invalid"}
      BY <1>5, CanonicalAssumption DEF FaultCode, Observations
<1>6. CASE Endpoint \in Publishers /\ rejected = "None"
  <2>1. CASE platform = "Fault"
        BY <1>6, <2>1, CanonicalAssumption DEF FaultCode, Observations
  <2>2. CASE platform = "None"
        BY <1>6, <2>2, CanonicalAssumption DEF FaultCode, Observations
  <2>3. QED  BY <2>1, <2>2
<1>7. QED  BY <1>1, <1>2, <1>3, <1>4, <1>5, <1>6

\* FaultCode only trusts the robot to a confirmed publisher.
LEMMA NoFaultMeans ==
    ASSUME CanonicalTyped, platform \in {"None", "Fault"},
           FaultCode \in {"None", "Throws"}
    PROVE  /\ Endpoint \in Publishers /\ rejected = "None"
           /\ platform = "None" /\ WatchdogHealthy
           /\ (FaultCode = "None") <=> (command # None)
<1>1. Endpoint \in Publishers \cup {"unavailable", "unstable", "ambiguous"}
      BY EndpointTyped
<1>2. rejected \in {"None", "Endpoint", "Ambiguous", "Invalid"}
      BY DEF CanonicalTyped
<1>3. Endpoint # "ambiguous" /\ rejected # "Ambiguous"
  <2>1. Endpoint = "ambiguous" \/ rejected = "Ambiguous"
          => FaultCode = "Ambiguous"
        BY CanonicalAssumption DEF FaultCode
  <2>2. QED  BY <2>1
<1>4. Endpoint \in Publishers
      BY <1>1, <1>3 DEF FaultCode
<1>5. rejected = "None"
      BY <1>2, <1>3, <1>4, CanonicalAssumption DEF FaultCode, Observations
<1>6. platform = "None"
      BY <1>3, <1>4, <1>5, CanonicalAssumption DEF FaultCode, Observations
<1>7. FaultCode = CASE ~WatchdogHealthy -> "Timeout"
                    [] WatchdogHealthy /\ command = None -> "Throws"
                    [] WatchdogHealthy /\ command # None -> "None"
      BY <1>3, <1>4, <1>5, <1>6, CanonicalAssumption
      DEF FaultCode, Observations
<1>8. WatchdogHealthy
      BY <1>7
<1>9. QED  BY <1>4, <1>5, <1>6, <1>7, <1>8

-----------------------------------------------------------------------------
LEMMA PollTyped ==
    ASSUME CanonicalTyped, NEW observation \in Observations,
           PollCanonicalEndpoint(observation)
    PROVE  CanonicalTyped'
<1> USE CanonicalAssumption DEF CanonicalTyped
<1>1. stable' \in Observations \cup {None}
      /\ candidate' \in Observations \cup {None}
      /\ candidateAge' \in 0 .. StableWindow
      BY DEF PollCanonicalEndpoint, Observe, tracker
<1>2. confirmed' \in Publishers \cup {None}
      /\ command' \in {None, "motion", "hold"}
      /\ rejected' \in {"None", "Endpoint", "Ambiguous", "Invalid"}
      /\ silence' \in (0 .. WatchdogTimeout + 1) \cup {None}
      BY DEF PollCanonicalEndpoint, StartsOver, NewPublisher, mailbox
<1>3. author' \in Publishers \cup {None}
      /\ seen' \in Observations \cup {None}
      /\ span' \in 0 .. StableWindow
      BY DEF PollCanonicalEndpoint
<1>4. QED  BY <1>1, <1>2, <1>3

\* As PollKeepsSeen, whose tracker and history are the same.
LEMMA RobotPollKeepsSeen ==
    ASSUME CanonicalTyped, CandidateSeen,
           NEW observation \in Observations,
           PollCanonicalEndpoint(observation)
    PROVE  CandidateSeen'
<1> USE CanonicalAssumption
    DEF CanonicalTyped, CandidateSeen, PollCanonicalEndpoint
<1>0. observation # None
      BY DEF Observations
<1>1. CASE observation = stable
           /\ candidate' = None /\ candidateAge' = 0 /\ UNCHANGED stable
      BY <1>1
<1>2. CASE /\ observation \notin {stable, candidate}
           /\ candidate' = observation /\ candidateAge' = 0
           /\ UNCHANGED stable
      BY <1>0, <1>2
<1>3. CASE observation = candidate /\ candidateAge < StableWindow
           /\ UNCHANGED tracker
      BY <1>0, <1>3 DEF tracker
<1>4. CASE /\ observation = candidate /\ candidateAge >= StableWindow
           /\ stable' = candidate /\ candidate' = None /\ candidateAge' = 0
      BY <1>4
<1>5. QED  BY <1>1, <1>2, <1>3, <1>4 DEF Observe

LEMMA AdapterTypedKept ==
    AdapterTyped /\ AdapterStep => AdapterTyped'
<1> SUFFICES ASSUME AdapterTyped, AdapterStep
             PROVE  AdapterTyped'
    OBVIOUS
<1>0. CanonicalTyped /\ platform \in {"None", "Fault"}
      BY DEF AdapterTyped
<1>1. CASE \E observation \in Observations :
               PollCanonicalEndpoint(observation)
      BY <1>0, <1>1, PollTyped DEF AdapterTyped, PollCanonicalEndpoint
<1>2. CASE \E p \in Publishers, content \in Contents :
               HandleCanonicalCommand(p, content)
  <2>1. CanonicalTyped'
        BY <1>0, <1>2, CanonicalTypedKept
        DEF HandleCanonicalCommand, CanonicalStep
  <2>2. QED  BY <1>2, <2>1 DEF AdapterTyped, HandleCanonicalCommand
<1>3. CASE PlatformChanges
  <2>1. CanonicalTyped'
        BY <1>0, <1>3, CanonicalTypedKept DEF PlatformChanges, CanonicalStep
  <2>2. QED  BY <1>3, <2>1 DEF AdapterTyped, PlatformChanges
<1>4. CASE PublishControllerCommand
  <2>1. CanonicalTyped'
        BY <1>0, <1>4, CanonicalTypedKept
        DEF PublishControllerCommand, CanonicalStep
  <2>2. QED  BY <1>4, <2>1 DEF AdapterTyped, PublishControllerCommand
<1>5. CASE PublishVehicleState
  <2>1. CanonicalTyped'
        BY <1>0, <1>5, CanonicalTypedKept
        DEF PublishVehicleState, CanonicalStep
  <2>2. FaultCode = "None" => command \in {"motion", "hold"}
        BY <1>0, NoFaultMeans DEF CanonicalTyped
  <2>3. report' \in {"Ambiguous", "Invalid", "Platform", "Timeout", "Throws",
                     "standby", "running"}
        BY <1>0, <1>5, <2>2, FaultCodeTyped DEF PublishVehicleState
  <2>4. QED  BY <1>5, <2>1, <2>3 DEF AdapterTyped, PublishVehicleState
<1>6. CASE AdapterTime
  <2>1. CanonicalTyped'
        BY <1>0, <1>6, CanonicalTypedKept DEF AdapterTime, CanonicalStep
  <2>2. QED  BY <1>6, <2>1 DEF AdapterTyped, AdapterTime
<1>7. CASE UNCHANGED adapter
  <2>1. CanonicalTyped'
        BY <1>0, <1>7, CanonicalTypedKept DEF adapter, CanonicalStep
  <2>2. QED  BY <1>7, <2>1 DEF AdapterTyped, adapter
<1>8. QED
      BY <1>1, <1>2, <1>3, <1>4, <1>5, <1>6, <1>7 DEF AdapterStep

-----------------------------------------------------------------------------
LEMMA PollKeepsInv ==
    ASSUME CanonicalTyped, AdapterInv, NEW observation \in Observations,
           PollCanonicalEndpoint(observation)
    PROVE  AdapterInv'
<1>1. CandidateSeen'
      BY RobotPollKeepsSeen DEF AdapterInv
<1>2. CASE NewPublisher /\ StartsOver
      BY <1>1, <1>2
      DEF AdapterInv, StartsOver, ReportedIsConfirmed, CommandOfNoted,
          FedByCommand
<1>3. CASE ~NewPublisher /\ UNCHANGED mailbox
  <2>1. ReportedIsConfirmed'
        BY <1>3 DEF NewPublisher, mailbox, ReportedIsConfirmed
  <2>2. CommandOfNoted'
        BY <1>3 DEF AdapterInv, PollCanonicalEndpoint, mailbox, CommandOfNoted
  <2>3. FedByCommand'
        BY <1>3 DEF AdapterInv, mailbox, FedByCommand
  <2>4. QED  BY <1>1, <2>1, <2>2, <2>3 DEF AdapterInv
<1>4. QED  BY <1>2, <1>3 DEF PollCanonicalEndpoint

LEMMA AdapterInvKept ==
    CanonicalTyped /\ AdapterInv /\ AdapterStep => AdapterInv'
<1> SUFFICES ASSUME CanonicalTyped, AdapterInv, AdapterStep
             PROVE  AdapterInv'
    OBVIOUS
<1>1. ASSUME NEW p \in Publishers, NEW content \in Contents,
             Accept(p, content)
      PROVE  AdapterInv'
  <2>1. Endpoint' = Endpoint /\ confirmed' = confirmed
        BY <1>1 DEF Accept, tracker, Endpoint
  <2>2. p = Endpoint /\ Endpoint \in Publishers /\ content # "bad"
        BY <1>1, CanonicalAssumption
        DEF Accept, GuardReason, CanonicalTyped, Endpoint, Reported,
            Observations
  <2>3. command' # None
        BY <1>1, <2>2, CanonicalAssumption DEF Accept, Contents
  <2>4. CandidateSeen'
        BY <1>1 DEF Accept, tracker, AdapterInv, CandidateSeen
  <2>5. ReportedIsConfirmed' /\ CommandOfNoted' /\ FedByCommand'
        BY <1>1, <2>1, <2>2, <2>3
        DEF Accept, AdapterInv, ReportedIsConfirmed, CommandOfNoted,
            FedByCommand
  <2>6. QED  BY <2>4, <2>5 DEF AdapterInv
<1>2. ASSUME NEW p \in Publishers, NEW content \in Contents,
             Reject(p, content)
      PROVE  AdapterInv'
  <2>1. /\ Endpoint' = Endpoint /\ confirmed' = confirmed
        /\ command' = None /\ rejected' # "None"
        BY <1>2 DEF Reject, tracker, Endpoint
  <2>2. CandidateSeen'
        BY <1>2 DEF Reject, tracker, AdapterInv, CandidateSeen
  <2>3. QED
        BY <2>1, <2>2
        DEF AdapterInv, ReportedIsConfirmed, CommandOfNoted, FedByCommand
<1>3. CASE CanonicalTime
  <2>1. /\ Endpoint' = Endpoint /\ confirmed' = confirmed
        /\ command' = command /\ author' = author /\ rejected' = rejected
        /\ silence = None => silence' = None
        BY <1>3 DEF CanonicalTime, Endpoint
  <2>2. CandidateSeen'
        BY <1>3, CanonicalAssumption
        DEF CanonicalTime, Older, AdapterInv, CandidateSeen, CanonicalTyped
  <2>3. QED
        BY <2>1, <2>2
        DEF AdapterInv, ReportedIsConfirmed, CommandOfNoted, FedByCommand
<1>4. CASE UNCHANGED canonical
      BY <1>4
      DEF canonical, tracker, mailbox, AdapterInv, ReportedIsConfirmed,
          CandidateSeen, CommandOfNoted, FedByCommand, Endpoint
<1>5. QED
      BY <1>1, <1>2, <1>3, <1>4, PollKeepsInv
      DEF AdapterStep, HandleCanonicalCommand, PlatformChanges,
          PublishControllerCommand, PublishVehicleState, AdapterTime, adapter

-----------------------------------------------------------------------------
\* Every action of the loop is one step of the adapter, or none.
LEMMA LoopIsAdapterStep ==
    TypeOK /\ [Next]_vars => AdapterStep
<1> SUFFICES ASSUME TypeOK, [Next]_vars
             PROVE  AdapterStep
    OBVIOUS
<1>1. CASE Configure \/ Activate \/ Deactivate \/ Cleanup \/ RunOutputTick
      BY <1>1
      DEF Configure, Activate, Deactivate, Cleanup, RunOutputTick,
          AdapterStep
<1>2. CASE Discovery
  <2>1. Truth \in Observations
        BY DEF Truth, TypeOK, Observations
  <2>2. used \cup {"unavailable", "ambiguous"} \subseteq Observations
        BY DEF TypeOK, Observations
  <2>3. \E observation \in Observations : PollCanonicalEndpoint(observation)
        BY <1>2, <2>1, <2>2 DEF Discovery
  <2>4. QED  BY <2>3 DEF AdapterStep
<1>3. CASE CommandArrives
  <2>1. wire.from \in Publishers /\ wire.content \in Contents
        BY <1>3 DEF CommandArrives, TypeOK, Contents
  <2>2. "bad" \in Contents
        BY DEF Contents
  <2>3. QED  BY <1>3, <2>1, <2>2 DEF CommandArrives, AdapterStep
<1>4. CASE Report
      BY <1>4 DEF Report, AdapterStep
<1>5. CASE Drive
      BY <1>5 DEF Drive, AdapterStep
<1>6. CASE PlatformRecovers \/ PlatformFails
      BY <1>6 DEF PlatformRecovers, PlatformFails, AdapterStep
<1>7. CASE Tick
      BY <1>7 DEF Tick, AdapterStep
<1>8. CASE UNCHANGED vars
      BY <1>8 DEF vars, AdapterStep
<1>9. QED
      BY <1>1, <1>2, <1>3, <1>4, <1>5, <1>6, <1>7, <1>8 DEF Next

\* The types of the gateway's side, once the adapter's are known.
LEMMA GatewayTypedKept ==
    ASSUME TypeOK, HasPublisher, Next, AdapterTyped'
    PROVE  TypeOK' /\ HasPublisher'
<1> USE LoopAssumption DEF TypeOK, HasPublisher
<1>1. CASE Configure
  <2>1. PICK p \in Publishers : gid' = p /\ used' = used \cup {p}
        BY <1>1 DEF Configure
  <2>2. p # None
        BY CanonicalAssumption DEF Observations
  <2>3. gid' \in Publishers \cup {None} /\ used' \subseteq Publishers
        BY <2>1
  <2>4. healthy' \in 0 .. RecoveryTicks
        BY <1>1 DEF Configure
  <2>5. /\ phase' = "inactive" /\ vehicle' = None /\ ever' = FALSE
        /\ UNCHANGED <<wire, due, glitches, deactivations>>
        BY <1>1 DEF Configure, bounds
  <2>6. HasPublisher'
        BY <2>1, <2>2
  <2>7. QED  BY <2>3, <2>4, <2>5, <2>6
<1>2. CASE Activate
      BY <1>2 DEF Activate, bounds
<1>3. CASE Deactivate
      BY <1>3 DEF Deactivate
<1>4. CASE Cleanup
      BY <1>4 DEF Cleanup
<1>5. CASE RunOutputTick
  <2>1. due' \subseteq Timers /\ UNCHANGED <<phase, gid, used, vehicle, ever,
                                           glitches, deactivations>>
        BY <1>5 DEF RunOutputTick, bounds
  <2>2. healthy' \in 0 .. RecoveryTicks
        BY <1>5 DEF RunOutputTick
  <2>3. CASE phase = "active"
    <3>1. gid \in Publishers
          BY <2>3
    <3>2. \E content \in {"motion", "hold"} :
              wire' = [from |-> gid, content |-> content]
          BY <1>5, <2>3 DEF RunOutputTick
    <3>3. QED  BY <2>1, <2>2, <3>1, <3>2
  <2>4. CASE phase # "active"
        BY <1>5, <2>1, <2>2, <2>4 DEF RunOutputTick
  <2>5. QED  BY <2>3, <2>4
<1>6. CASE Discovery
      BY <1>6 DEF Discovery, Glitch, gateway, bounds
<1>7. CASE CommandArrives
      BY <1>7 DEF CommandArrives, Glitch, gateway, bounds
<1>8. CASE Report
  <2>1. vehicle' \in {None, report'}
        BY <1>8 DEF Report
  <2>2. vehicle' \in {None, "Ambiguous", "Invalid", "Platform", "Timeout",
                      "Throws", "standby", "running"}
        BY <2>1 DEF AdapterTyped
  <2>3. glitches' \in 0 .. MaxGlitches /\ UNCHANGED deactivations
        BY <1>8 DEF Report, Glitch, bounds
  <2>4. QED  BY <1>8, <2>2, <2>3 DEF Report
<1>9. CASE Drive
      BY <1>9 DEF Drive, gateway, bounds
<1>10. CASE PlatformRecovers \/ PlatformFails
      BY <1>10 DEF PlatformRecovers, PlatformFails, Glitch, gateway, bounds
<1>11. CASE Tick
      BY <1>11 DEF Tick, gateway, bounds
<1>12. QED
      BY <1>1, <1>2, <1>3, <1>4, <1>5, <1>6, <1>7, <1>8, <1>9, <1>10, <1>11
      DEF Next

(***************************************************************************)
(* The inductive invariant of the loop, for any number of publishers,      *)
(* failures and operators' requests.                                       *)
(***************************************************************************)
THEOREM LoopInvInvariant == Spec => []LoopInv
<1>1. Init => LoopInv
  <2> SUFFICES ASSUME Init
               PROVE  LoopInv
      OBVIOUS
  <2> USE CanonicalAssumption, LoopAssumption
  <2>1. CanonicalTyped
        BY DEF Init, AdapterInit, CanonicalInit, CanonicalTyped
  <2>2. AdapterTyped
        BY <2>1 DEF Init, AdapterInit, AdapterTyped
  <2>3. TypeOK /\ HasPublisher
    <3>1. phase = "unconfigured" /\ gid = None /\ used = {} /\ vehicle = None
          /\ ever = FALSE /\ wire = None /\ due = Timers
          BY DEF Init
    <3>2. healthy \in 0 .. RecoveryTicks /\ glitches \in 0 .. MaxGlitches
          /\ deactivations \in 0 .. MaxDeactivations
          BY DEF Init
    <3>3. QED  BY <2>2, <3>1, <3>2 DEF TypeOK, HasPublisher
  <2>4. Endpoint \notin Publishers
        BY DEF Init, AdapterInit, CanonicalInit, Endpoint, Reported,
               Observations
  <2>5. AdapterInv
        BY <2>4
        DEF Init, AdapterInit, CanonicalInit, AdapterInv,
            ReportedIsConfirmed, CandidateSeen, CommandOfNoted, FedByCommand
  <2>6. QED  BY <2>3, <2>5 DEF LoopInv
<1>2. LoopInv /\ [Next]_vars => LoopInv'
  <2> SUFFICES ASSUME LoopInv, [Next]_vars
               PROVE  LoopInv'
      OBVIOUS
  <2>1. TypeOK /\ HasPublisher /\ AdapterInv /\ AdapterTyped
        BY DEF LoopInv, TypeOK
  <2>2. AdapterStep
        BY <2>1, LoopIsAdapterStep
  <2>3. AdapterTyped' /\ AdapterInv'
        BY <2>1, <2>2, AdapterTypedKept, AdapterInvKept DEF AdapterTyped
  <2>4. CASE Next
        BY <2>1, <2>3, <2>4, GatewayTypedKept DEF LoopInv
  <2>5. CASE UNCHANGED vars
    <3>1. TypeOK' /\ HasPublisher'
          BY <2>1, <2>3, <2>5
          DEF vars, gateway, bounds, TypeOK, HasPublisher
    <3>2. QED  BY <2>3, <3>1 DEF LoopInv
  <2>6. QED  BY <2>4, <2>5
<1>3. QED  BY <1>1, <1>2, PTL DEF Spec

\* Every reachable state of the loop is type-correct.
THEOREM LoopTypeCorrect == Spec => []TypeOK
<1>1. LoopInv => TypeOK
      BY DEF LoopInv
<1>2. QED  BY <1>1, LoopInvInvariant, PTL

(***************************************************************************)
(* current_fault_code never throws: a watchdog is only healthy on a        *)
(* command that was accepted and not revoked.                              *)
(***************************************************************************)
THEOREM NoThrowHolds == Spec => []NoThrow
<1>1. LoopInv => NoThrow
  <2> SUFFICES ASSUME LoopInv, FaultCode = "Throws"
               PROVE  FALSE
      BY DEF NoThrow
  <2>1. CanonicalTyped /\ platform \in {"None", "Fault"} /\ FedByCommand
        BY DEF LoopInv, TypeOK, AdapterTyped, AdapterInv
  <2>2. rejected = "None" /\ WatchdogHealthy /\ command = None
        BY <2>1, NoFaultMeans
  <2>3. QED  BY <2>1, <2>2 DEF FedByCommand, WatchdogHealthy
<1>2. QED  BY <1>1, LoopInvInvariant, PTL

(***************************************************************************)
(* publish_controller_command only lets a recent command of the confirmed  *)
(* gateway move the robot.                                                 *)
(***************************************************************************)
THEOREM MotionOfConfirmedHolds == Spec => MotionOfConfirmed
<1>1. LoopInv /\ PublishControllerCommand /\ output' = "motion"
        => author = Endpoint /\ stable = seen
           /\ silence \in 0 .. WatchdogTimeout
  <2> SUFFICES ASSUME LoopInv, PublishControllerCommand, output' = "motion"
               PROVE  author = Endpoint /\ stable = seen
                      /\ silence \in 0 .. WatchdogTimeout
      OBVIOUS
  <2>1. CanonicalTyped /\ platform \in {"None", "Fault"} /\ AdapterInv
        BY DEF LoopInv, TypeOK, AdapterTyped
  <2>2. FaultCode = "None"
        BY DEF PublishControllerCommand
  <2>3. Endpoint \in Publishers /\ WatchdogHealthy /\ command # None
        BY <2>1, <2>2, NoFaultMeans
  <2>4. author = Endpoint
        BY <2>1, <2>3 DEF AdapterInv, ReportedIsConfirmed, CommandOfNoted
  <2>5. candidate = None
        BY <2>3, CanonicalAssumption DEF Endpoint, Reported, Observations
  <2>6. stable = seen
        BY <2>1, <2>5 DEF AdapterInv, CandidateSeen
  <2>7. silence \in 0 .. WatchdogTimeout
        BY <2>1, <2>3, CanonicalAssumption
        DEF WatchdogHealthy, CanonicalTyped
  <2>8. QED  BY <2>4, <2>6, <2>7
<1>2. QED
      BY <1>1, LoopInvInvariant, PTL DEF Spec, MotionOfConfirmed

-----------------------------------------------------------------------------
\* What a monitor makes of a look is a monitor, and what it says of it.
LEMMA ObservedController ==
    ASSUME NEW c \in Monitors, NEW view \in ControllerViews
    PROVE  LET o == ObserveController(c, view) IN
           /\ o \in Monitors
           /\ o.state = "healthy"
                => \/ o.stable = view /\ view \in Controllers
                      /\ o.confirmedAge = 0
                   \/ o.stable = c.stable /\ o.stable # Nothing
                      /\ view = "absent" /\ c.confirmedAge <= StateTimeout
                      /\ o.confirmedAge = c.confirmedAge
           /\ o.stable # Nothing
                => \/ o.stable = view /\ view \in Controllers
                      /\ o.confirmedAge = 0
                   \/ o.stable = c.stable /\ o.stable # view
                      /\ o.confirmedAge = c.confirmedAge
<1> USE PlatformAssumption
<1>1. 0 \in 0 .. ControllerWindow /\ 0 \in 0 .. StateTimeout + 1
    OBVIOUS
<1>2. CASE view = "ambiguous"
  <2>1. ObserveController(c, view) = [NoCandidate(c) EXCEPT !.state = "ambiguous"]
      BY <1>2 DEF ObserveController, Lingers
  <2>2. QED  BY <1>1, <1>2, <2>1 DEF NoCandidate, Monitors
<1>3. CASE Lingers(c, view)
  <2>1. ObserveController(c, view) = Linger(c)
      BY <1>3 DEF ObserveController, Lingers
  <2>2. QED  BY <1>1, <1>3, <2>1 DEF Linger, Lingers, NoCandidate, Monitors
<1>4. CASE view \in {"absent", "misfit"} /\ ~Lingers(c, view)
  <2>1. ObserveController(c, view) = Lose(c, view)
      BY <1>4 DEF ObserveController
  <2>2. QED  BY <1>1, <1>4, <2>1 DEF Lose, NoCandidate, Monitors
<1>5. CASE view \in Controllers /\ Proven(c, view)
  <2>1. ObserveController(c, view) = Confirm(view)
      BY <1>5 DEF ObserveController, Lingers
  <2>2. QED  BY <1>1, <1>5, <2>1 DEF Confirm, Monitors
<1>6. CASE view \in Controllers /\ ~Proven(c, view)
  <2>1. ObserveController(c, view) = Stabilize(c, view)
      BY <1>6 DEF ObserveController, Lingers
  <2>2. c.stable # view
      BY <1>6 DEF Proven
  <2>3. Stabilize(c, view) =
          [stable |-> c.stable, candidate |-> view,
           candidateAge |-> IF view # c.candidate THEN 0 ELSE c.candidateAge,
           confirmedAge |-> c.confirmedAge, ever |-> c.ever,
           state |-> "stabilizing"]
      BY DEF Stabilize, Monitors
  <2>4. QED  BY <1>1, <1>6, <2>1, <2>2, <2>3 DEF Monitors
<1>7. QED  BY <1>2, <1>3, <1>4, <1>5, <1>6 DEF ControllerViews

LEMMA PlatformStarts == PlatformInit => PlatformInv
<1> USE PlatformAssumption
<1> SUFFICES ASSUME PlatformInit PROVE PlatformInv
    OBVIOUS
<1>1. /\ 0 \in 0 .. ControllerWindow /\ 0 \in 0 .. StateTimeout + 1
      /\ Unseen \in 0 .. Unseen /\ TooOld \in 0 .. TooOld
    BY DEF Unseen, TooOld
<1>2. PlatformTypeOK
    BY <1>1 DEF PlatformInit, PlatformTypeOK, NewController, Monitors, Answers,
                TfStates
<1>3. ControllerSeen /\ RequestAges /\ HardwareTrue
    BY DEF PlatformInit, NewController, ControllerSeen, RequestAges,
           HardwareTrue
<1>4. QED  BY <1>2, <1>3 DEF PlatformInv

LEMMA ControllerPollKeeps ==
    ASSUME PlatformInv, NEW view \in ControllerViews,
           PollControllerEndpoint(view)
    PROVE  PlatformInv'
<1> USE PlatformAssumption
<1> DEFINE o == ObserveController(controller, view)
<1>1. PlatformTypeOK /\ ControllerSeen /\ RequestAges /\ HardwareTrue
    BY DEF PlatformInv
<1>2. controller \in Monitors /\ shown \in [Controllers -> 0 .. Unseen]
    BY <1>1 DEF PlatformTypeOK
<1>3. /\ controller' = o
      /\ shown' = [c \in Controllers |-> IF c = view THEN 0 ELSE shown[c]]
      /\ UNCHANGED <<hardware, request, odometry, tf, truth>>
    BY DEF PollControllerEndpoint
<1>4. left' = left \ {"controller"}
    BY DEF PollControllerEndpoint
<1>5. /\ o \in Monitors
      /\ o.state = "healthy"
           => \/ o.stable = view /\ view \in Controllers /\ o.confirmedAge = 0
              \/ o.stable = controller.stable /\ o.stable # Nothing
                 /\ view = "absent" /\ controller.confirmedAge <= StateTimeout
                 /\ o.confirmedAge = controller.confirmedAge
      /\ o.stable # Nothing
           => \/ o.stable = view /\ view \in Controllers /\ o.confirmedAge = 0
              \/ o.stable = controller.stable /\ o.stable # view
                 /\ o.confirmedAge = controller.confirmedAge
    BY <1>2, ObservedController
<1> HIDE DEF o
<1>6. 0 \in 0 .. Unseen
    BY DEF Unseen
<1>7. shown' \in [Controllers -> 0 .. Unseen]
    BY <1>2, <1>3, <1>6
<1>8. PlatformTypeOK'
    BY <1>1, <1>3, <1>4, <1>5, <1>7 DEF PlatformTypeOK
<1>9. Slack("controller")' = 0 /\ Slack("hardware")' = Slack("hardware")
    BY <1>4 DEF Slack
<1>10. ASSUME o.stable # Nothing, o.confirmedAge <= StateTimeout
       PROVE  shown'[o.stable] <= o.confirmedAge
  <2>1. CASE o.stable = view /\ view \in Controllers /\ o.confirmedAge = 0
      BY <1>3, <2>1
  <2>2. CASE o.stable = controller.stable /\ o.stable # view
             /\ o.confirmedAge = controller.confirmedAge
    <3>1. o.stable \in Controllers
        BY <1>5, <1>10 DEF Monitors
    <3>2. shown'[o.stable] = shown[controller.stable]
        BY <1>3, <2>2, <3>1
    <3>3. QED  BY <1>1, <1>10, <2>2, <3>2 DEF ControllerSeen
  <2>3. QED  BY <1>5, <1>10, <2>1, <2>2
<1>11. ASSUME o.state = "healthy"
       PROVE  o.stable # Nothing /\ o.confirmedAge <= StateTimeout
    BY <1>5, <1>11
<1>12. ASSUME o.state = "healthy"
       PROVE  shown'[o.stable] <= StateTimeout
  <2>1. o.stable \in Controllers
      BY <1>5, <1>11, <1>12 DEF Monitors
  <2>2. shown'[o.stable] \in Nat /\ o.confirmedAge \in Nat
      BY <1>5, <1>7, <2>1 DEF Unseen, Monitors
  <2>3. QED  BY <1>10, <1>11, <1>12, <2>2
<1>13. ControllerSeen'
    BY <1>3, <1>9, <1>10, <1>11, <1>12 DEF ControllerSeen
<1>14. RequestAges' /\ HardwareTrue'
    BY <1>1, <1>3, <1>9 DEF RequestAges, HardwareTrue
<1>15. QED  BY <1>8, <1>13, <1>14 DEF PlatformInv

LEMMA HardwarePollKeeps ==
    ASSUME PlatformInv, NEW ready \in BOOLEAN, PollHardwareComponent(ready)
    PROVE  PlatformInv'
<1> USE PlatformAssumption
<1>1. PlatformTypeOK /\ ControllerSeen /\ RequestAges /\ HardwareTrue
    BY DEF PlatformInv
<1>2. UNCHANGED <<controller, hardware, odometry, tf, shown, truth>>
    BY DEF PollHardwareComponent
<1>3. left' = left \ {"hardware"}
    BY DEF PollHardwareComponent
<1>4. \/ request' = Nothing
      \/ request' = request /\ request # Nothing
         /\ ~(request.age > StateTimeout)
      \/ request' = NewRequest
    BY DEF PollHardwareComponent, Overdue
<1>5. NewRequest \in Requests
    BY DEF NewRequest, Requests, GivenUp
<1>6. PlatformTypeOK'
    BY <1>1, <1>2, <1>3, <1>4, <1>5 DEF PlatformTypeOK
<1>7. Slack("hardware")' = 0 /\ Slack("controller")' = Slack("controller")
    BY <1>3 DEF Slack
<1>8. ControllerSeen' /\ HardwareTrue'
    BY <1>1, <1>2, <1>7 DEF ControllerSeen, HardwareTrue
<1>9. RequestAges'
  <2>1. CASE request' = Nothing
      BY <2>1 DEF RequestAges
  <2>2. CASE request' = request /\ request # Nothing
             /\ ~(request.age > StateTimeout)
    <3>1. request.age \in Nat
        BY <1>1, <2>2 DEF PlatformTypeOK, Requests, GivenUp
    <3>2. QED  BY <1>1, <1>7, <2>2, <3>1 DEF RequestAges
  <2>3. CASE request' = NewRequest
      BY <1>7, <2>3 DEF RequestAges, NewRequest
  <2>4. QED  BY <1>4, <2>1, <2>2, <2>3
<1>10. QED  BY <1>6, <1>8, <1>9 DEF PlatformInv

LEMMA ManagerKeeps ==
    ASSUME PlatformInv, NEW answer \in Answers, ManagerAnswers(answer)
    PROVE  PlatformInv'
<1> USE PlatformAssumption
<1>1. PlatformTypeOK /\ ControllerSeen /\ RequestAges /\ HardwareTrue
    BY DEF PlatformInv
<1>2. UNCHANGED <<controller, hardware, odometry, tf, left, shown, truth>>
    BY DEF ManagerAnswers
<1>3. /\ request # Nothing /\ request \in Requests
      /\ request' = [request EXCEPT !.answer = answer]
    BY <1>1 DEF ManagerAnswers, PlatformTypeOK
<1>4. request' \in Requests /\ request'.age = request.age
      /\ request'.since = request.since
    BY <1>3 DEF Requests
<1>5. PlatformTypeOK'
    BY <1>1, <1>2, <1>4 DEF PlatformTypeOK
<1>6. ControllerSeen' /\ HardwareTrue'
    BY <1>1, <1>2 DEF ControllerSeen, HardwareTrue, Slack
<1>7. RequestAges'
    BY <1>1, <1>2, <1>3, <1>4 DEF RequestAges, Slack
<1>8. QED  BY <1>5, <1>6, <1>7 DEF PlatformInv

LEMMA ResponseKeeps ==
    ASSUME PlatformInv, HandleHardwareComponentResponse
    PROVE  PlatformInv'
<1> USE PlatformAssumption
<1>1. PlatformTypeOK /\ ControllerSeen /\ RequestAges /\ HardwareTrue
    BY DEF PlatformInv
<1>2. UNCHANGED <<controller, odometry, tf, left, shown>>
    BY DEF HandleHardwareComponentResponse
<1>3. /\ request # Nothing /\ request.answer # Nothing
      /\ hardware' = [state |-> request.answer, age |-> 0]
      /\ request' = Nothing /\ truth' = request.since
    BY DEF HandleHardwareComponentResponse
<1>4. request \in Requests
    BY <1>1, <1>3 DEF PlatformTypeOK
<1>5. request.since <= StateTimeout + 1 /\ request.since \in Nat
  <2>1. request.age \in Nat /\ request.since \in Nat
      BY <1>4 DEF Requests, GivenUp
  <2>2. request.age <= StateTimeout + 1 /\ request.since <= request.age
      BY <1>1, <1>3, <2>1 DEF RequestAges, Slack
  <2>3. QED  BY <2>1, <2>2
<1>6. truth' \in 0 .. TooOld
    BY <1>3, <1>5 DEF TooOld
<1>7. hardware' \in [state : Answers \cup {"unavailable"},
                     age : 0 .. StateTimeout + 1]
    BY <1>3, <1>4 DEF Requests
<1>8. PlatformTypeOK'
    BY <1>1, <1>2, <1>3, <1>6, <1>7 DEF PlatformTypeOK
<1>9. ControllerSeen' /\ RequestAges'
    BY <1>1, <1>2, <1>3 DEF ControllerSeen, RequestAges, Slack
<1>10. HardwareTrue'
    BY <1>3, <1>5 DEF HardwareTrue
<1>11. QED  BY <1>8, <1>9, <1>10 DEF PlatformInv

LEMMA SamplesKeep ==
    ASSUME PlatformInv,
           \/ \E valid \in BOOLEAN, age \in Stamps : HandleOdometry(valid, age)
           \/ \E state \in TfStates : AssessTf(state)
           \/ UNCHANGED platformVars
    PROVE  PlatformInv'
<1> USE PlatformAssumption
<1>1. PlatformTypeOK /\ ControllerSeen /\ RequestAges /\ HardwareTrue
    BY DEF PlatformInv
<1>2. /\ UNCHANGED <<controller, hardware, request, left, shown, truth>>
      /\ odometry' \in 0 .. OdometryTimeout + 1 \cup {Nothing}
      /\ tf' \in TfStates
    BY <1>1 DEF HandleOdometry, AssessTf, platformVars, Stamps, PlatformTypeOK
<1>3. PlatformTypeOK'
    BY <1>1, <1>2 DEF PlatformTypeOK
<1>4. ControllerSeen' /\ RequestAges' /\ HardwareTrue'
    BY <1>1, <1>2 DEF ControllerSeen, RequestAges, HardwareTrue, Slack
<1>5. QED  BY <1>3, <1>4 DEF PlatformInv

\* One unit of time adds at most one to an age, and exactly one below its cap.
LEMMA AgedBound ==
    ASSUME NEW limit \in Nat, NEW age \in 0 .. limit
    PROVE  /\ Aged(age, limit) \in 0 .. limit
           /\ age <= Aged(age, limit) /\ Aged(age, limit) <= age + 1
           /\ Aged(age, limit) < limit => Aged(age, limit) = age + 1
           /\ age < limit => Aged(age, limit) = age + 1
    BY DEF Aged

\* A record of which only ages change.
LEMMA AgedMonitor ==
    ASSUME NEW c \in Monitors, NEW a \in 0 .. ControllerWindow,
           NEW b \in 0 .. StateTimeout + 1
    PROVE  LET d == [c EXCEPT !.candidateAge = a, !.confirmedAge = b] IN
           /\ d \in Monitors
           /\ d.stable = c.stable /\ d.state = c.state /\ d.confirmedAge = b
    BY DEF Monitors

LEMMA PlatformTickKeeps ==
    ASSUME PlatformInv, PlatformTick
    PROVE  PlatformInv'
<1> USE PlatformAssumption
<1>1. PlatformTypeOK /\ ControllerSeen /\ RequestAges /\ HardwareTrue
    BY DEF PlatformInv
<1>2. left = {} /\ left' = PlatformTimers
    BY DEF PlatformTick
<1>3. /\ Slack("controller") = 0 /\ Slack("hardware") = 0
      /\ Slack("controller")' = 1 /\ Slack("hardware")' = 1
    BY <1>2 DEF Slack, PlatformTimers
<1> DEFINE c == controller
           d == controller'
<1>4. c \in Monitors /\ c.stable \in Controllers \cup {Nothing}
    BY <1>1 DEF PlatformTypeOK, Monitors
<1>5. d = [c EXCEPT
             !.candidateAge = IF c.candidate = Nothing THEN 0
                              ELSE Aged(@, ControllerWindow),
             !.confirmedAge = IF c.stable = Nothing THEN 0
                              ELSE Aged(@, StateTimeout + 1)]
    BY DEF PlatformTick
<1>6. /\ c.candidateAge \in 0 .. ControllerWindow
      /\ c.confirmedAge \in 0 .. StateTimeout + 1
    BY <1>4 DEF Monitors
<1>a. StateTimeout + 1 \in Nat /\ ControllerWindow \in Nat
    OBVIOUS
<1>7. /\ Aged(c.candidateAge, ControllerWindow) \in 0 .. ControllerWindow
      /\ Aged(c.confirmedAge, StateTimeout + 1) \in 0 .. StateTimeout + 1
      /\ Aged(c.confirmedAge, StateTimeout + 1) < StateTimeout + 1
           => Aged(c.confirmedAge, StateTimeout + 1) = c.confirmedAge + 1
  <2>1. Aged(c.candidateAge, ControllerWindow) \in 0 .. ControllerWindow
      BY <1>6, <1>a, AgedBound
  <2> DEFINE limit == StateTimeout + 1
  <2>2. limit \in Nat /\ c.confirmedAge \in 0 .. limit
      BY <1>6, <1>a
  <2> HIDE DEF limit
  <2>3. /\ Aged(c.confirmedAge, limit) \in 0 .. limit
        /\ Aged(c.confirmedAge, limit) < limit
             => Aged(c.confirmedAge, limit) = c.confirmedAge + 1
      BY <2>2, AgedBound
  <2>4. QED  BY <2>1, <2>3 DEF limit
<1>8. /\ d \in Monitors
      /\ d.stable = c.stable /\ d.state = c.state
      /\ c.stable # Nothing
           => d.confirmedAge = Aged(c.confirmedAge, StateTimeout + 1)
  <2> DEFINE a == IF c.candidate = Nothing THEN 0
                  ELSE Aged(c.candidateAge, ControllerWindow)
             b == IF c.stable = Nothing THEN 0
                  ELSE Aged(c.confirmedAge, StateTimeout + 1)
  <2>1. d = [c EXCEPT !.candidateAge = a, !.confirmedAge = b]
      BY <1>5
  <2>2. a \in 0 .. ControllerWindow /\ b \in 0 .. StateTimeout + 1
      BY <1>7, <1>a
  <2>3. c.stable # Nothing => b = Aged(c.confirmedAge, StateTimeout + 1)
      OBVIOUS
  <2> HIDE DEF a, b, c, d
  <2> DEFINE e == [c EXCEPT !.candidateAge = a, !.confirmedAge = b]
  <2>4. /\ e \in Monitors
        /\ e.stable = c.stable /\ e.state = c.state /\ e.confirmedAge = b
      BY <1>4, <2>2, AgedMonitor, Zenon
  <2>5. d = e
      BY <2>1
  <2> HIDE DEF e
  <2>6. QED  BY <2>3, <2>4, <2>5
<1>9. shown \in [Controllers -> 0 .. Unseen] /\ Unseen \in Nat
    BY <1>1 DEF PlatformTypeOK, Unseen
<1>10. /\ shown' \in [Controllers -> 0 .. Unseen]
       /\ \A p \in Controllers : /\ shown[p] \in 0 .. Unseen
                                 /\ shown'[p] = Aged(shown[p], Unseen)
    BY <1>9, AgedBound DEF PlatformTick
<1>11. \A p \in Controllers : shown'[p] <= shown[p] + 1 /\ shown'[p] \in Nat
                              /\ shown[p] \in Nat
    BY <1>9, <1>10, AgedBound
<1>12. ASSUME d.stable # Nothing, d.confirmedAge <= StateTimeout
       PROVE  shown'[d.stable] <= d.confirmedAge
  <2>1. c.stable \in Controllers /\ d.stable = c.stable
      BY <1>4, <1>8, <1>12
  <2>2. d.confirmedAge = c.confirmedAge + 1
      BY <1>6, <1>7, <1>8, <1>12, <2>1
  <2>3. shown[c.stable] <= c.confirmedAge
      BY <1>1, <1>6, <1>12, <2>1, <2>2 DEF ControllerSeen
  <2>4. QED  BY <1>6, <1>11, <2>1, <2>2, <2>3
<1>13. ASSUME d.state = "healthy"
       PROVE  /\ d.stable # Nothing
              /\ d.confirmedAge <= StateTimeout + 1
              /\ shown'[d.stable] <= StateTimeout + 1
  <2>1. /\ c.stable # Nothing /\ d.stable = c.stable
        /\ shown[c.stable] <= StateTimeout
      BY <1>1, <1>3, <1>8, <1>13 DEF ControllerSeen
  <2>2. d.confirmedAge <= StateTimeout + 1
      BY <1>8 DEF Monitors
  <2>3. shown'[d.stable] <= StateTimeout + 1
      BY <1>4, <1>11, <2>1
  <2>4. QED  BY <2>1, <2>2, <2>3
<1>14. ControllerSeen'
    BY <1>3, <1>12, <1>13 DEF ControllerSeen
<1> HIDE DEF c, d
<1>15. /\ hardware' = [hardware EXCEPT !.age = Aged(@, StateTimeout + 1)]
       /\ hardware \in [state : Answers \cup {"unavailable"},
                        age : 0 .. StateTimeout + 1]
    BY <1>1 DEF PlatformTick, PlatformTypeOK
<1>16. /\ hardware.age \in 0 .. StateTimeout + 1
       /\ hardware'.age = Aged(hardware.age, StateTimeout + 1)
       /\ hardware'.state = hardware.state
    BY <1>15
<1>17. hardware' \in [state : Answers \cup {"unavailable"},
                      age : 0 .. StateTimeout + 1]
  <2>1. Aged(hardware.age, StateTimeout + 1) \in 0 .. StateTimeout + 1
      BY <1>16, <1>a, AgedBound
  <2>2. QED  BY <1>15, <2>1
<1>18. truth \in 0 .. TooOld /\ truth' = Aged(truth, TooOld) /\ TooOld \in Nat
    BY <1>1 DEF PlatformTick, PlatformTypeOK, TooOld
<1>19. truth' \in 0 .. TooOld /\ truth' <= truth + 1
    BY <1>18, AgedBound
<1>20. HardwareTrue'
  <2>1. SUFFICES ASSUME hardware'.state # "unavailable",
                        hardware'.age <= StateTimeout
                 PROVE  truth' <= hardware'.age + StateTimeout + 1
      BY DEF HardwareTrue
  <2>2. hardware'.age = hardware.age + 1
      BY <1>16, <2>1, AgedBound
  <2>3. truth <= hardware.age + StateTimeout + 1
      BY <1>1, <1>16, <2>1, <2>2 DEF HardwareTrue
  <2>4. QED  BY <1>16, <1>18, <1>19, <2>2, <2>3
<1>21. request' \in Requests \cup {Nothing} /\ RequestAges'
  <2>1. CASE request = Nothing
      BY <2>1 DEF PlatformTick, RequestAges
  <2>2. CASE request # Nothing
    <3>1. /\ request \in Requests
          /\ request' = [request EXCEPT
                           !.age = Aged(@, GivenUp),
                           !.since = IF request.answer = Nothing THEN 0
                                     ELSE Aged(@, GivenUp)]
        BY <1>1, <2>2 DEF PlatformTick, PlatformTypeOK
    <3>2. /\ request.age \in 0 .. GivenUp /\ request.since \in 0 .. GivenUp
          /\ GivenUp \in Nat
        BY <3>1 DEF Requests, GivenUp
    <3>3. /\ Aged(request.age, GivenUp) \in 0 .. GivenUp
          /\ Aged(request.since, GivenUp) \in 0 .. GivenUp
          /\ Aged(request.since, GivenUp) <= request.since + 1
          /\ request.age < GivenUp
               => Aged(request.age, GivenUp) = request.age + 1
        BY <3>2, AgedBound
    <3>4. request.age <= StateTimeout /\ request.since <= request.age
        BY <1>1, <1>3, <2>2, <3>2 DEF RequestAges
    <3>5. Aged(request.age, GivenUp) = request.age + 1
        BY <3>2, <3>3, <3>4 DEF GivenUp
    <3>6. /\ request' \in Requests
          /\ request'.age = request.age + 1
          /\ request'.since \in {0, Aged(request.since, GivenUp)}
      <4> DEFINE a == Aged(request.age, GivenUp)
                 b == IF request.answer = Nothing THEN 0
                      ELSE Aged(request.since, GivenUp)
      <4>1. request' = [request EXCEPT !.age = a, !.since = b]
          BY <3>1
      <4>2. /\ a \in 0 .. GivenUp /\ b \in 0 .. GivenUp
            /\ a = request.age + 1
            /\ b \in {0, Aged(request.since, GivenUp)}
          BY <3>2, <3>3, <3>5
      <4> HIDE DEF a, b
      <4>3. LET q == [request EXCEPT !.age = a, !.since = b] IN
            q \in Requests /\ q.age = a /\ q.since = b
        <5>1. request \in Requests /\ a \in 0 .. GivenUp /\ b \in 0 .. GivenUp
            BY <3>1, <4>2
        <5>2. QED  BY <5>1 DEF Requests
      <4> DEFINE q == [request EXCEPT !.age = a, !.since = b]
      <4>4. request' = q /\ q \in Requests /\ q.age = a /\ q.since = b
          BY <4>1, <4>3
      <4> HIDE DEF q
      <4>5. QED  BY <4>2, <4>4
    <3>7. request'.since <= request'.age
        BY <3>2, <3>3, <3>4, <3>6
    <3>8. request'.age <= StateTimeout + 1
        BY <3>2, <3>4, <3>6
    <3>9. QED  BY <1>3, <3>6, <3>7, <3>8 DEF RequestAges
  <2>3. QED  BY <2>1, <2>2
<1>22. odometry' \in 0 .. OdometryTimeout + 1 \cup {Nothing}
  <2>1. CASE odometry = Nothing
      BY <2>1 DEF PlatformTick
  <2>2. CASE odometry # Nothing
    <3>1. odometry \in 0 .. OdometryTimeout + 1
          /\ odometry' = Aged(odometry, OdometryTimeout + 1)
        BY <1>1, <2>2 DEF PlatformTick, PlatformTypeOK
    <3>2. QED  BY <3>1, AgedBound
  <2>3. QED  BY <2>1, <2>2
<1>23. tf' \in TfStates /\ left' \in SUBSET PlatformTimers
    BY <1>1, <1>2 DEF PlatformTick, PlatformTypeOK
<1>24. PlatformTypeOK'
    BY <1>8, <1>10, <1>17, <1>19, <1>21, <1>22, <1>23 DEF PlatformTypeOK, d
<1>25. QED  BY <1>14, <1>20, <1>21, <1>24 DEF PlatformInv

\* The strengthening is an invariant of the platform supervision.
THEOREM PlatformInvInvariant == PlatformSpec => []PlatformInv
<1>1. PlatformInv /\ [PlatformNext]_platformVars => PlatformInv'
    BY ControllerPollKeeps, HardwarePollKeeps, ManagerKeeps, ResponseKeeps,
       SamplesKeep, PlatformTickKeeps DEF PlatformNext
<1>2. QED  BY <1>1, PlatformStarts, PTL DEF PlatformSpec

\* A platform without a fault was really there (platform_fault_code), for any
\* timeouts and any controllers.
THEOREM PlatformBackedHolds == PlatformSpec => []PlatformBacked
<1>1. PlatformInv => PlatformBacked
  <2> USE PlatformAssumption
  <2> SUFFICES ASSUME PlatformInv, PlatformFault = "None"
               PROVE  /\ shown[controller.stable] <= StateTimeout + 1
                      /\ truth <= 2 * StateTimeout + 1
                      /\ odometry \in 0 .. OdometryTimeout
      BY DEF PlatformBacked
  <2>1. /\ controller \in Monitors /\ hardware.age \in 0 .. StateTimeout + 1
        /\ hardware.state \in {"healthy", "inactive", "unavailable"}
        /\ odometry \in 0 .. OdometryTimeout + 1 \cup {Nothing}
        /\ shown \in [Controllers -> 0 .. Unseen] /\ truth \in 0 .. TooOld
        /\ tf \in TfStates
      BY DEF PlatformInv, PlatformTypeOK, Answers
  <2>2. HardwareHealth \in {"unavailable", "timedOut", "inactive", "healthy"}
      BY <2>1 DEF HardwareHealth
  <2>3. HardwareHealth = "healthy"
      BY <2>2 DEF PlatformFault
  <2>4. controller.state = "healthy"
      BY <2>3 DEF PlatformFault
  <2>5. OdometryIsHealthy
      BY <2>1, <2>3, <2>4 DEF PlatformFault, TfStates
  <2>6. hardware.state = "healthy" /\ hardware.age <= StateTimeout
      BY <2>1, <2>3 DEF HardwareHealth
  <2>7. truth <= 2 * StateTimeout + 1
    <3>1. truth <= hardware.age + StateTimeout + 1
        BY <2>6 DEF PlatformInv, HardwareTrue
    <3>2. QED  BY <2>1, <2>6, <3>1 DEF TooOld
  <2>8. shown[controller.stable] <= StateTimeout + 1
    <3>1. /\ controller.stable # Nothing
          /\ shown[controller.stable] <= StateTimeout + Slack("controller")
        BY <2>4 DEF PlatformInv, ControllerSeen
    <3>2. shown[controller.stable] \in Nat /\ Slack("controller") \in {0, 1}
        BY <2>1, <3>1 DEF Monitors, Unseen, Slack
    <3>3. QED  BY <3>1, <3>2
  <2>9. odometry \in 0 .. OdometryTimeout
      BY <2>1, <2>5 DEF OdometryIsHealthy
  <2>10. QED  BY <2>7, <2>8, <2>9
<1>2. QED  BY <1>1, PlatformInvInvariant, PTL

\* A request to the manager is given up within two polls of its timeout
\* (poll_hardware_component).
THEOREM RequestsReleasedHolds == PlatformSpec => []RequestsReleased
<1>1. PlatformInv => RequestsReleased
  <2> USE PlatformAssumption
  <2> SUFFICES ASSUME PlatformInv, request # Nothing
               PROVE  request.age < GivenUp
      BY DEF RequestsReleased
  <2>1. request.age \in Nat
      BY DEF PlatformInv, PlatformTypeOK, Requests
  <2>2. request.age <= StateTimeout + Slack("hardware")
      BY DEF PlatformInv, RequestAges
  <2>3. Slack("hardware") \in {0, 1}
      BY DEF Slack
  <2>4. QED  BY <2>1, <2>2, <2>3 DEF GivenUp
<1>2. QED  BY <1>1, PlatformInvInvariant, PTL
=============================================================================
