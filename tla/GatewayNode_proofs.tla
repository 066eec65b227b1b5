------------------------- MODULE GatewayNode_proofs -------------------------
(***************************************************************************)
(* For any number of threads, configurations and activations: the gate of  *)
(* the data plane is only open over a complete active gateway, and the     *)
(* lifecycle callbacks always find the node in order.  TypeOK is inductive *)
(* by itself; the ordering of the stages is proved over it.                *)
(*                                                                         *)
(* Below, the recorder that the node starts and stops: for every queue     *)
(* capacity and number of events, a file that replay admits is the         *)
(* complete trace of the engine, and a file that ends in a valid footer is *)
(* admitted.                                                               *)
(***************************************************************************)
EXTENDS GatewayNode, TraceRecorder, TLAPS

Order == OpenGate /\ EngineFollowsLifecycle /\ TimerStops /\ StagesInOrder

\* The tick that is not running is a tick.
LEMMA IdleTickTyped == IdleTick \in Ticks
BY DEF IdleTick, Ticks, TickStages

\* Every step keeps the stages well typed.
LEMMA StagesTypedKept ==
    TypeOK /\ [Next]_vars => StagesTyped'
<1> SUFFICES ASSUME TypeOK, [Next]_vars PROVE StagesTyped'
    OBVIOUS
<1> USE DEF TypeOK, StagesTyped, FlagsTyped, PrimaryStates,
            TransitionStates
<1> USE DEF StartTransition, transition, node, engine, counts
<1>1. CASE OnConfigure
    BY <1>1 DEF OnConfigure
<1>2. CASE StartActivate
    BY <1>2 DEF StartActivate
<1>3. CASE ActivationRefused
    BY <1>3 DEF ActivationRefused
<1>4. CASE ActivationRolledBack
    BY <1>4 DEF ActivationRolledBack
<1>5. CASE ActivationCommitted
    BY <1>5 DEF ActivationCommitted
<1>6. CASE StartDeactivate
    BY <1>6 DEF StartDeactivate
<1>7. CASE CloseGate
    BY <1>7 DEF CloseGate
<1>8. CASE StopPublishers
    BY <1>8 DEF StopPublishers
<1>9. CASE DeactivateEngine
    BY <1>9 DEF DeactivateEngine
<1>10. CASE OnCleanup
    BY <1>10 DEF OnCleanup, CleanedUp, CleanupThrows
<1>11. CASE OnError
    BY <1>11 DEF OnError, CleanedUp, CleanupThrows
<1>12. CASE TickDecides
    BY <1>12 DEF TickDecides, Ticks, TickStages, IdleTick
<1>13. CASE TickPublishes
    BY <1>13 DEF TickPublishes, Ticks, TickStages, IdleTick
<1>14. CASE TickDiscards
    BY <1>14, IdleTickTyped DEF TickDiscards
<1>15. CASE TickThrows
    BY <1>15 DEF TickThrows, Ticks, TickStages, IdleTick
<1>16. CASE TickFails
    BY <1>16 DEF TickFails, Ticks, TickStages, IdleTick
<1>17. CASE RequestLifecycleError
    BY <1>17 DEF RequestLifecycleError, Ticks, TickStages, IdleTick
<1>18. CASE CancelTimer
    BY <1>18 DEF CancelTimer, Ticks, TickStages, IdleTick
<1>19. CASE Finish
  <2>1. CASE Processed
        BY <1>19, <2>1 DEF Finish, Processed
  <2>2. CASE ~Processed
        BY <1>19, <2>2, IdleTickTyped DEF Finish, Destination, Processed
  <2>3. QED  BY <2>1, <2>2
<1>20. CASE TriggerDeactivate
  <2>1. CASE tick' = IdleTick
        BY <1>20, <2>1, IdleTickTyped DEF TriggerDeactivate
  <2>2. CASE tick' # IdleTick
    <3>1. tick' = [tick EXCEPT !.at = "running"]
          BY <1>20, <2>2 DEF TriggerDeactivate
    <3>2. tick' \in Ticks
          BY <3>1 DEF Ticks, TickStages
    <3>3. QED  BY <1>20, <2>2, <3>2 DEF TriggerDeactivate
  <2>3. QED  BY <2>1, <2>2
<1>21. CASE HealthCallbackThrows
    BY <1>21 DEF HealthCallbackThrows
<1>22. CASE HealthCallbackFails
    BY <1>22 DEF HealthCallbackFails
<1>23. CASE UNCHANGED vars
    BY <1>23 DEF vars
<1>24. CASE Shutdown
    BY <1>24 DEF Shutdown
<1>25. QED
    BY <1>1, <1>2, <1>3, <1>4, <1>5, <1>6, <1>7, <1>8, <1>9, <1>10,
       <1>11, <1>12, <1>13, <1>14, <1>15, <1>16, <1>17, <1>18, <1>19, <1>20,
       <1>21, <1>22, <1>23, <1>24
       DEF Next, LifecycleStep, CallbackStep, OnActivate, TickStep,
           TickReturnStep

\* Every step keeps the flags well typed.
LEMMA FlagsTypedKept ==
    FlagsTyped /\ [Next]_vars => FlagsTyped'
<1> SUFFICES ASSUME FlagsTyped, [Next]_vars PROVE FlagsTyped'
    OBVIOUS
<1> USE DEF FlagsTyped
<1> USE DEF StartTransition, transition, node, engine, counts
<1>1. CASE OnConfigure
    BY <1>1 DEF OnConfigure
<1>2. CASE StartActivate
    BY <1>2 DEF StartActivate
<1>3. CASE ActivationRefused
    BY <1>3 DEF ActivationRefused
<1>4. CASE ActivationRolledBack
    BY <1>4 DEF ActivationRolledBack
<1>5. CASE ActivationCommitted
    BY <1>5 DEF ActivationCommitted
<1>6. CASE StartDeactivate
    BY <1>6 DEF StartDeactivate
<1>7. CASE CloseGate
    BY <1>7 DEF CloseGate
<1>8. CASE StopPublishers
    BY <1>8 DEF StopPublishers
<1>9. CASE DeactivateEngine
    BY <1>9 DEF DeactivateEngine
<1>10. CASE OnCleanup
    BY <1>10 DEF OnCleanup, CleanedUp, CleanupThrows
<1>11. CASE OnError
    BY <1>11 DEF OnError, CleanedUp, CleanupThrows
<1>12. CASE TickDecides
    BY <1>12 DEF TickDecides
<1>13. CASE TickPublishes
    BY <1>13 DEF TickPublishes
<1>14. CASE TickDiscards
    BY <1>14 DEF TickDiscards
<1>15. CASE TickThrows
    BY <1>15 DEF TickThrows
<1>16. CASE TickFails
    BY <1>16 DEF TickFails
<1>17. CASE RequestLifecycleError
    BY <1>17 DEF RequestLifecycleError
<1>18. CASE CancelTimer
    BY <1>18 DEF CancelTimer
<1>19. CASE Finish
  <2>1. CASE Processed
        BY <1>19, <2>1 DEF Finish, Processed
  <2>2. CASE ~Processed
        BY <1>19, <2>2 DEF Finish, Destination, Processed
  <2>3. QED  BY <2>1, <2>2
<1>20. CASE TriggerDeactivate
    BY <1>20 DEF TriggerDeactivate
<1>21. CASE HealthCallbackThrows
    BY <1>21 DEF HealthCallbackThrows
<1>22. CASE HealthCallbackFails
    BY <1>22 DEF HealthCallbackFails
<1>23. CASE UNCHANGED vars
    BY <1>23 DEF vars
<1>24. CASE Shutdown
    BY <1>24 DEF Shutdown
<1>25. QED
    BY <1>1, <1>2, <1>3, <1>4, <1>5, <1>6, <1>7, <1>8, <1>9, <1>10,
       <1>11, <1>12, <1>13, <1>14, <1>15, <1>16, <1>17, <1>18, <1>19, <1>20,
       <1>21, <1>22, <1>23, <1>24
       DEF Next, LifecycleStep, CallbackStep, OnActivate, TickStep,
           TickReturnStep

\* Every step leaves a stage as the next one expects it.
LEMMA NodeOrdered ==
    TypeOK /\ Order /\ [Next]_vars => Order'
<1> SUFFICES ASSUME TypeOK, Order, [Next]_vars PROVE Order'
    OBVIOUS
<1> USE DEF Order, TypeOK, StagesTyped, FlagsTyped, OpenGate,
            EngineFollowsLifecycle, StagesInOrder, TransitionStates,
            PrimaryStates, TimerStops, Resting, Activating, ActivationInOrder,
            ActiveGatewayComplete, Deactivating, Shut
<1> USE DEF StartTransition, transition, node, engine, counts
<1>1. CASE OnConfigure
    BY <1>1 DEF OnConfigure
<1>2. CASE StartActivate
    BY <1>2 DEF StartActivate
<1>3. CASE ActivationRefused
    BY <1>3 DEF ActivationRefused
<1>4. CASE ActivationRolledBack
    BY <1>4 DEF ActivationRolledBack
<1>5. CASE ActivationCommitted
    BY <1>5 DEF ActivationCommitted
<1>6. CASE StartDeactivate
    BY <1>6 DEF StartDeactivate
<1>7. CASE CloseGate
    BY <1>7 DEF CloseGate
<1>8. CASE StopPublishers
    BY <1>8 DEF StopPublishers
<1>9. CASE DeactivateEngine
    BY <1>9 DEF DeactivateEngine
<1>10. CASE OnCleanup
  <2>1. result = "none" /\ lifecycle \notin TransitionStates
      BY <1>10 DEF OnCleanup
  <2>2. CASE CleanedUp /\ lifecycle' = "unconfigured"
      BY <1>10, <2>1, <2>2 DEF OnCleanup, CleanedUp
  <2>3. CASE CleanupThrows /\ lifecycle' = "errorprocessing"
      BY <1>10, <2>1, <2>3 DEF OnCleanup, CleanupThrows
  <2>4. QED  BY <1>10, <2>2, <2>3 DEF OnCleanup
<1>11. CASE OnError
    BY <1>11 DEF OnError, CleanedUp, CleanupThrows
<1>12. CASE TickDecides
    BY <1>12 DEF TickDecides
<1>13. CASE TickPublishes
    BY <1>13 DEF TickPublishes
<1>14. CASE TickDiscards
    BY <1>14 DEF TickDiscards
<1>15. CASE TickThrows
    BY <1>15 DEF TickThrows
<1>16. CASE TickFails
    BY <1>16 DEF TickFails
<1>17. CASE RequestLifecycleError
    BY <1>17 DEF RequestLifecycleError
<1>18. CASE CancelTimer
    BY <1>18 DEF CancelTimer
<1>19. CASE Finish
  <2>1. CASE Processed
        BY <1>19, <2>1 DEF Finish, Processed
  <2>2. CASE ~Processed
        BY <1>19, <2>2 DEF Finish, Destination, Processed
  <2>3. QED  BY <2>1, <2>2
<1>20. CASE TriggerDeactivate
    BY <1>20 DEF TriggerDeactivate
<1>21. CASE HealthCallbackThrows
    BY <1>21 DEF HealthCallbackThrows
<1>22. CASE HealthCallbackFails
    BY <1>22 DEF HealthCallbackFails
<1>23. CASE UNCHANGED vars
    BY <1>23 DEF vars
<1>24. CASE Shutdown
    BY <1>24 DEF Shutdown
<1>25. QED
    BY <1>1, <1>2, <1>3, <1>4, <1>5, <1>6, <1>7, <1>8, <1>9, <1>10,
       <1>11, <1>12, <1>13, <1>14, <1>15, <1>16, <1>17, <1>18, <1>19, <1>20,
       <1>21, <1>22, <1>23, <1>24
       DEF Next, LifecycleStep, CallbackStep, OnActivate, TickStep,
           TickReturnStep

\* NodeInv is an invariant.
THEOREM NodeInvInvariant == Spec => []NodeInv
<1>1. Init => NodeInv
  <2>1. Init => StagesTyped /\ FlagsTyped
    <3>1. Init => StagesTyped
        BY IdleTickTyped DEF Init, StagesTyped, PrimaryStates
    <3>2. Init => FlagsTyped
        BY DEF Init, FlagsTyped
    <3>3. QED  BY <3>1, <3>2
  <2>2. Init => Order
      BY DEF Init, Order, OpenGate, EngineFollowsLifecycle, TimerStops,
             StagesInOrder, Activating
  <2>3. QED  BY <2>1, <2>2 DEF NodeInv, TypeOK, Order
<1>2. NodeInv /\ [Next]_vars => NodeInv'
    BY StagesTypedKept, FlagsTypedKept, NodeOrdered DEF NodeInv, TypeOK, Order
<1>3. QED  BY <1>1, <1>2, PTL DEF Spec

\* The stages of a transition and the output tick keep their types.
THEOREM NodeTypeCorrect == Spec => []TypeOK
<1>1. NodeInv => TypeOK
    BY DEF NodeInv
<1>2. QED  BY <1>1, NodeInvInvariant, PTL

\* run_output_tick's check for an incomplete active gateway never fires.
THEOREM OpenGateHolds == Spec => []OpenGate
<1>1. NodeInv => OpenGate
    BY DEF NodeInv
<1>2. QED  BY <1>1, NodeInvInvariant, PTL

\* After whatever failed half-way, an engine that the lifecycle does not
\* know of has broken the invariant that activation looks at.
THEOREM EngineFollowsLifecycleHolds == Spec => []EngineFollowsLifecycle
<1>1. NodeInv => EngineFollowsLifecycle
    BY DEF NodeInv
<1>2. QED  BY <1>1, NodeInvInvariant, PTL

\* A tick only publishes from a complete active gateway, although it decided
\* in an earlier critical section.
THEOREM PublishOnlyActivatedHolds == Spec => PublishOnlyActivated
<1>1. NodeInv =>
        [TickPublishes => ActiveGatewayComplete
                          /\ lifecycle \notin {"unconfigured", "inactive",
                                               "errorprocessing"}]_vars
    BY DEF NodeInv, OpenGate, TickPublishes, PublishAllowed
<1>2. QED  BY <1>1, NodeInvInvariant, PTL DEF Spec, PublishOnlyActivated

-----------------------------------------------------------------------------
(***************************************************************************)
(* The safety half of the node's liveness.                                 *)
(***************************************************************************)
LEMMA RunnersInOrderKept ==
    NodeInv /\ RunnersInOrder /\ [Next]_vars => RunnersInOrder'
<1> SUFFICES ASSUME NodeInv, RunnersInOrder, [Next]_vars
             PROVE  RunnersInOrder'
    OBVIOUS
<1> USE DEF NodeInv, TypeOK, StagesTyped, RunnersInOrder, PrimaryStates,
            TransitionStates, transition, node, engine, counts
<1>0. tick.at \in TickStages /\ IdleTick.at = "idle"
    BY DEF Ticks, IdleTick
<1>1. CASE Finish
  <2>1. runner # "none"
      BY <1>1 DEF Finish, StagesInOrder
  <2>2. CASE Processed
      BY <1>1, <2>1, <2>2 DEF Finish
  <2>3. CASE ~Processed
    <3>1. lifecycle' \in PrimaryStates /\ runner' = "none"
        BY <1>1, <2>3 DEF Finish, Destination
    <3>2. tick'.at # "running"
        BY <1>0, <1>1, <2>3 DEF Finish
    <3>3. QED  BY <3>1, <3>2
  <2>4. QED  BY <2>2, <2>3
<1>2. CASE OnActivate \/ CloseGate \/ StopPublishers \/ DeactivateEngine
           \/ OnError
    BY <1>2 DEF OnActivate, ActivationRefused, ActivationRolledBack,
                ActivationCommitted, CloseGate, StopPublishers,
                DeactivateEngine, OnError, CleanedUp, CleanupThrows
<1>3. CASE OnConfigure \/ StartActivate \/ StartDeactivate \/ OnCleanup
           \/ Shutdown
    BY <1>3 DEF OnConfigure, StartActivate, StartDeactivate, OnCleanup,
                Shutdown, StartTransition
<1>4. CASE TickDecides \/ TickThrows
    BY <1>0, <1>4 DEF TickDecides, TickThrows, TickStarts, Ticks
<1>5. CASE TickPublishes \/ TickDiscards \/ TickFails
           \/ RequestLifecycleError \/ CancelTimer
    BY <1>0, <1>5 DEF TickPublishes, TickDiscards, TickFails,
                      RequestLifecycleError, CancelTimer, Ticks
<1>6. CASE TriggerDeactivate
    BY <1>0, <1>6 DEF TriggerDeactivate, StartTransition, Ticks
<1>7. CASE HealthCallbackThrows \/ HealthCallbackFails
    BY <1>7 DEF HealthCallbackThrows, HealthCallbackFails
<1>8. CASE UNCHANGED vars
    BY <1>8 DEF vars
<1>9. QED  BY <1>1, <1>2, <1>3, <1>4, <1>5, <1>6, <1>7, <1>8
           DEF Next, LifecycleStep, CallbackStep, TickStep, TickReturnStep

LEMMA RunnersInOrderHolds == Spec => []RunnersInOrder
<1>1. Init => RunnersInOrder
    BY DEF Init, RunnersInOrder, PrimaryStates, IdleTick
<1>2. QED  BY <1>1, RunnersInOrderKept, NodeInvInvariant, PTL DEF Spec

\* Neither a transition nor a tick that has started ever lacks a next step.
THEOREM NobodyStuckHolds == Spec => []NobodyStuck
<1>1. NodeInv /\ RunnersInOrder => NobodyStuck
  <2> SUFFICES ASSUME NodeInv, RunnersInOrder PROVE NobodyStuck
      OBVIOUS
  <2>1. lifecycle \in TransitionStates => CallbackDue
      BY DEF NodeInv, StagesInOrder, Deactivating, CallbackDue,
             TransitionStates
  <2>2. /\ tick.at = "running" => lifecycle \in TransitionStates
        /\ lifecycle = "active" => runner = "none"
      BY DEF RunnersInOrder, NodeInv, TypeOK, StagesTyped, PrimaryStates
  <2>3. QED  BY <2>1, <2>2 DEF NobodyStuck
<1>2. QED  BY <1>1, NodeInvInvariant, RunnersInOrderHolds, PTL

\* A callback step brings its transition nearer to the end.
LEMMA CallbackProgress ==
    ASSUME NodeInv, CallbackStep, lifecycle \in TransitionStates
    PROVE  StepsLeft' < StepsLeft
<1> USE DEF StepsLeft, StepsOfStage, PrimaryStates, TransitionStates,
            Processed
<1>1. CASE Finish
    BY <1>1 DEF Finish, Destination, Processed, NodeInv, TypeOK,
                StagesTyped, StagesInOrder, Deactivating, engine, node
<1>2. CASE OnActivate
    BY <1>2 DEF OnActivate, ActivationRefused, ActivationRolledBack,
                ActivationCommitted, Activating
<1>3. CASE CloseGate
    BY <1>3 DEF CloseGate, NodeInv, StagesInOrder, Deactivating
<1>4. CASE StopPublishers
    BY <1>4 DEF StopPublishers, NodeInv, StagesInOrder, Deactivating
<1>5. CASE DeactivateEngine
    BY <1>5 DEF DeactivateEngine, NodeInv, StagesInOrder, Deactivating
<1>6. CASE OnError
    BY <1>6 DEF OnError, CleanedUp, CleanupThrows, Processed
<1>7. QED  BY <1>1, <1>2, <1>3, <1>4, <1>5, <1>6 DEF CallbackStep

\* No other step touches a transition that is under way.
LEMMA OthersKeepTransition ==
    ASSUME NodeInv, RunnersInOrder, [Next]_vars, ~CallbackStep,
           lifecycle \in TransitionStates
    PROVE  UNCHANGED <<lifecycle, result, step, active>>
<1> USE DEF transition, node, engine, counts, TransitionStates
<1>1. runner # "none" /\ lifecycle \notin PrimaryStates
    BY DEF RunnersInOrder, PrimaryStates
<1>2. CASE OnConfigure \/ StartActivate \/ StartDeactivate \/ OnCleanup
           \/ Shutdown
    BY <1>1, <1>2 DEF OnConfigure, StartActivate, StartDeactivate, OnCleanup,
                      Shutdown, StartTransition
<1>3. CASE TickStep
    BY <1>1, <1>3 DEF TickStep, TickReturnStep, TickDecides, TickThrows,
                      TickPublishes, TickDiscards, TickFails,
                      RequestLifecycleError, CancelTimer, TriggerDeactivate,
                      StartTransition
<1>4. CASE HealthCallbackThrows \/ HealthCallbackFails
    BY <1>4 DEF HealthCallbackThrows, HealthCallbackFails
<1>5. CASE UNCHANGED vars
    BY <1>5 DEF vars
<1>6. QED  BY <1>2, <1>3, <1>4, <1>5 DEF Next, LifecycleStep

\* A tick that runs only moves on.
LEMMA TickProgress ==
    ASSUME NodeInv, RunnersInOrder, [Next]_vars, tick.at # "idle"
    PROVE  tick' = tick \/ StepsOfTick[tick'.at] < StepsOfTick[tick.at]
<1> USE DEF StepsOfTick, transition, node, engine, counts
<1>0. /\ tick.at \in TickStages /\ IdleTick.at = "idle"
      /\ \A at \in TickStages : [tick EXCEPT !.at = at].at = at
    BY DEF NodeInv, TypeOK, StagesTyped, Ticks, IdleTick
<1> USE DEF TickStages
<1>1. CASE Finish
    BY <1>0, <1>1 DEF Finish, RunnersInOrder
<1>2. CASE OnActivate \/ CloseGate \/ StopPublishers \/ DeactivateEngine
           \/ OnError
    BY <1>2 DEF OnActivate, ActivationRefused, ActivationRolledBack,
                ActivationCommitted, CloseGate, StopPublishers,
                DeactivateEngine, OnError
<1>3. CASE OnConfigure \/ StartActivate \/ StartDeactivate \/ OnCleanup
           \/ Shutdown
    BY <1>3 DEF OnConfigure, StartActivate, StartDeactivate, OnCleanup,
                Shutdown
<1>4. CASE TickDecides
    BY <1>4 DEF TickDecides, TickStarts
<1>5. CASE TickThrows
    BY <1>0, <1>5 DEF TickThrows, TickStarts
<1>6. CASE TickPublishes \/ TickDiscards
  <2>1. tick.at = "decided" /\ tick'.at \in {"requesting", "idle"}
      BY <1>0, <1>6 DEF TickPublishes, TickDiscards
  <2>2. QED  BY <2>1
<1>7. CASE TickFails
    BY <1>0, <1>7 DEF TickFails
<1>8. CASE RequestLifecycleError
  <2>1. tick.at = "requesting" /\ tick'.at = "cancelling"
      BY <1>8 DEF RequestLifecycleError, NodeInv, TypeOK, StagesTyped, Ticks
  <2>2. QED  BY <2>1
<1>9. CASE CancelTimer
    BY <1>0, <1>9 DEF CancelTimer
<1>10. CASE TriggerDeactivate
  <2>1. tick.at = "triggering" /\ tick'.at \in {"running", "idle"}
      BY <1>0, <1>10 DEF TriggerDeactivate
  <2>2. QED  BY <2>1
<1>11. CASE HealthCallbackThrows \/ HealthCallbackFails
    BY <1>11 DEF HealthCallbackThrows, HealthCallbackFails
<1>12. CASE UNCHANGED vars
    BY <1>12 DEF vars
<1>13. QED  BY <1>1, <1>2, <1>3, <1>4, <1>5, <1>6, <1>7, <1>8, <1>9, <1>10,
               <1>11, <1>12
            DEF Next, LifecycleStep, CallbackStep, TickStep, TickReturnStep

\* Transitions and ticks end within a bound of steps of their own thread.
THEOREM ProgressBoundedHolds == Spec => ProgressBounded
<1>1. ASSUME NodeInv, RunnersInOrder, [Next]_vars
      PROVE  /\ lifecycle \in TransitionStates =>
                  IF CallbackStep THEN StepsLeft' < StepsLeft
                                  ELSE StepsLeft' = StepsLeft
             /\ tick.at # "idle" =>
                  \/ tick' = tick
                  \/ StepsOfTick[tick'.at] < StepsOfTick[tick.at]
  <2>1. ASSUME lifecycle \in TransitionStates, ~CallbackStep
        PROVE  StepsLeft' = StepsLeft
      BY <1>1, <2>1, OthersKeepTransition DEF StepsLeft, Processed
  <2>2. QED  BY <1>1, <2>1, CallbackProgress, TickProgress
<1>2. QED  BY <1>1, NodeInvInvariant, RunnersInOrderHolds, PTL
           DEF Spec, ProgressBounded

-----------------------------------------------------------------------------
\* The trace of the first n events, extended by the next one.
LEMMA EventsExtended ==
    ASSUME NEW n \in Nat
    PROVE  /\ Events(n) \in Seq(Nat)
           /\ Len(Events(n)) = n
           /\ Append(Events(n), n + 1) = Events(n + 1)
BY DEF Events

\* A new recorder satisfies the invariant.
LEMMA InitRecorderInv == RecorderInit => RecorderInv
<1> SUFFICES ASSUME RecorderInit PROVE RecorderInv
    OBVIOUS
<1>1. Events(0) = <<>>
    BY DEF Events
<1>2. RecorderTypeOK
  <2>1. MarksTyped
      BY DEF RecorderInit, MarksTyped
  <2>2. queue \in Seq(Nat) /\ file \in Seq(Nat) /\ footer \in Footers
      BY DEF RecorderInit, Footers, NoFooter
  <2>3. DataTyped
      BY <2>2 DEF RecorderInit, DataTyped, NodeStages, WriterStages
  <2>4. QED  BY <2>1, <2>3 DEF RecorderTypeOK
<1>3. Numbered /\ Counted /\ Closing
    BY <1>1 DEF RecorderInit, Numbered, Counted, Closing, Writing, NoFooter
<1>4. QED  BY <1>2, <1>3 DEF RecorderInv

\* Recording an event, whatever becomes of its frame.
LEMMA RecordInv == RecorderInv /\ Record => RecorderInv'
<1> SUFFICES ASSUME RecorderInv, Record PROVE RecorderInv'
    OBVIOUS
<1> USE DEF RecorderInv, RecorderTypeOK, flags, Applies, Notify
<1> DEFINE k == Len(queue)
<1>0. Writing \in 0..1
    BY DEF Writing
<1>1. CASE FrameAccepted
  <2>1. /\ Len(queue') = k + 1 /\ queue' \in Seq(Nat) /\ k \in Nat
        /\ queue'[k + 1] = applied + 1
        /\ \A i \in 1..k : queue'[i] = queue[i]
      BY <1>1 DEF FrameAccepted, DataTyped
  <2>2. Writing' = Writing
      BY <1>1 DEF FrameAccepted, Writing
  <2>3. MarksTyped' /\ Closing'
      BY <1>1 DEF FrameAccepted, MarksTyped, Counted, Closing
  <2>4. DataTyped'
      BY <1>1, <2>1 DEF FrameAccepted, DataTyped, WriterStages
  <2>5. Counted'
    <3>1. /\ Len(file) \in Nat /\ valid' /\ accepting' /\ ~writerFailed'
          /\ Len(file) + Writing + k = applied
        BY <1>1 DEF FrameAccepted, DataTyped, MarksTyped, Counted
    <3>2. /\ accepted' = applied' /\ lastAccepted' = applied'
          /\ applied' = applied + 1 /\ file' = file
        BY <1>1 DEF FrameAccepted, Counted
    <3>3. Len(file') + Writing' + Len(queue') = lastAccepted'
        BY <3>1, <3>2, <2>1, <2>2, <1>0 DEF DataTyped
    <3>4. ~overflow'
        BY <1>1 DEF FrameAccepted, Counted
    <3>5. QED  BY <3>1, <3>2, <3>3, <3>4, <2>4 DEF Counted, DataTyped
  <2>6. Numbered'
    <3>1. /\ ~writerFailed /\ file' = file /\ Len(file) \in Nat
          /\ Len(file) + Writing + k = applied
        BY <1>1 DEF FrameAccepted, DataTyped, Counted
    <3>2. \A i \in 1..k + 1 : queue'[i] = Len(file) + Writing + i
      <4> SUFFICES ASSUME NEW i \in 1..k + 1
                   PROVE  queue'[i] = Len(file) + Writing + i
          OBVIOUS
      <4>1. CASE i = k + 1
          BY <4>1, <3>1, <2>1, <1>0
      <4>2. CASE i # k + 1
          BY <4>2, <3>1, <2>1 DEF Numbered
      <4>3. QED  BY <4>1, <4>2
    <3>3. file' = Events(Len(file')) /\ (pc' = "writing"
                                          => frame' = Len(file') + 1)
        BY <1>1, <3>1 DEF FrameAccepted, Numbered
    <3>4. QED  BY <3>1, <3>2, <3>3, <2>1, <2>2 DEF Numbered
  <2>7. QED  BY <2>3, <2>4, <2>5, <2>6
<1>2. CASE FrameRefused
  <2>1. MarksTyped' /\ DataTyped'
      BY <1>2 DEF FrameRefused, recorder, MarksTyped, DataTyped
  <2>2. ~accepting /\ Writing' = Writing
      BY <1>2 DEF FrameRefused, Writing
  <2>3. Numbered'
      BY <1>2, <2>2 DEF FrameRefused, recorder, Numbered
  <2>4. Counted'
      BY <1>2, <2>2 DEF FrameRefused, recorder, DataTyped, Counted, Closing
  <2>5. Closing'
      BY <1>2 DEF FrameRefused, recorder, Closing
  <2>6. QED  BY <2>1, <2>3, <2>4, <2>5
<1>3. CASE FrameRejected
  <2>1. MarksTyped'
      BY <1>3 DEF FrameRejected, MarkInvalid, MarksTyped
  <2>2. DataTyped'
      BY <1>3 DEF FrameRejected, MarkInvalid, DataTyped, NodeStages, WriterStages
  <2>3. Numbered'
      BY <1>3 DEF FrameRejected, MarkInvalid, DataTyped, Numbered, Counted, Writing
  <2>4. Counted'
      BY <1>3 DEF FrameRejected, MarkInvalid, DataTyped, MarksTyped, Counted, Writing
  <2>5. Closing'
      BY <1>3 DEF FrameRejected, MarkInvalid, DataTyped, MarksTyped, Numbered, Counted, Closing, Writing
  <2>6. QED  BY <2>1, <2>2, <2>3, <2>4, <2>5
<1>4. CASE EnqueueThrows
  <2>1. MarksTyped'
      BY <1>4 DEF EnqueueThrows, MarkInvalid, Fits, Contiguous, MarksTyped
  <2>2. DataTyped'
      BY <1>4 DEF EnqueueThrows, MarkInvalid, Fits, Contiguous, DataTyped, NodeStages, WriterStages
  <2>3. Numbered'
      BY <1>4 DEF EnqueueThrows, MarkInvalid, Fits, Contiguous, DataTyped, Numbered, Counted, Writing
  <2>4. Counted'
      BY <1>4 DEF EnqueueThrows, MarkInvalid, Fits, Contiguous, DataTyped, MarksTyped, Counted, Writing
  <2>5. Closing'
      BY <1>4 DEF EnqueueThrows, MarkInvalid, Fits, Contiguous, DataTyped, MarksTyped, Numbered, Counted, Closing, Writing
  <2>6. QED  BY <2>1, <2>2, <2>3, <2>4, <2>5
<1>5. CASE FrameConstructionFails
  <2>1. MarksTyped'
      BY <1>5 DEF FrameConstructionFails, MarkInvalid, MarksTyped
  <2>2. DataTyped'
      BY <1>5 DEF FrameConstructionFails, MarkInvalid, DataTyped, NodeStages, WriterStages
  <2>3. Numbered'
      BY <1>5 DEF FrameConstructionFails, MarkInvalid, DataTyped, Numbered, Counted, Writing
  <2>4. Counted'
      BY <1>5 DEF FrameConstructionFails, MarkInvalid, DataTyped, MarksTyped, Counted, Writing
  <2>5. Closing'
      BY <1>5 DEF FrameConstructionFails, MarkInvalid, DataTyped, MarksTyped, Numbered, Counted, Closing, Writing
  <2>6. QED  BY <2>1, <2>2, <2>3, <2>4, <2>5
<1>6. CASE EngineRejects
  <2>1. MarksTyped'
      BY <1>6 DEF EngineRejects, MarkInvalid, writer, MarksTyped
  <2>2. DataTyped'
      BY <1>6 DEF EngineRejects, MarkInvalid, writer, DataTyped, NodeStages, WriterStages
  <2>3. Numbered'
      BY <1>6 DEF EngineRejects, MarkInvalid, writer, DataTyped, Numbered, Counted, Writing
  <2>4. Counted'
      BY <1>6 DEF EngineRejects, MarkInvalid, writer, DataTyped, MarksTyped, Counted, Writing
  <2>5. Closing'
      BY <1>6 DEF EngineRejects, MarkInvalid, writer, DataTyped, MarksTyped, Numbered, Counted, Closing, Writing
  <2>6. QED  BY <2>1, <2>2, <2>3, <2>4, <2>5
<1>7. QED  BY <1>1, <1>2, <1>3, <1>4, <1>5, <1>6 DEF Record

\* Cleanup and stop().
LEMMA StopInv == RecorderInv /\ (Cleanup \/ Stop) => RecorderInv'
<1> SUFFICES ASSUME RecorderInv, Cleanup \/ Stop PROVE RecorderInv'
    OBVIOUS
<1> USE DEF RecorderInv, flags, recorder, writer, RecorderTypeOK, MarksTyped,
            DataTyped, NodeStages, Numbered, Counted, Closing, Writing
<1>1. CASE Cleanup
    BY <1>1 DEF Cleanup
<1>2. CASE RequestStop
    BY <1>2 DEF RequestStop
<1>3. CASE NotifyStop
    BY <1>3 DEF NotifyStop, Notify, WriterStages
<1>4. CASE Join
    BY <1>4 DEF Join
<1>5. QED  BY <1>1, <1>2, <1>3, <1>4 DEF Stop

\* The writer thread.
LEMMA WriterInv == RecorderInv /\ (WriterStep \/ SpuriousWakeup) => RecorderInv'
<1> SUFFICES ASSUME RecorderInv, WriterStep \/ SpuriousWakeup
             PROVE  RecorderInv'
    OBVIOUS
<1> USE DEF RecorderInv, RecorderTypeOK, flags, recorder
<1>1. CASE Open \/ Sleep \/ SpuriousWakeup
  <2>1. MarksTyped' /\ Writing = 0 /\ Writing' = 0 /\ file' = file
      BY <1>1 DEF Open, Sleep, SpuriousWakeup, MarksTyped, Writing
  <2>2. DataTyped'
      BY <1>1 DEF Open, Sleep, SpuriousWakeup, DataTyped, WriterStages
  <2>3. Numbered'
      BY <1>1, <2>1 DEF Open, Sleep, SpuriousWakeup, Numbered
  <2>4. Counted'
      BY <1>1, <2>1 DEF Open, Sleep, SpuriousWakeup, DataTyped, MarksTyped,
                        Counted
  <2>5. Closing'
      BY <1>1 DEF Open, Sleep, SpuriousWakeup, MarksTyped, Counted, Closing
  <2>6. QED  BY <2>1, <2>2, <2>3, <2>4, <2>5
<1>2. CASE Take
  <2>1. /\ Len(queue) > 0 /\ Len(Tail(queue)) = Len(queue) - 1
        /\ \A i \in 1..Len(Tail(queue)) : Tail(queue)[i] = queue[i + 1]
        /\ Tail(queue) \in Seq(Nat)
        /\ Head(queue) = queue[1] /\ Head(queue) \in Nat
      BY <1>2 DEF Take, DataTyped
  <2>2. MarksTyped' /\ Closing'
      BY <1>2 DEF Take, MarksTyped, Closing
  <2>3. DataTyped'
      BY <1>2, <2>1 DEF Take, DataTyped, WriterStages
  <2>4. Counted'
    <3>1. Writing = 0 /\ Writing' = 1 /\ Len(file) \in Nat /\ file' = file
        BY <1>2 DEF Take, Writing, DataTyped
    <3>2. Len(file') + Writing' + Len(queue') = Len(file) + Writing + Len(queue)
        BY <1>2, <2>1, <3>1 DEF Take, DataTyped
    <3>3. QED  BY <1>2, <3>2 DEF Take, Counted
  <2>5. ~writerFailed' => \A i \in 1..Len(queue') :
                             queue'[i] = Len(file') + Writing' + i
      BY <1>2, <2>1 DEF Take, DataTyped, Numbered, Counted, Writing
  <2>6. frame' = Len(file') + 1
    <3>1. ~writerFailed /\ Writing = 0 /\ Len(file) \in Nat /\ file' = file
        BY <1>2 DEF Take, Counted, Writing, DataTyped
    <3>2. queue[1] = Len(file) + 1
        BY <3>1, <2>1 DEF Numbered, DataTyped
    <3>3. QED  BY <1>2, <2>1, <3>1, <3>2 DEF Take
  <2>7. Numbered'
      BY <1>2, <2>5, <2>6 DEF Take, Numbered
  <2>8. QED  BY <2>2, <2>3, <2>4, <2>7
<1>3. CASE Leave
  <2>1. MarksTyped' /\ Writing = 0 /\ Writing' = 0 /\ file' = file
      BY <1>3 DEF Leave, MarksTyped, Writing
  <2>2. DataTyped'
      BY <1>3 DEF Leave, DataTyped, WriterStages
  <2>3. Numbered'
      BY <1>3, <2>1 DEF Leave, Numbered
  <2>4. Counted'
      BY <1>3, <2>1 DEF Leave, DataTyped, Counted
  <2>5. Closing'
      BY <1>3 DEF Leave, MarksTyped, Counted, Closing
  <2>6. QED  BY <2>1, <2>2, <2>3, <2>4, <2>5
<1>4. CASE Write
  <2> DEFINE n == Len(file)
  <2>1. n \in Nat /\ file = Events(n) /\ frame = n + 1 /\ frame \in Nat
      BY <1>4 DEF Write, DataTyped, Numbered
  <2>2. /\ file' = Events(n + 1) /\ file' \in Seq(Nat)
        /\ Len(file') = n + 1
      BY <1>4, <2>1, EventsExtended DEF Write
  <2>3. Writing = 1 /\ Writing' = 0 /\ queue' = queue
      BY <1>4 DEF Write, Writing
  <2>4. MarksTyped' /\ Closing'
      BY <1>4 DEF Write, MarksTyped, Closing
  <2>5. DataTyped'
      BY <1>4, <2>2 DEF Write, DataTyped, WriterStages
  <2>6. Numbered'
      BY <1>4, <2>1, <2>2, <2>3 DEF Write, DataTyped, Numbered
  <2>7. Counted'
      BY <1>4, <2>1, <2>2, <2>3 DEF Write, DataTyped, Counted
  <2>8. QED  BY <2>4, <2>5, <2>6, <2>7
<1>5. CASE ComposeFooter
  <2>1. MarksTyped'
      BY <1>5 DEF ComposeFooter, MarkInvalid, MarksTyped
  <2>0. LastSequence(file) = Len(file) /\ Len(file) \in Nat
      BY DEF DataTyped, Numbered, Events, LastSequence
  <2>2. /\ footer' \in Footers /\ footer'.valid = valid'
        /\ footer'.overflow = overflow' /\ ~footer'.present
        /\ footer'.last = Len(file) /\ footer'.count = Len(file)
      BY <1>5, <2>0, <2>1 DEF ComposeFooter, Footers, MarksTyped
  <2>3. DataTyped'
      BY <1>5, <2>2 DEF ComposeFooter, DataTyped, WriterStages
  <2>4. /\ Writing = 0 /\ Writing' = 0 /\ file' = file /\ queue = <<>>
        /\ Len(queue) = 0 /\ Len(file) \in Nat
      BY <1>5 DEF ComposeFooter, Writing, Closing, DataTyped
  <2>5. Numbered'
      BY <1>5, <2>4 DEF ComposeFooter, Numbered
  <2>6. Counted'
      BY <1>5, <2>4
         DEF ComposeFooter, MarkInvalid, DataTyped, MarksTyped, Counted, Closing
  <2>7. valid' => file' = Events(applied')
      BY <1>5, <2>4
         DEF ComposeFooter, MarkInvalid, DataTyped, Numbered, Counted
  <2>8. valid' => ~overflow'
      BY <2>6 DEF Counted
  <2>9. Closing'
      BY <1>5, <2>2, <2>4, <2>7, <2>8
         DEF ComposeFooter, MarkInvalid, MarksTyped, Counted, Closing
  <2>10. QED  BY <2>1, <2>3, <2>5, <2>6, <2>9
<1>6. CASE Close
  <2>1. MarksTyped'
      BY <1>6 DEF Close, Footers, MarksTyped
  <2>2. DataTyped'
      BY <1>6 DEF Close, Footers, DataTyped, NodeStages, WriterStages
  <2>3. Numbered'
      BY <1>6 DEF Close, Footers, DataTyped, Numbered, Counted, Writing
  <2>4. Counted'
      BY <1>6 DEF Close, Footers, DataTyped, MarksTyped, Counted, Writing
  <2>5. Closing'
      BY <1>6 DEF Close, Footers, DataTyped, MarksTyped, Numbered, Counted, Closing, Writing
  <2>6. QED  BY <2>1, <2>2, <2>3, <2>4, <2>5
<1>7. CASE WriterFails
  <2>1. MarksTyped'
      BY <1>7 DEF WriterFails, MarkInvalid, Footers, MarksTyped
  <2>2. DataTyped'
      BY <1>7 DEF WriterFails, MarkInvalid, Footers, DataTyped, NodeStages, WriterStages
  <2>3. Numbered'
      BY <1>7 DEF WriterFails, MarkInvalid, Footers, DataTyped, Numbered, Counted, Writing
  <2>4. Counted'
      BY <1>7 DEF WriterFails, MarkInvalid, Footers, DataTyped, MarksTyped, Counted, Writing
  <2>5. Closing'
      BY <1>7 DEF WriterFails, MarkInvalid, Footers, DataTyped, MarksTyped, Numbered, Counted, Closing, Writing
  <2>6. QED  BY <2>1, <2>2, <2>3, <2>4, <2>5
<1>8. QED  BY <1>1, <1>2, <1>3, <1>4, <1>5, <1>6, <1>7 DEF WriterStep

\* RecorderInv is an invariant.
THEOREM RecorderInvInvariant == RecorderSpec => []RecorderInv
<1>1. RecorderInv /\ [RecorderNext]_recorderVars => RecorderInv'
  <2> SUFFICES ASSUME RecorderInv, [RecorderNext]_recorderVars PROVE RecorderInv'
      OBVIOUS
  <2>1. CASE RecorderNext
      BY <2>1, RecordInv, StopInv, WriterInv DEF RecorderNext
  <2>2. CASE UNCHANGED recorderVars
      BY <2>2 DEF recorderVars, recorder, writer, flags, RecorderInv, RecorderTypeOK, MarksTyped, DataTyped,
                  Numbered, Counted, Closing, Writing
  <2>3. QED  BY <2>1, <2>2
<1>2. QED  BY <1>1, InitRecorderInv, PTL DEF RecorderSpec

\* A file that replay admits holds every event the engine applied, and one
\* whose footer is valid is admitted.
THEOREM ValidTraceCompleteHolds == RecorderSpec => []ValidTraceComplete
<1>1. RecorderInv => ValidTraceComplete
  <2> SUFFICES ASSUME RecorderInv PROVE ValidTraceComplete
      OBVIOUS
  <2>1. Replayable(file, footer) => file = Events(applied)
      BY DEF RecorderInv, Closing, Replayable
  <2>2. ASSUME footer.present, footer.valid, applied > 0
        PROVE  Replayable(file, footer)
    <3>1. /\ file = Events(applied) /\ ~footer.overflow
          /\ footer.last = Len(file) /\ footer.count = Len(file)
          /\ applied \in Nat
        BY <2>2 DEF RecorderInv, RecorderTypeOK, DataTyped, Closing
    <3>2. Len(file) = applied /\ \A i \in 1..Len(file) : file[i] = i
        BY <3>1 DEF Events
    <3>3. file # <<>> /\ LastSequence(file) = Len(file)
        BY <2>2, <3>1, <3>2 DEF LastSequence
    <3>4. QED  BY <2>2, <3>1, <3>2, <3>3 DEF Replayable, Reads
  <2>3. QED  BY <2>1, <2>2 DEF ValidTraceComplete
<1>2. QED  BY <1>1, RecorderInvInvariant, PTL

\* The check for a non-contiguous frame in try_enqueue never fires.
THEOREM LevelWithEngineHolds == RecorderSpec => []LevelWithEngine
<1>1. RecorderInv => LevelWithEngine
    BY DEF RecorderInv, Counted, LevelWithEngine
<1>2. QED  BY <1>1, RecorderInvInvariant, PTL

\* Status and footer agree unless writing the footer itself failed.
THEOREM FooterAgreesHolds == RecorderSpec => []FooterAgrees
<1>1. RecorderInv => FooterAgrees
    BY DEF RecorderInv, Closing, FooterAgrees
<1>2. QED  BY <1>1, RecorderInvInvariant, PTL

\* A writer that sleeps has nothing to write, and its stop is announced.
THEOREM NoLostWakeupHolds == RecorderSpec => []NoLostWakeup
<1>1. RecorderInit => NoLostWakeup
    BY DEF RecorderInit, NoLostWakeup
<1>2. ASSUME NoLostWakeup, RecorderInv, [RecorderNext]_recorderVars
      PROVE  NoLostWakeup'
  <2> USE <1>2 DEF NoLostWakeup
  <2>1. CASE Record
    <3>1. owner = "recording"
        BY <2>1 DEF Record, FrameAccepted, FrameRefused, FrameRejected,
                    EnqueueThrows, FrameConstructionFails, EngineRejects,
                    Applies
    <3>2. ~stopRequested /\ stopRequested' = stopRequested
        BY <2>1, <3>1
           DEF RecorderInv, Closing, Record, FrameAccepted, FrameRefused,
               FrameRejected, EnqueueThrows, FrameConstructionFails,
               EngineRejects, MarkInvalid, flags, recorder
    <3>3. pc' = "asleep" => pc = "asleep" /\ queue' = queue
        BY <2>1 DEF Record, FrameAccepted, FrameRefused, FrameRejected,
                    EnqueueThrows, FrameConstructionFails, EngineRejects,
                    Notify, recorder, writer
    <3>4. QED  BY <3>2, <3>3
  <2>2. CASE Cleanup \/ Stop
    <3>1. owner \in {"recording", "cleaned"} => ~stopRequested
        BY DEF RecorderInv, Closing
    <3>2. QED  BY <2>2, <3>1
               DEF Cleanup, Stop, RequestStop, NotifyStop, Join, Notify,
                   recorder, writer, flags
  <2>3. CASE WriterStep
      BY <2>3 DEF WriterStep, Open, Sleep, Take, Leave, Write, ComposeFooter,
                  Close, WriterFails, recorder, flags
  <2>4. CASE SpuriousWakeup
      BY <2>4 DEF SpuriousWakeup
  <2>5. CASE UNCHANGED recorderVars
      BY <2>5 DEF recorderVars, recorder, writer, flags
  <2>6. QED  BY <2>1, <2>2, <2>3, <2>4, <2>5 DEF RecorderNext
<1>3. QED  BY <1>1, <1>2, RecorderInvInvariant, PTL DEF RecorderSpec
=============================================================================
