# ControlLink-Guardian in TLA+

This directory models ControlLink-Guardian (`src/`), a ROS 2 gateway that
arbitrates between control sources (teleop, planning, Nav2) and hands the
winner's command to a vehicle or robot adapter at a fixed rate, falling back to
HOLD whenever it cannot vouch for the command. Paths below are relative to
`src/ros2_ws/src/`.

## 1. Inventory of the system

| Component | State it keeps | Operations | What makes it hard |
|---|---|---|---|
| Decision core: `control_link_gateway/src/decision_engine.cpp`, `source_arbiter.cpp`, `state_machine.cpp`, `command_validator.cpp`, `source_runtime.cpp`, `source_binding.cpp` | per-source slot (confirmed publisher generation, sequence baseline, latest valid snapshot), health snapshot and epoch, recovery evidence, tick supervision, arbiter (active, challenger, since), data-plane state | lifecycle event, health event, source sample, output tick | events in any order, two clocks, progress that must survive some events and not others |
| Gateway node: `control_gateway_node.cpp`, `control_gateway_main.cpp` | lifecycle state, contract bundle, publishers, timer, gate flags, engine | lifecycle callbacks, output tick, graph poll, clock poll, vehicle state, source command, diagnostics | two executor threads and three callback groups interleave at every release of `runtime_mutex_` |
| Graph monitor: `graph_monitor.cpp`, `critical_endpoint_monitor.cpp` | per-endpoint stability (observed identity, since, stable) | poll of the ROS graph | flapping endpoints, a window over polls |
| Vehicle state and ROS clock supervision: `vehicle_state_runtime.cpp`, `vehicle_state_validator.cpp`, `control_gateway_node.cpp` 426-547 | last accepted state and sequence, last clock observation | message, poll | stalls and backward jumps, late messages |
| Trace recorder: `decision_trace_recorder.cpp` | bounded queue, accept/stop/valid flags, file and footer | enqueue, invalidate, writer loop, stop | writer thread, condition variable, I/O failure at any write |
| Trace format, replay: `decision_trace.cpp`, `decision_replay.cpp` | none | serialise, parse, replay | completeness rules of the footer |
| Contract: `control_link_contract/src/*` | none (immutable bundle) | parse, validate, hash, diff, classify | pure, but its constraints bound every other component, and every process loads its own copy at its own time |
| Reconfiguration: `control_link_bringup/src/reconfiguration_transaction.cpp`, `tools/reconfigure_gateway.cpp` | step, abandoned service requests, latest diagnostics, last-known-good and result files | seven forward steps, five rollback steps | late answers, refusals, gateway failure, kill between steps |
| SocketCAN adapter: `control_link_adapters/src/socketcan_*.cpp`, `can_codec.cpp`, `local_watchdog.cpp`, `canonical_*.cpp` | canonical input state, watchdog, link health, rolling counters, retry frame | ROS callbacks, I/O thread | callbacks against the I/O thread; retries |
| ros2_control adapter: `ros2_control_adapter.cpp`, `controller_endpoint_monitor.cpp`, `hardware_component_monitor.cpp`, `tf_health_monitor.cpp` | fault latch, monitors | polls, odometry, canonical command | order of monitor callbacks |
| Twist ingress, mocks, simulators, acceptance tools, launch | small | translation, simulation, measurements | not core |

Interactions. Sources publish `ControlCommand` to the node, which submits it,
together with health snapshots (graph, QoS, ROS clock, vehicle state) and
output ticks, as events to the decision engine, all under `runtime_mutex_`.
Every applied event also goes to the trace recorder. The tick's result is
published to the adapter, whose vehicle state flows back as health. The
reconfiguration command drives the node through its lifecycle services and
observes it through `/diagnostics`. Gateway, adapter, ingress and the
reconfiguration command each load the configuration from the same files, at
different times.

What makes each component correct is stated as the properties of section 4;
what is hard to test is listed, line by line, under `hazards` in
`PROJECT.json`.

## 2. Modules

| Module | Models | Correspondence |
|---|---|---|
| `GatewayContract` | contract values | constants named after `GatewaySettings`, `Limits` and `SourcePolicyEntry`; their assumptions are what `parser.cpp` enforces |
| `SourceArbiter` | `source_arbiter.cpp` | `Qualified`, `CandidateIsBetter`, `ArbitrationEvent`, `Selected`, `ArbiterAfter`: one evaluation as operators on the arbiter's value |
| `GatewayStateMachine` | `state_machine.cpp` | `Decide` is `evaluate`; `SafetyGate`, `EvaluateActive`, `EvaluateRecovery`, `Commit` are the methods of those names |
| `DecisionEngine` | `decision_engine.cpp` with validator, slots and bindings | one action per event kind: `Configure` .. `Cleanup`, `HealthEvent`, `SourceSample`, `OutputTick`; `PassTime` moves the clocks |
| `GatewayNode` | lifecycle and tick of `control_gateway_node.cpp` | one action per critical section of a callback |
| `HealthMonitors` | `graph_monitor.cpp`, `critical_endpoint_monitor.cpp`, `vehicle_state_*.cpp`, and `poll_graph`, the VehicleState callback, the gate of `on_activate` and the health a tick decides on | one action per critical section; `PollGraphStart` and `PollGraphCommit` are the two ends of a poll that queries the graph outside the lock |
| `RosClock` | the node's supervision of ROS time | `JumpCallback` is the handler, which takes no lock; `Sample` is `update_ros_clock_health_locked` |
| `TraceRecorder` | `decision_trace_recorder.cpp`, its calls in the node, the completeness rules of `read_decision_trace` and the admission to replay | one action per critical section or file write; `Reads`, `Replayable` are operators on the file |
| `ConfigSwitch` | abstract: what a reconfiguration promises | the specification `Reconfiguration` is checked to implement |
| `Reconfiguration` | transaction, command and the services it calls | `Calls` lists the service calls of each step; `Send`, answer and outcome of a call are separate steps |
| `RollingCounter` | the rolling counter of `can_codec.cpp` and its checker | `Succ`, modulo the period of the signal map |
| `CanonicalInput` | the canonical boundary of both adapters: `canonical_endpoint_tracker.cpp`, `canonical_input_guard.cpp`, `local_watchdog.cpp` | `Observe` is the tracker, `GuardReason` the guard, `Poll`, `Accept`, `Reject` what the adapter's callbacks make of them |
| `SocketCanTransmit` | command path of `socketcan_adapter.cpp` and the I/O loop of `socketcan_transport.cpp` | the ROS callbacks, `request_immediate_hold` in two steps, and the turns of `run()`: taking the immediate flag, composing, writing, confirming |
| `SocketCanFeedback` | feedback path of `socketcan_adapter.cpp` with `RollingCounterChecker` | one action per handler and timer callback |
| `Ros2ControlAdapter` | the canonical side of `ros2_control_adapter.cpp` | `PollCanonicalEndpoint`, `HandleCanonicalCommand`, `PublishControllerCommand`, `PublishVehicleState` are its callbacks |
| `RobotPlatform` | the robot's side of it: `controller_endpoint_monitor.cpp`, `hardware_component_monitor.cpp`, `tf_health_monitor.cpp`, odometry | one action per callback; `PlatformFault` is `platform_fault_code` |
| `ControlLoop` | gateway, activator and robot adapter closed into a loop | composes `Ros2ControlAdapter` with what `GatewayNode` and `DecisionEngine` make of the gateway |
| `QosProfiles` | `qos_factory.cpp`, `compatibility.cpp`, QoS in the parser and the endpoint monitor | `MakeQos` is `QosFactory::make` and leaves what is not stated at rclcpp's default, which the node compares with; `Discovered` is what the graph shows of it; `DdsCompatible`, `QosHealthy` |
| `CanSignals` | `can_signal_parser.cpp`, the constructor of `can_codec.cpp` | the fixed rules of protocol v1, what a map may choose, and when the codec throws |
| `ContractBundle` | `parser.cpp`, `contract_bundle.cpp` | one predicate per file and section; `Loads` is `load_contract_bundle` |
| `ConfigIdentity` | `config_identity.cpp`, `reconfiguration.cpp`, the FastDDS profile | `DecisionHash`, `FastDdsHash`, `ChangeClass` |
| `ConfigChain` | who loads a configuration when: launch, activator, gateway, reconfiguration | one action per load, transition and comparison |
| `MC*` | instances for TLC | |
| `*_proofs` | theorems | |

Who composes whom: `DecisionEngine` extends `SourceArbiter` and
`GatewayStateMachine`; both SocketCAN modules and `Ros2ControlAdapter` extend
`CanonicalInput`, the former `RollingCounter` too; `ControlLoop` extends
`Ros2ControlAdapter`; `ConfigChain` extends `ConfigIdentity`, which extends
`ContractBundle`, `QosProfiles` and `CanSignals`; `Reconfiguration`
instantiates `ConfigSwitch`.

Abstractions worth knowing:

* Engine. Motion is one bit (motion or hold). A command's structural checks
  (identity, mode, ranges, stamp structure) are the one outcome `Malformed`.
  Recovery evidence is a list of verdicts in the code; the count of a candidate
  depends only on the evidence of its own key and there on what follows the
  last rejection, so the model keeps a tally per key (`TallyAfter`) and stops
  counting at the threshold.
* Node. `GatewayNode` abstracts a tick's decision to whether it is ERROR; that
  it is so only for a broken invariant is `ErrorOnlyFromInvariant` of the
  engine. It treats `on_configure` and `on_cleanup` as one step each: their
  commit is one critical section, and what precedes it touches nothing shared.
  The three publishers are one value: none, some or all of them activated.
  `TimerBase::cancel` is taken not to fail: `request_lifecycle_error` is
  noexcept, so the process would end. FINALIZED, which SHUTDOWN and a failed
  error processing lead to, is a state of `GatewayNode` only; the other modules
  stop at an inactive node.
* Monitors. An endpoint is a model value, one for each process and incarnation.
  What is wrong with a VehicleState is one outcome, `bad`; of the good ones the
  bootstrap SAFE_STOP (safe stop for a canonical timeout) is told apart,
  because only it opens the gate. `HealthMonitors` tracks one required source
  and the vehicle role, which every other source and role repeats.
* Recorder. A frame is its event sequence number, and the result of a tick
  travels with its frame. Writer and reader serialise each record field by
  field in the same way, so a record is read as it was written; a record that
  was cut short is none.
* Reconfiguration. A configuration is `"old"` or `"new"`, diagnostics carry a
  hash and one health bit, and the class of the plan is an input: it is
  `ConfigIdentity` that computes it, and `ConfigChain` that relates the two.
* SocketCAN. The two modules share the canonical state and differ in what of
  the adapter they add: the command path never reads the link's state, and the
  feedback path reads nothing of the command path but whether its thread has
  died (`HandleCanError` stands for any fatal error of either). A frame is its
  mode and counter, or its counter and what it says of the vehicle; a command's
  defects are one outcome, `bad`.
* Robot. `RobotPlatform` and `Ros2ControlAdapter` meet in one value, the
  platform's fault: the first shows what a platform without a fault means, the
  second takes the fault as an input that may change at any time.
* Loop. The gateway's sources always have a command, its recovery is a number
  of good ticks in a row, and the vehicle's freshness is whether its last
  report arrived. Each timer runs once in a unit of time, in any order.
* Configuration. A file is a record of the fields that some rule relates to
  another field, file or process; which fields exist, their spelling and their
  types are one outcome, a document that does not load. A canonical
  serialisation is injective and SHA-256 free of collisions, so a hash is the
  tuple of what it covers.
* Times are ages that stop growing where no comparison can change any more, so
  they need no bound (except in `DecisionEngine`, which needs absolute stamps).

## 3. Runs and bounds

| Run | Bounds | Distinct states | Why they are enough |
|---|---|---|---|
| Engine | 2 sources of different priority, 1 generation each, hold 1, lease 2, timeout 1, 2 samples to recover, 1 late tick to SAFE_STOP, health good, QoS mismatch or broken invariant, sequences and time to 2, 1 epoch by health | 748 074 | a challenger appears, is interrupted, reappears and wins; leases and commands run out; a sample is rejected within a recovery; a sequence below, at and above the baseline; faults before, during and after recovery. A restarted publisher (second generation) is left to the proofs, which cover any number of them |
| NodeLifecycle | 2 threads, 2 configurations, 3 activations | 24 883 | a tick outlives a deactivation and meets the next activation and configuration; a rollback fails and the node is activated, cleaned up or shut down after it |
| TraceRecorder | queue of 2, 5 events | 1 967 | overflow with the writer at any point |
| Reconfiguration | 2 activation attempts, all classes of plans | 25 045 | a refusal followed by a success or the deadline |
| SocketCanTransmit | 2 publishers, every timeout 1, counters modulo 2 | 440 188 | one gateway replaces another with a frame pending, queued or being composed; a counter used twice shows |
| SocketCanFeedback | 1 publisher, every timeout 1, 2 frames to recover, counters modulo 3 | 596 974 | duplicates, jumps and expected counters differ; a rejected frame or an unnoticed timeout falls within a recovery |
| SocketCanAssertion | 1 publisher, every timeout 1 | up to the violation | the shortest flicker |
| HealthMonitors | 2 adapters, 1 source, window 2, vehicle timeout 1, 2 configurations | 1.2 million | an adapter is replaced, or flickers within the window, while a poll is under way and the node is cleaned up and configured again |
| RosClock | stall timeout 2, ROS time to 3, at most 2 units without a sample | 11 358 | a jump lands below, at and above the last sample; a stall ends before, at and after the timeout |
| RobotPlatform | 2 controllers (symmetric), window 2, timeouts 2 and 1 | 3.1 million | a controller is replaced within its window and its timeout; an answer arrives before, at and after the request is given up |
| ControlLoop | 2 publishers, window 1, watchdog 2, recovery of 2 ticks, 2 failures of the surroundings, 2 deactivations | 299 938 | any two failures at any moment of the handshake and after it; the second publisher is the second configuration |
| ConfigChain | 9 documents at 2 paths: the two shipped configurations, seven variants (one that does not load) | 1.2 million | files are rewritten between any two loads; each class of change occurs |

`MCConfigChain` also holds some thirty bundles with one defect each, derived
from the shipped ones, which the `ASSUME`s there require to be refused, and
compares decoding with encoding at the edges of the CAN ranges: TLC evaluates
this before it runs.

`MaxTime`, `MaxSequence`, `MaxEpoch`, `MaxBundles`, `MaxActivations`,
`MaxEvents`, `MaxAttempts`, `MaxRos`, `MaxGap`, `MaxGlitches` and
`MaxDeactivations` are the only cut-offs; each is a conjunct of a guard.
Deadlock is not checked where a system may stop (a bound is reached, an
operator requests nothing more, the command has ended); it is in ControlLoop
and ConfigChain, which never do.

Type invariants and inductive invariants are proved for every state machine.
They hold on the instances above, too, and are in no run.

Fairness.

* `GatewayNode`: weakly fair for callbacks that have started: a mutex-protected
  section ends and the executor's thread runs on. None for operators' requests,
  for gates to open or for exceptions.
* `TraceRecorder`: weakly fair for the writer thread and for the thread inside
  `stop()`; spurious wake-ups carry none, so that a lost notification shows.
* `Reconfiguration`: weakly fair for the command only; the gateway may never
  answer.
* `SocketCanTransmit`: weakly fair for both threads and for time, strongly fair
  for a write: a full kernel queue does not stay full at every attempt. None
  for commands, polls or the end of the I/O thread.
* `ControlLoop`: weakly fair for each timer, for delivery, for time, for the
  recovery of the robot, and for `Configure` and `Activate`, which the
  activator repeats (its 30 s limit is not modelled: it would end the very
  waiting the property is about). Failures are bounded in number and owe
  nothing.

## 4. What the runs show

* Engine: control authority is only regained by a proven run of samples
  (`RecoveryProven`); motion is only output on health, freshness and lease
  (`MotionAuthorized`); no sample is accepted twice (`NoReplay`); a qualified
  source keeps control until another one was better for the whole hold
  (`SwitchHeld`); arbiter and state machine never disagree (`Agreement`,
  `ErrorOnlyFromInvariant`).
* NodeLifecycle: an open gate means a complete gateway, whatever transition is
  under way (`OpenGate`); the engine follows the lifecycle or the node knows
  that it does not: an engine that a failed rollback left active has broken the
  invariant, so that no activation is committed on top of it
  (`EngineFollowsLifecycle`); and neither transitions nor ticks hang, although
  the tick's thread runs the deactivation itself (`TransitionsComplete`,
  `TickReturns`). In this run publishers, the engine, rollbacks and cleanups
  may fail wherever the code has a handler for it, and SHUTDOWN may come in any
  primary state.
* HealthMonitors: the data plane only opens on a fresh bootstrap state of the
  adapter that the graph has proven (`ActivationGated`); a tick never decides
  on vehicle health that has decayed or was inherited (`DecisionOnTruth`); an
  endpoint is only stable after the whole window under one configuration
  (`EndpointProven`); feedback never outlives its publisher
  (`FeedbackOfConfirmed`).
* RosClock: no jump is lost between handler and sample (`JumpNeverHidden`), no
  stall lasts longer than the timeout and one sampling interval
  (`StallDetected`).
* TraceRecorder: what replay admits is complete, and what was recorded whole is
  admitted (`ValidTraceComplete`); the contiguity check never fires
  (`LevelWithEngine`), `stop()` returns (`StopCompletes`), queued frames are
  drained (`QueueDrained`).
* Reconfiguration: it implements `ConfigSwitch` (`Switched`), in particular
  nothing left behind by a timed-out call moves the gateway after COMMITTED,
  ROLLED_BACK, NO_OP or REJECTED: each of these outcomes is preceded by an
  answered call on the same service, which serves requests in order. Only
  verified configurations become active (`ActivatesVerified`), last-known-good
  was active when written (`LastKnownGoodActive`), and the command ends
  (`Terminates`).
* SocketCanTransmit: a command only counts while the publisher that sent it is
  confirmed (`CommandFromConfirmed`); after authority is lost at most one
  ACTIVE frame still gets out (`AtMostOneLate`: one may be composed or pending
  at that moment, and a frame may be pending for as long as the queue is full);
  counters on the bus are consecutive (`CountersConsecutive`) and a HOLD that
  was asked for is sent (`HoldDelivered`), unless authority returns first. A
  HOLD does not always come before the first ACTIVE frame of a new gateway:
  when a periodic turn consumes `force_next_hold_` before the flag of the
  immediate turn is set, its HOLD would block, and a command is accepted
  meanwhile, the immediate turn replaces the pending HOLD.
* SocketCanFeedback: the link only becomes healthy after
  `recovery_valid_frames` frames in a row (`LinkProven`); a VehicleState that
  shows the vehicle driving is backed by both directions (`DrivingBacked`); a
  dead I/O thread is never reported as anything else (`DeathReported`).
* RobotPlatform: a platform without a fault has recent proof of each part
  (`PlatformBacked`), and a request nobody answered does not end the
  supervision of the hardware (`RequestsReleased`).
* ControlLoop: the robot moves only on fresh commands of the confirmed gateway
  (`MotionOfConfirmed`), its timers never throw (`NoThrow`), and the two sides
  do not wait for each other: the gateway gets active (`Activates`, with one
  exception below) and the vehicle moving (`Moves`) from whatever state the
  failures left behind.
* ConfigChain: an active gateway works with what the processes launched before
  it have loaded (`ProfileStays`), they understand each other in DDS and in
  time although the contract may have been exchanged under the adapter
  (`ChainWorks`), and only bundles that were compared are run (`OnlyPlanned`).

### Findings

By a run. SocketCanAssertion: when the confirmed endpoint is lost and found
again before the local watchdog runs out, the watchdog is healthy, the endpoint
confirmed and the command gone; the assertion on that in
`canonical_fault_code_locked` throws out of a timer callback and the adapter
process ends. It takes two polls of the graph within the watchdog timeout,
which the contract allows (nothing relates `graph_poll_ms` to
`local_watchdog_timeout_ms`) and the shipped values allow when one wall timer
is served late and the next on time. The robot adapter has the same assertion
and cannot fail it (`NoThrow`): it keeps the command when the endpoint is lost.

Met while modelling, without a run of their own:

* `control_gateway_node.cpp:1119`: the check before publishing compares
  publishers and the gate flag. After deactivate and activate both match again,
  so that a decision of the earlier activation can still be published; the
  comment at 2349 says ticks that have not reached that boundary are discarded.
* `control_gateway_node.hpp:50`: the node overrides no `on_shutdown`. SHUTDOWN
  from ACTIVE succeeds and leaves timer, publishers and engine on: the FINALIZED
  node goes on publishing until a tick fails or the process ends
  (`PublishOnlyActivated` says so).
* `control_gateway_node.cpp:2173`: the rollback of a failed activation logs a
  publisher that does not stop, and the node is INACTIVE with it on. At 2238 it
  notes an engine that does not stop as a broken invariant. Either way the next
  activation ends in ERROR and a cleanup, not in a second attempt.
* `control_gateway_node.cpp:1606`: a health callback that threw marks the
  invariant of whatever configuration is there when it gets the lock, with the
  same consequence for a configuration that is not to blame.
* `qos_factory.cpp:108`: a contract that omits deadline or liveliness of its
  output, or liveliness of the vehicle state or the input, is accepted. The
  gateway compares what the graph shows with its own QoS as rclcpp left it, for
  which `qos_check_compatible` is then never Ok, so it is never activated
  (respectively no source of it ever usable). `ros2_control_adapter.cpp:227`
  works around the same.
* `reconfigure_gateway.cpp:655`: after ROLLBACK_FAILED an activation request
  that timed out can still be carried out and make the candidate active, which
  the test of that outcome (`test_reconfiguration_transaction.cpp:243`) denies
  for its fake gateway. `ConfigSwitch` exempts this outcome.
* `reconfigure_gateway.cpp:1095`: when writing the final result fails after its
  rename, the catch block of `main` writes REJECTED for a gateway that was
  switched. A second command that the lock refuses does the same to a result
  file both were given. When the fsync of the directory fails after the
  descriptor was renamed, the rollback leaves last-known-good naming the
  candidate.
* Reactivation. A gateway that was active, whose last command the robot adapter
  rejected and which is then deactivated, is not activated again: the adapter
  reports CANONICAL_INVALID, which does not open the gate, until a command is
  accepted or the publisher is another one. Cleaning up and configuring helps.
  This is the exception in `Activates`.
* Bring-up. Files that are rewritten between the launch of the adapter and the
  first configure of the gateway are compared by nobody; `ProfileStays` and
  `ChainWorks` except this (`intact`).
* The decision hash covers neither contract id nor version: an edit in place
  can set the version back unnoticed, although the diff refuses that.
* `canonical_input_guard.cpp:298`: the adapter keeps the limits of its launch,
  while `reconfiguration.cpp` takes limits for the gateway's own; after limits
  were widened the adapter rejects what the gateway sends.
* Bundles that load and do not run: limits outside the range of the CAN map or
  a range without 0 (the encoder throws in the I/O thread), physical ranges
  that are no multiple of the scale, or differ between control and state (the
  codec throws at start-up); no QoS profile for `vehicle_state`, which the
  parser makes optional and adapter and gateway require; a
  `controller_command_type` that the adapter refuses when it starts; an ingress
  whose input topic is the controller's output topic.

## 5. What is proved

Every invariant and action property that a run checks, but for the one that a
run refutes, is a theorem: TLAPS checks it for every value of the constants
that the `ASSUME`s allow (section 2). The bounds of section 3 are constants as
well, so the theorems hold for any of them. A module whose proofs share a proof
module with another's has names of its own for `Init`, `Next`, `Spec` and
`TypeOK` (`ClockSpec`, `PlatformSpec`, `FeedbackSpec`, `RecorderSpec`). The
proof modules:

* `DecisionEngine_proofs`, the arbiter first: an evaluation selects only
  qualified candidates, its event matches the previous selection, a changed
  selection is the best there is, and an active source that still qualifies is
  only left when its challenger has reached the hold (`ArbitrationSound`). A
  best candidate exists because the order of candidates is total on a finite
  set. Then the engine: `IInv` is inductive. Beyond the checked invariants it
  needs `EpochsInOrder` (no evidence is younger than the current health epoch),
  `EvidenceCovered` (what the next tick would count for a key is covered by the
  key's streak of accepted samples), `FloorIsBaseline` and `ChallengerTimed`
  (the arbiter's challenger was best since it says). From it follow all
  properties of the Engine run, and that the engine's internal checks never
  throw (`NoInternalThrow`).
* `GatewayNode_proofs`: `NodeInv` adds `StagesInOrder`, what each stage of a
  transition finds and leaves behind, a failed rollback included, and
  `TimerStops` to `OpenGate` and `EngineFollowsLifecycle`; that a tick only
  publishes from a complete gateway, and never in a node that was deactivated,
  cleaned up or not activated since it decided (`PublishOnlyActivated`),
  follows from it. `RunnersInOrder` (each transition has
  one thread) gives the safety half of its liveness: a transition or tick that
  has started always has a next step (`NobodyStuck`, whose guards are written
  out, since `ENABLED` cannot be used), and each step of its thread brings it
  nearer to its end while nobody else's undoes that (`ProgressBounded`); what
  is left to fairness is that threads run. The recorder that the node starts and
  stops is proved in the same module: `RecorderInv` numbers the frames through
  from the file to the end of the queue and relates the counters to them, and
  the footer to the file; `ValidTraceComplete`, `LevelWithEngine` and the
  agreement of footer and returned status (`FooterAgrees`) follow.
  `NoLostWakeup` is the safety half of its two liveness properties: a writer
  that sleeps has nothing to write, and its stop is yet to be announced.
* `CanonicalInput_proofs`: one canonical step, whoever takes it, keeps
  `CanonicalInv`. Besides `CommandFromConfirmed` it needs `CandidateSeen` (a
  candidate is as old as the span in which nothing else was seen),
  `ReportedIsConfirmed` and `AcceptedLast`. Both sides of the SocketCAN adapter
  cite these lemmas for `ConfirmationStable` and `CommandFromConfirmed`.
* `SocketCan_proofs`, both sides of the adapter. `TransmitInv` adds
  `FramesCounted` (the frame taken but not yet written carries the counter
  after the one on the bus) and `ArmedOnce` (an ACTIVE frame is only to be
  written while none has been written late). `AtMostOneLate` and
  `CountersConsecutive` follow. `FeedbackInv` adds `RowCovers` (the recovery
  count is covered by the row of consecutive frames the bus really carried) and
  `DeathKnown` (a receive thread that ended has left its fault). `LinkProven`,
  `DeathReported`, `DrivingBacked` and `CanonicalFaultVisible` (a lost gateway
  is never reported as a plain SAFE_STOP) follow.
* `HealthMonitors_proofs`: `MonitorInv` adds `CandidateSeen` (a candidate is no
  older than the span in which nothing else was seen), `MessageBacks` (validity
  is the last message's, and the snapshot was taken of it) and `EndpointsHeld`
  (the gate's view is never healthier than the tracker). A look of a
  configuration that is gone is dropped (`StaleLook`), which `EndpointProven`
  rests on; `ActivationGated` follows because the gate refreshes what it reads.
  Then ROS time: `ClockInv` says where the memory of a jump is between handler
  and sample (`JumpRemembered`: in the counter, or in the flag while time is not
  above the last sample) and that time has stood still no longer than the
  monitor thinks, but for one sampling interval (`StillCovered`).
* `ControlLoop_proofs`: the robot adapter, unlike the SocketCAN one, keeps a
  command past the loss of its publisher, so `CommandFromConfirmed` is false
  here. `AdapterInv` holds instead: a command outlives the confirmation of its
  publisher but not the note the adapter has of it (`CommandOfNoted`), and a
  watchdog that was fed has the command that fed it (`FedByCommand`).
  `NoThrow` and `MotionOfConfirmed` follow, whatever the gateway does, for any
  number of failures. Then the platform that the same adapter supervises:
  `PlatformInv` bounds what the adapter believes by when it was true
  (`ControllerSeen`, `HardwareTrue`) and the life of a request by its timeout
  and the time to the next poll (`RequestAges`).
* `Reconfiguration_proofs`: a call that timed out leaves its request behind, and
  the proof is about what these can still do. `QueuesKept`: a service holds the
  request waited for, behind at most one left behind, and that only once the
  transaction is rolled back. `Armed`: an activation on its way, live or left
  behind, is of a gateway that waits for it with what was verified last.
  `Placed` says, for each step and call, what the gateway has loaded
  (`BlankUntilConfigured`, `TargetLoaded`, `BeforeActivation`,
  `AfterActivation`), and `Ended` that nothing is left to move the gateway when
  an outcome is settled. From it follow `ActivatesVerified`,
  `LastKnownGoodActive` and, step by step, the refinement of `ConfigSwitch`
  (`Switched`): initial states map to initial states and every step to a step
  or a stutter.
* `ConfigChain_proofs`: equal decision and FastDDS hashes mean that everything
  the other processes take from a bundle is equal (`AlikeOwned`), and so does a
  change classified as one that only rebuilds the gateway (`RebuildOwned`);
  both follow from what the hash covers and the diff compares. `ChainInv` then
  needs that no transition overtakes an activation request (`Pending`), that
  what is asked for has been compared with the plan (`AskedCompared`), that
  whatever is compared with is set up like the other processes (`SetUpAlike`),
  that an activation looked at the endpoints (`ActiveHealthy`), and that
  whoever runs has found a QoS profile for the vehicle state (`VehicleStated`).
  `OnlyPlanned`, `ProfileStays` and `ChainWorks` follow, for any bundles at all.
  Dropping the adapter's settings from the hash, the comparison of hashes or
  that of the offered QoS breaks the proof where that is used. Apart from the
  state machine, `LoadedFitsItself`: of the bundles that load, of the message
  types that the programs are compiled for, a gateway whose adapter and ingress
  loaded the same one opens its gate for exactly those that state deadline and
  liveliness of the output and liveliness of the vehicle state; its sources are
  usable if and only if the input's liveliness is stated.

The inductive invariants include the types of their variables. What is only
model-checked is liveness: `TransitionsComplete`, `TickReturns`,
`StopCompletes`, `QueueDrained`, `HoldDelivered`, `Activates`, `Moves` and
`Terminates` (fairness and `ENABLED` are out of the prover's reach); what the
parsers and codecs of `ContractBundle` and `CanSignals` accept and refuse is
evaluated on the bundles of `MCConfigChain` only.

## 6. Not modelled, and the plan

Left out for good:

* the node's diagnostics timer, which publishes copies of modelled state;
* YAML, the JSON of trace records and the bytes of a canonical serialisation:
  pure conversions without state. SHA-256 is taken for injective;
* replay after admission: it applies the recorded events to the same engine
  and compares; that the engine is a function of its events is what
  `DecisionEngine` is written as;
* CRC and bit layout of CAN frames;
* the twist ingress, the mock source, vehicle and hardware, the simulators, the
  readiness gate and the acceptance tools: they translate single messages,
  stand in for peers or observe the system from outside;
* message definitions and launch files, except for who is started with what.

Left to do:

1. `ControlAuthority`: an abstract specification of who may move the vehicle,
   refined by `DecisionEngine`, with the refinement proved.
2. The safety half of `Terminates` and `HoldDelivered`, as `ProgressBounded` and
   `NoLostWakeup` are that of the node's and the recorder's liveness.
3. Two reconfiguration commands at once, for the lock and the shared result
   file.
