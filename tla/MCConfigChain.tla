---------------------------- MODULE MCConfigChain ----------------------------
(***************************************************************************)
(* The instance that MCConfigChain.cfg checks: the repository's own files  *)
(* of both platforms, and what an operator may make of them.  Speeds and   *)
(* yaw rates are integers of 0.001 m/s and rad/s.                          *)
(***************************************************************************)
EXTENDS ConfigChain, TLC

Control == "ControlCommand"

Own(id) == "/control_link/" \o id
Input(id) == Own("input") \o "/" \o id

Words ==
    {Own("input"), Own("output"), Own("state"), Own("source_status"),
     Own("vehicle_state"), "/diagnostics", VehicleAdapter,
     Input("nav2"), Input("teleop"), Input("planning"),
     "nav2", "teleop", "planning", "/cmd_vel", "/teleop", "/planning",
     Control, VehicleStateType, "GatewayState", "SourceStatus", "Twist",
     "DiagnosticArray", "/cm", "/ddc", "/ddc/cmd", "TwistStamped", "/odom",
     "map", "odom", "base_footprint", "base_link", "laser", "urdf", "world",
     "vcan0", "/replay"}

Qos(deadline, lifespan) ==
    [reliability |-> "reliable", durability |-> "volatile",
     history |-> "keep_last", depth |-> 1, deadline |-> deadline,
     lifespan |-> lifespan, liveliness |-> {"automatic"}, lease |-> {300}]

State(topic, type, qos) == [topic |-> topic, type |-> type, qos |-> qos]

\* config/common/gateway_contract.yaml; the endpoints follow the interface.
WithEndpoints(c) ==
    c @@ [endpoints |-> <<CanonicalConsumer(c), VehicleStateProducer(c)>>]

Contract == WithEndpoints(
    [schema |-> 1, id |-> "control_link_gateway_v1", version |-> 1,
     gateway |->
       [node |-> Gateway, rate |-> 50, commandTimeout |-> 100, hold |-> 100,
        samples |-> 5, graphPoll |-> 200, stableWindow |-> 500,
        clockStall |-> 100, vehicleTimeout |-> 150, lateThreshold |-> 40,
        lateTicks |-> 2],
     limits |-> [linear |-> 1000, angular |-> 1500, rejectNonFinite |-> TRUE,
                 rejectZeroStamp |-> TRUE, futureSkew |-> 20],
     qos |-> [control_input |-> Qos({80}, {100}),
              canonical_output |-> Qos({40}, {100}),
              runtime_state |-> Qos({}, {})],
     input |-> [prefix |-> Own("input"), type |-> Control,
                qos |-> "control_input"],
     output |-> [topic |-> Own("output"), type |-> Control,
                 qos |-> "canonical_output"],
     states |->
       [gateway_state |->
          State(Own("state"), "GatewayState", {"runtime_state"}),
        source_status |->
          State(Own("source_status"), "SourceStatus", {"runtime_state"}),
        vehicle_state |->
          State(Own("vehicle_state"), VehicleStateType, {"runtime_state"}),
        diagnostics |-> State("/diagnostics", "DiagnosticArray", {})]])

\* config/common/source_policy.yaml.
Source(id, priority, lease) ==
    [id |-> id, topic |-> Input(id), type |-> Control, priority |-> priority,
     lease |-> lease, required |-> FALSE]

Policy == [schema |-> 1, id |-> "control_link_sources_v1", sources |->
             <<Source("teleop", 200, 120), Source("planning", 150, 120),
               Source("nav2", 100, 150)>>]

\* config/adas/can_signal_map.yaml.
Signal(scale, limit) == [scale |-> scale, offset |-> 0,
                         minimum |-> -limit, maximum |-> limit]

Can == [rules |-> V1Rules, controlId |-> 384, stateId |-> 640,
        controlSpeed |-> Signal(10, 1000), controlYaw |-> Signal(1, 1500),
        stateSpeed |-> Signal(10, 1000), stateYaw |-> Signal(1, 1500)]

\* config/robot/robot_profile.yaml.
Ingress(id, input, type) ==
    id :> [input |-> input, type |-> type, output |-> Input(id)]

RobotProfile ==
    [schema |-> 1, kind |-> "robot", sources |-> <<"nav2", "teleop">>,
     recordTopics |-> <<Own("output"), Own("state")>>,
     ingress |-> Ingress("nav2", "/cmd_vel", "Twist")
                   @@ Ingress("teleop", "/teleop", "Twist"),
     clock |-> "sim", useSimTime |-> TRUE,
     geometry |-> [wheelSeparation |-> 400, wheelRadius |-> 80],
     adapter |->
       [type |-> "ros2_control", input |-> Own("output"),
        controllerManager |-> "/cm", controller |-> "/ddc",
        hardware |-> "ControlLinkExecutionSystem", output |-> "/ddc/cmd",
        commandType |-> "TwistStamped", odometry |-> "/odom",
        watchdog |-> 100],
     resources |-> {"urdf", "world"},
     frames |-> <<"map", "odom", "base_footprint", "base_link", "laser">>,
     health |-> [statePeriod |-> 50, tfLookup |-> 20, tfMaxAge |-> 100,
                 controllerState |-> 150, odometry |-> 150],
     goalFrame |-> "map"]

\* config/adas/adas_profile.yaml.
AdasProfile ==
    [schema |-> 1, kind |-> "adas", sources |-> <<"planning", "teleop">>,
     recordTopics |-> <<Own("output"), Own("state")>>,
     ingress |-> Ingress("planning", "/planning", Control)
                   @@ Ingress("teleop", "/teleop", "Twist"),
     clock |-> "system", useSimTime |-> FALSE,
     adapter |->
       [type |-> "socketcan", input |-> Own("output"),
        output |-> Own("vehicle_state"), interface |-> "vcan0",
        pollTimeout |-> 20, txPeriod |-> 20, statePeriod |-> 20,
        watchdog |-> 100, canTimeout |-> 100, recoveryFrames |-> 5],
     simulator |-> [statePeriod |-> 20, watchdog |-> 100,
                    timeConstant |-> 150],
     replayNamespace |-> "/replay"]

FastDds == [path |-> "default.xml", content |-> "v1"]

File(path) ==
    [path |-> path, relative |-> TRUE, regular |-> TRUE, inside |-> TRUE,
     yaml |-> TRUE, missing |-> {}, unknown |-> {}, mistyped |-> {},
     twice |-> {}]

\* The adapter file, of a robot the controllers' and of ADAS the signal map.
Bundle(profile, adapter) ==
    [files |->
       adapter :> File("adapter.yaml")
         @@ [profile |-> File("profile.yaml"),
             contract |-> File("contract.yaml"),
             policy |-> File("policy.yaml"),
             fastdds |-> File("default.xml")],
     profile |-> profile, contract |-> Contract, policy |-> Policy,
     can |-> Can, fastdds |-> FastDds]

RobotBundle == Bundle(RobotProfile, "adapter")
AdasBundle == Bundle(AdasProfile, "can")

-----------------------------------------------------------------------------
(***************************************************************************)
(* What an operator makes of the ADAS bundle.                              *)
(***************************************************************************)

Version(b, v) == [b EXCEPT !.contract.version = v]

\* The gateway shall hold longer, and the contract says so.
Retuned == [Version(AdasBundle, 2) EXCEPT !.contract.gateway.hold = 200]

\* ... and says it under the version that it had.
Unversioned == [AdasBundle EXCEPT !.contract.gateway.hold = 200]

\* The output's deadline is dropped: what the adapter still requests is not
\* offered any more, and rclcpp's default is not compatible with anything.
Undemanding ==
    [Version(AdasBundle, 3) EXCEPT
       !.contract.qos = [@ EXCEPT !["canonical_output"] = Qos({}, {100})]]

\* The gateway slows down, and the adapter's watchdog is to follow.
Slower == [Version(AdasBundle, 2) EXCEPT
             !.contract.gateway = [@ EXCEPT !.rate = 25],
             !.profile.adapter.watchdog = 200,
             !.profile.simulator.watchdog = 200]

\* Another DDS set-up for the same contract, later in a newer one.
Tuned == [Retuned EXCEPT !.fastdds.content = "v2"]

\* A bundle that is not accepted: the watchdog is shorter than a period.
Broken == [Version(AdasBundle, 3) EXCEPT !.contract.gateway.rate = 10]

\* The same files under another version.
Renumbered == Version(Retuned, 3)

Some ==
    [robot |-> RobotBundle, adas |-> AdasBundle, retuned |-> Retuned,
     unversioned |-> Unversioned,
     undemanding |-> Undemanding, slower |-> Slower, tuned |-> Tuned,
     broken |-> Broken, renumbered |-> Renumbered]

SomeNames == DOMAIN Some

-----------------------------------------------------------------------------
(***************************************************************************)
(* Evaluated once: what is accepted, and what one defect spoils.           *)
(***************************************************************************)
ASSUME Loads(RobotBundle) /\ Loads(AdasBundle)

\* Each bundle of the instance but the broken one is one that loads.
ASSUME \A n \in SomeNames : Loads(Some[n]) <=> n # "broken"

\* What loads fits itself, but for an output without a deadline.
ASSUME \A n \in SomeNames \ {"broken"} :
         LET made == MakeQos(OutputQos(Some[n]))
         IN  DdsCompatible(made, Discovered(made)) <=> n # "undemanding"

Defects ==
    {[AdasBundle EXCEPT !.files.policy.inside = FALSE],
     [AdasBundle EXCEPT !.files.can.relative = FALSE],
     [AdasBundle EXCEPT !.files.can.yaml = FALSE],
     [RobotBundle EXCEPT !.files.adapter.regular = FALSE],
     [AdasBundle EXCEPT !.files.fastdds.regular = FALSE],
     [RobotBundle EXCEPT !.files.contract.unknown = {"hold"}],
     [AdasBundle EXCEPT !.profile.sources = <<"planning">>],
     [AdasBundle EXCEPT !.profile.sources = <<"planning", "planning">>],
     [AdasBundle EXCEPT !.profile.ingress["teleop"].input = Input("teleop")],
     [AdasBundle EXCEPT !.profile.ingress["teleop"].output = "/planning"],
     [AdasBundle EXCEPT !.profile.useSimTime = TRUE],
     [AdasBundle EXCEPT !.profile.replayNamespace = LiveNamespace],
     [AdasBundle EXCEPT !.profile.adapter.txPeriod = 100],
     [AdasBundle EXCEPT !.profile.adapter.statePeriod = 100],
     [AdasBundle EXCEPT !.profile.adapter.input = Own("state")],
     [AdasBundle EXCEPT !.can.stateId = 384],
     [AdasBundle EXCEPT !.can.rules.counter.modulo = 15],
     [AdasBundle EXCEPT !.can.controlSpeed.maximum = 400000],
     [AdasBundle EXCEPT !.contract.limits.futureSkew = 101],
     [AdasBundle EXCEPT !.contract.gateway.rate = 9],
     [AdasBundle EXCEPT !.contract.gateway.vehicleTimeout = 20],
     [AdasBundle EXCEPT !.contract.endpoints = <<Head(@), Head(@)>>],
     [AdasBundle EXCEPT !.contract.endpoints[1].exact = FALSE],
     [AdasBundle EXCEPT !.contract.output.topic = Own("state")],
     [AdasBundle EXCEPT !.policy.sources = Tail(@)],
     [AdasBundle EXCEPT !.policy.sources[2].lease = 39],
     [RobotBundle EXCEPT !.profile.frames[5] = "odom"],
     [RobotBundle EXCEPT !.profile.goalFrame = "odom"],
     [RobotBundle EXCEPT !.profile.health.statePeriod = 150],
     [RobotBundle EXCEPT !.profile.adapter.odometry = "/ddc/cmd"],
     [RobotBundle EXCEPT !.profile.adapter.watchdog = 20]}

ASSUME \A b \in Defects : ~Loads(b)

\* Nobody reads the robot adapter's file while the bundle is loaded.
ASSUME Loads([RobotBundle EXCEPT !.files.adapter.yaml = FALSE])

\* Whatever the adapter can encode of the contract's commands, the
\* simulator reads as what was meant, but for half a step of its scale.
ASSUME
    \A speed \in {-1000, -996, -995, -5, -4, 0, 4, 5, 14, 995, 1000},
       yaw \in {-1500, -1, 0, 1, 1500}, mode \in {"hold", "active"} :
        LET c == [speed |-> speed, yaw |-> yaw, mode |-> mode]
        IN  \A f \in EncodeControl(Can, c) :
              \E d \in DecodeControl(Can, f) :
                 /\ d.mode = c.mode /\ d.yaw = c.yaw
                 /\ 2 * (d.speed - c.speed) \in -10 .. 10
=============================================================================
