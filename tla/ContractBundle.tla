--------------------------- MODULE ContractBundle ---------------------------
(***************************************************************************)
(* What load_contract_bundle accepts: a profile, the contract, the source  *)
(* policy and, for ADAS, the CAN signal map that it names, each valid by   *)
(* itself and all of them together.  A bundle is a record of these files   *)
(* as they are on disk, and of how each of them is found.  Lists are       *)
(* sequences, maps are functions, times are in ms, rates in Hz.            *)
(***************************************************************************)
EXTENDS QosProfiles, CanSignals

CONSTANT Names   \* the names that match the pattern of their kind

Named(values) == values \subseteq Names

Gateway == "/control_link/gateway"
VehicleAdapter == "/control_link/vehicle_adapter"
LiveNamespace == "/control_link"
StateTopics == {"gateway_state", "source_status", "vehicle_state",
                "diagnostics"}

Entries(list) == {list[i] : i \in DOMAIN list}

Unique(list) == \A i, j \in DOMAIN list : list[i] = list[j] => i = j

-----------------------------------------------------------------------------
(***************************************************************************)
(* The files: the profile names the others, by paths relative to its own,  *)
(* and none may leave the config root, be it by a symbolic link.           *)
(***************************************************************************)
Located(file) == file.regular /\ file.inside

Resolves(file) == file.path # "" /\ file.relative /\ Located(file)

\* One YAML map that has every field and no other, each of its type and
\* none of them twice.
WellFormed(file) ==
    /\ file.yaml /\ file.missing = {} /\ file.unknown = {}
    /\ file.mistyped = {} /\ file.twice = {}

\* The FastDDS profile is only hashed, the robot adapter's file only found.
Readable(b) ==
    /\ Located(b.files.profile)
    /\ \A f \in DOMAIN b.files \ {"profile"} : Resolves(b.files[f])
    /\ \A f \in DOMAIN b.files \ {"fastdds", "adapter"} :
          WellFormed(b.files[f])

-----------------------------------------------------------------------------
(***************************************************************************)
(* The gateway contract.                                                   *)
(***************************************************************************)
GatewayValid(g) ==
    /\ g.node = Gateway
    /\ g.rate > 0 /\ g.commandTimeout > 0 /\ g.samples \in 1 .. 65535
    /\ g.hold >= 0
    /\ g.graphPoll > 0 /\ g.stableWindow > 0 /\ g.clockStall > 0
    /\ g.vehicleTimeout > 0 /\ g.lateTicks >= 1
    \* not shorter than an output period
    /\ g.commandTimeout * g.rate >= 1000
    /\ g.lateThreshold * g.rate >= 1000

LimitsValid(l) ==
    /\ l.linear > 0 /\ l.angular > 0 /\ l.futureSkew >= 0
    /\ l.rejectNonFinite /\ l.rejectZeroStamp

InterfaceValid(c) ==
    /\ DOMAIN c.qos # {} /\ \A n \in DOMAIN c.qos : QosValid(c.qos[n])
    /\ DOMAIN c.states = StateTopics
    /\ Named({c.input.prefix, c.input.type, c.output.topic, c.output.type})
    /\ \A s \in StateTopics : Named({c.states[s].topic, c.states[s].type})

EndpointValid(e) ==
    /\ Named({e.topic, e.type, e.node})
    /\ e.direction \in {"publisher", "subscription"}
    /\ e.min >= 1 /\ \A max \in e.max : max >= e.min

\* validate_v1_critical_role.
Role(id, interface, direction, additional) ==
    [id |-> id, topic |-> interface.topic, type |-> interface.type,
     direction |-> direction, node |-> VehicleAdapter,
     min |-> 1, max |-> {1}, additional |-> additional,
     required |-> TRUE, exact |-> TRUE]

\* One consumer, which others may listen beside, and one producer.
CanonicalConsumer(c) ==
    Role("canonical_output_consumer", c.output, "subscription", TRUE)

VehicleStateProducer(c) ==
    Role("vehicle_state_producer", c.states["vehicle_state"], "publisher",
         FALSE)

EndpointsValid(c) ==
    /\ Len(c.endpoints) = 2
    /\ Entries(c.endpoints) = {CanonicalConsumer(c), VehicleStateProducer(c)}

\* validate_cross_fields: every QoS profile that is named, and that each
\* endpoint is one of the public interface.
ContractFits(c) ==
    /\ c.limits.futureSkew <= c.gateway.commandTimeout
    /\ {c.input.qos, c.output.qos} \subseteq DOMAIN c.qos
    /\ \A s \in StateTopics : c.states[s].qos \subseteq DOMAIN c.qos
    /\ \A e \in Entries(c.endpoints) :
          <<e.topic, e.type>> \in
            {<<c.output.topic, c.output.type>>} \cup
            {<<c.states[s].topic, c.states[s].type>> : s \in StateTopics}
    /\ EndpointsValid(c)

ContractValid(c) ==
    /\ c.schema = 1 /\ c.id # "" /\ c.version > 0
    /\ GatewayValid(c.gateway) /\ LimitsValid(c.limits) /\ InterfaceValid(c)
    /\ \A e \in Entries(c.endpoints) : EndpointValid(e)
    /\ ContractFits(c)

(***************************************************************************)
(* The source policy.                                                      *)
(***************************************************************************)
SourceValid(s) ==
    /\ Named({s.id, s.topic, s.type})
    /\ s.priority \in 0 .. 255 /\ s.lease \in 1 .. 2000

PolicyValid(p) ==
    /\ p.schema = 1 /\ p.id # ""
    /\ p.sources # <<>>
    /\ \A s \in Entries(p.sources) : SourceValid(s)
    /\ Unique([i \in DOMAIN p.sources |-> p.sources[i].id])
    /\ Unique([i \in DOMAIN p.sources |-> p.sources[i].topic])

-----------------------------------------------------------------------------
(***************************************************************************)
(* The profile: what both platforms have, then what each has of its own.   *)
(***************************************************************************)
\* No topic is fed back within the ingress, and none is used twice.
IngressValid(ingress) ==
    LET inputs == {ingress[s].input : s \in DOMAIN ingress}
        outputs == {ingress[s].output : s \in DOMAIN ingress}
    IN  /\ DOMAIN ingress # {}
        /\ Named(DOMAIN ingress \cup inputs \cup outputs)
        /\ Named({ingress[s].type : s \in DOMAIN ingress})
        /\ inputs \cap outputs = {}
        /\ \A s, t \in DOMAIN ingress :
              \/ s = t
              \/ /\ ingress[s].input # ingress[t].input
                 /\ ingress[s].output # ingress[t].output

SourcesValid(p) ==
    p.sources # <<>> /\ Named(Entries(p.sources)) /\ Unique(p.sources)

RecordTopicsValid(p) ==
    Named(Entries(p.recordTopics)) /\ Unique(p.recordTopics)

CommonValid(p) ==
    /\ p.schema = 1 /\ p.clock \in {"sim", "system"}
    /\ SourcesValid(p) /\ RecordTopicsValid(p) /\ IngressValid(p.ingress)

CommonFits(p) ==
    /\ p.useSimTime = (p.clock = "sim")
    /\ Entries(p.sources) = DOMAIN p.ingress

-----------------------------------------------------------------------------
RobotAdapterValid(a) ==
    /\ a.type = "ros2_control" /\ a.watchdog > 0
    /\ Named({a.input, a.controllerManager, a.controller, a.output,
              a.commandType, a.odometry})

\* map, odom, base_footprint, base_link and laser, in this order.
FramesValid(frames) == Named(Entries(frames)) /\ Unique(frames)

RobotHealthValid(h) ==
    {h.statePeriod, h.tfLookup, h.tfMaxAge, h.controllerState, h.odometry}
      \cap {0} = {}

RobotFits(p) ==
    /\ Unique(<<p.adapter.input, p.adapter.output, p.adapter.odometry>>)
    /\ p.goalFrame = p.frames[1]

RobotValid(p) ==
    /\ p.geometry.wheelSeparation > 0 /\ p.geometry.wheelRadius > 0
    /\ RobotAdapterValid(p.adapter) /\ Named(p.resources)
    /\ FramesValid(p.frames) /\ RobotHealthValid(p.health)
    /\ RobotFits(p)

AdasAdapterValid(a) ==
    /\ a.type = "socketcan" /\ Named({a.input, a.output, a.interface})
    /\ {a.pollTimeout, a.txPeriod, a.statePeriod, a.watchdog, a.canTimeout,
        a.recoveryFrames} \cap {0} = {}

SimulatorValid(s) ==
    {s.statePeriod, s.watchdog, s.timeConstant} \cap {0} = {}

\* Everybody is faster than the timeout that waits for him.
AdasFits(p) ==
    LET a == p.adapter  s == p.simulator IN
    /\ a.pollTimeout <= a.txPeriod
    /\ a.txPeriod < a.watchdog /\ a.txPeriod < s.watchdog
    /\ s.statePeriod < a.canTimeout /\ a.statePeriod < a.canTimeout

AdasValid(p) ==
    /\ AdasAdapterValid(p.adapter) /\ SimulatorValid(p.simulator)
    /\ Named({p.replayNamespace})
    /\ AdasFits(p)

ProfileValid(p) ==
    /\ p.kind \in {"robot", "adas"}
    /\ CommonValid(p) /\ CommonFits(p)
    /\ p.kind = "robot" => RobotValid(p)
    /\ p.kind = "adas" => AdasValid(p)

-----------------------------------------------------------------------------
(***************************************************************************)
(* The files together (load_contract_bundle).                              *)
(***************************************************************************)
SourceOf(policy, id) == CHOOSE s \in Entries(policy.sources) : s.id = id

\* Each source has a topic of its own below the contract's prefix.
Below(prefix, id) == prefix \o "/" \o id

SourcesFit(b) ==
    \A id \in Entries(b.profile.sources) :
        /\ \E s \in Entries(b.policy.sources) : s.id = id
        /\ LET s == SourceOf(b.policy, id) IN
              /\ s.lease * b.contract.gateway.rate >= 2000
              /\ s.topic = Below(b.contract.input.prefix, id)
              /\ b.profile.ingress[id].output = s.topic
              /\ s.type = b.contract.input.type

\* The period of VehicleState is the adapter's in ADAS, a matter of health
\* in the robot's profile.
StatePeriod(p) ==
    IF p.kind = "adas" THEN p.adapter.statePeriod ELSE p.health.statePeriod

ProfileFits(b) ==
    LET a == b.profile.adapter  g == b.contract.gateway IN
    /\ a.input = b.contract.output.topic
    /\ a.watchdog * g.rate > 1000
    /\ StatePeriod(b.profile) < g.vehicleTimeout
    /\ b.profile.kind = "adas" =>
         /\ b.profile.replayNamespace # LiveNamespace
         /\ a.output = b.contract.states["vehicle_state"].topic

Loads(b) ==
    /\ Readable(b)
    /\ ProfileValid(b.profile) /\ ContractValid(b.contract)
    /\ PolicyValid(b.policy)
    /\ b.profile.kind = "adas" => SignalMapValid(b.can)
    /\ SourcesFit(b) /\ ProfileFits(b)
=============================================================================
