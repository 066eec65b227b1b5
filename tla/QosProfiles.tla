----------------------------- MODULE QosProfiles -----------------------------
(***************************************************************************)
(* QoS as the contract states it, as an endpoint is made with it, as the   *)
(* graph shows it, as DDS matches it and as the gateway assesses it.  An   *)
(* optional policy is a set of at most one value.                          *)
(***************************************************************************)
EXTENDS Integers

CONSTANT MaxDurationMs   \* the milliseconds that fit signed nanoseconds

ASSUME QosAssumption == MaxDurationMs \in Nat \ {0}

Reliabilities == {"best_effort", "reliable"}
Durabilities == {"volatile", "transient_local"}
Histories == {"keep_last", "keep_all"}
Livelinesses == {"automatic", "manual_by_topic"}

\* rclcpp's default duration, and what DDS makes of it: never, longer than
\* every duration that a contract may state.
Unset == 0
Infinite == MaxDurationMs + 1

\* parse_qos_profile and validate_qos_duration_range.
QosValid(q) ==
    /\ q.reliability \in Reliabilities /\ q.durability \in Durabilities
    /\ q.history \in Histories /\ q.liveliness \subseteq Livelinesses
    /\ q.history = "keep_last" => q.depth >= 1
    /\ q.deadline \cup q.lifespan \cup q.lease \subseteq 1 .. MaxDurationMs
    /\ (q.liveliness = {}) <=> (q.lease = {})

Given(option, default) ==
    IF option = {} THEN default ELSE CHOOSE v \in option : TRUE

\* QosFactory::make: what is not stated keeps rclcpp's default.  (History and
\* depth are not matched.)
MakeQos(q) ==
    [reliability |-> q.reliability, durability |-> q.durability,
     deadline |-> Given(q.deadline, Unset),
     lifespan |-> Given(q.lifespan, Unset),
     liveliness |-> Given(q.liveliness, "system_default"),
     lease |-> Given(q.lease, Unset)]

\* What the graph shows of an endpoint: the defaults have become values.
Lasting(duration) == IF duration = Unset THEN Infinite ELSE duration

Discovered(qos) ==
    [reliability |-> qos.reliability, durability |-> qos.durability,
     deadline |-> Lasting(qos.deadline), lifespan |-> Lasting(qos.lifespan),
     liveliness |-> IF qos.liveliness = "system_default" THEN "automatic"
                    ELSE qos.liveliness,
     lease |-> Lasting(qos.lease)]

\* qos_check_compatible returns Ok: what is offered is at least what is
\* requested.  A default is neither a value nor the lack of one: it offers no
\* duration, and requested as liveliness it is warned of.  Between endpoints
\* as they are discovered this is how DDS matches them.
NotLonger(offered, requested) ==
    requested # Unset => offered # Unset /\ offered <= requested

DdsCompatible(offered, requested) ==
    /\ requested.reliability = "reliable" => offered.reliability = "reliable"
    /\ requested.durability = "transient_local" =>
          offered.durability = "transient_local"
    /\ requested.liveliness # "automatic" =>
          offered.liveliness = "manual_by_topic"
    /\ NotLonger(offered.deadline, requested.deadline)
    /\ NotLonger(offered.lease, requested.lease)

\* assess_endpoint_qos: only what the contract states is compared.
ObservedMatch(actual, expected) ==
    /\ actual.reliability = expected.reliability
    /\ actual.durability = expected.durability
    /\ \A d \in expected.deadline : actual.deadline = d
    /\ \A d \in expected.lifespan : actual.lifespan = d
    /\ \A l \in expected.liveliness : actual.liveliness = l
    /\ \A d \in expected.lease : actual.lease = d

(***************************************************************************)
(* CriticalEndpointQosAssessment::healthy of the one endpoint of a role,   *)
(* and SourceEndpointAssessment, where a match is always required: what    *)
(* the graph shows against the node's own QoS as it was made.              *)
(***************************************************************************)
\* Mutant of QosHealthy: what the contract states is all that is compared.
QosHealthyStated(direction, local, actual, expected, exact) ==
    exact => ObservedMatch(actual, expected)

QosHealthy(direction, local, actual, expected, exact) ==
    /\ direction = "publisher" => DdsCompatible(actual, local)
    /\ direction = "subscription" => DdsCompatible(local, actual)
    /\ exact => ObservedMatch(actual, expected)
=============================================================================
