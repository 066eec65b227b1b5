------------------------- MODULE ConfigChain_proofs -------------------------
(***************************************************************************)
(* For any bundles and paths: whatever the files become, and wherever the  *)
(* reconfigurations and rollbacks fail or end, an active gateway works     *)
(* with a configuration that was compared, set up like the other processes *)
(* and in reach of the adapter.  The proofs rest on what the hashes cover; *)
(* nothing is assumed of the bundles but that they load.                   *)
(***************************************************************************)
EXTENDS ConfigChain, TLAPS

LEMMA NoneNotLoadable == Loadable \subseteq Documents /\ None \notin Loadable
BY ConfigChainAssumption DEF Loadable

(***************************************************************************)
(* What the parts of the decision hash and the FastDDS hash say of what    *)
(* the other processes take from a bundle.                                 *)
(***************************************************************************)
LEMMA SameBehaviorSameOwned ==
    ASSUME NEW b, NEW c, Loads(b), Loads(c),
           ProfileBehavior(b.profile) = ProfileBehavior(c.profile),
           SignalMapBehavior(b) = SignalMapBehavior(c),
           FastDdsHash(b) = FastDdsHash(c)
    PROVE  Owned(b) = Owned(c)
<1> DEFINE p == b.profile
<1> DEFINE q == c.profile
<1>1. p.kind \in {"robot", "adas"} /\ q.kind \in {"robot", "adas"}
    BY DEF Loads, ProfileValid
<1>2. p.kind = q.kind
    BY <1>1 DEF ProfileBehavior
<1>3. p.adapter = q.adapter /\ CommonBehavior(p) = CommonBehavior(q)
    BY <1>1, <1>2 DEF ProfileBehavior
<1>4. p.ingress = q.ingress /\ p.useSimTime = q.useSimTime
    BY <1>3 DEF CommonBehavior
<1>5. StatePeriod(p) = StatePeriod(q)
  <2>1. CASE p.kind = "adas"
      BY <2>1, <1>2, <1>3 DEF StatePeriod
  <2>2. CASE p.kind = "robot"
    <3>1. p.health = q.health
        BY <2>2, <1>2 DEF ProfileBehavior
    <3>2. QED  BY <2>2, <3>1, <1>2 DEF StatePeriod
  <2>3. QED  BY <1>1, <2>1, <2>2
<1>6. QED  BY <1>2, <1>3, <1>4, <1>5 DEF Owned

\* Bundles with equal hashes set the other processes up alike.
LEMMA AlikeOwned ==
    ASSUME NEW c \in Loadable, NEW d \in Loadable, Alike(c, d)
    PROVE  Owned(Content[c]) = Owned(Content[d])
<1>1. Loads(Content[c]) /\ Loads(Content[d])
    BY DEF Loadable
<1>2. /\ DecisionHash(Content[c]) = DecisionHash(Content[d])
      /\ FastDdsHash(Content[c]) = FastDdsHash(Content[d])
    BY DEF Alike, HashOf, FastDdsOf
<1>3. /\ ProfileBehavior(Content[c].profile)
           = ProfileBehavior(Content[d].profile)
      /\ SignalMapBehavior(Content[c]) = SignalMapBehavior(Content[d])
    BY <1>2 DEF DecisionHash
<1>4. QED  BY <1>1, <1>2, <1>3, SameBehaviorSameOwned

\* A change that only rebuilds the gateway leaves the others as they are.
LEMMA RebuildOwned ==
    ASSUME NEW c \in Loadable, NEW d \in Loadable,
           ClassOf[<<c, d>>] = "ENDPOINT_REBUILD_REQUIRED"
    PROVE  Owned(Content[c]) = Owned(Content[d])
<1>1. Loads(Content[c]) /\ Loads(Content[d])
    BY DEF Loadable
<1>2. ChangeClass(Content[c], Content[d]) = "ENDPOINT_REBUILD_REQUIRED"
    BY DEF ClassOf
<1>3. ~RestartRequired(Content[c], Content[d])
    BY <1>2 DEF ChangeClass
<1>4. QED  BY <1>1, <1>3, SameBehaviorSameOwned DEF RestartRequired

LEMMA AlikeItself == \A d : Alike(d, d)
BY DEF Alike

-----------------------------------------------------------------------------
(***************************************************************************)
(* What is made from a profile and what the graph shows of it.  (An        *)
(* optional QoS policy is a set of at most one value.)                     *)
(***************************************************************************)
Option(values) == \A v, w \in values : v = w

Optional(q) ==
    /\ Option(q.deadline) /\ Option(q.lifespan)
    /\ Option(q.liveliness) /\ Option(q.lease)

LEMMA GivenOption ==
    ASSUME NEW values, NEW default, Option(values), NEW v \in values
    PROVE  Given(values, default) = v
<1>1. (CHOOSE w \in values : TRUE) \in values
    OBVIOUS
<1>2. QED  BY <1>1 DEF Given, Option

\* A duration that is not stated keeps the default, one that is does not.
LEMMA GivenDuration ==
    ASSUME NEW values, values \subseteq 1 .. MaxDurationMs
    PROVE  IF values = {} THEN Given(values, Unset) = Unset
           ELSE /\ Given(values, Unset) \in Nat
                /\ Given(values, Unset) # Unset
                /\ Given(values, Unset) < Infinite
<1>1. CASE values = {}
    BY <1>1 DEF Given
<1>2. CASE values # {}
  <2>1. Given(values, Unset) \in values
      BY <1>2 DEF Given
  <2>2. \A v \in values : v \in Nat /\ v # 0 /\ v < MaxDurationMs + 1
      BY QosAssumption
  <2>3. QED  BY <1>2, <2>1, <2>2 DEF Unset, Infinite
<1>3. QED  BY <1>1, <1>2

\* The durations of an endpoint as it is made.
LEMMA MadeDurations ==
    ASSUME NEW q, QosValid(q)
    PROVE  /\ \A d \in {MakeQos(q).deadline, MakeQos(q).lease} :
                 d \in Nat /\ d < Infinite
           /\ MakeQos(q).deadline = Unset <=> q.deadline = {}
           /\ MakeQos(q).lease = Unset <=> q.liveliness = {}
<1>1. /\ q.deadline \subseteq 1 .. MaxDurationMs
      /\ q.lease \subseteq 1 .. MaxDurationMs
      /\ (q.liveliness = {}) <=> (q.lease = {})
    BY DEF QosValid
<1>2. Unset \in Nat /\ Unset < Infinite
    BY QosAssumption DEF Unset, Infinite
<1>3. /\ MakeQos(q).deadline = Given(q.deadline, Unset)
      /\ MakeQos(q).lease = Given(q.lease, Unset)
    BY DEF MakeQos
<1>4. QED  BY <1>1, <1>2, <1>3, GivenDuration

\* The liveliness of an endpoint as it is made.
LEMMA MadeLiveliness ==
    ASSUME NEW q, QosValid(q)
    PROVE  IF q.liveliness = {} THEN MakeQos(q).liveliness = "system_default"
           ELSE MakeQos(q).liveliness \in Livelinesses
<1>1. MakeQos(q).liveliness = Given(q.liveliness, "system_default")
    BY DEF MakeQos
<1>2. CASE q.liveliness = {}
    BY <1>1, <1>2 DEF Given
<1>3. CASE q.liveliness # {}
  <2>1. Given(q.liveliness, "system_default") \in q.liveliness
      BY <1>3 DEF Given
  <2>2. QED  BY <1>1, <1>3, <2>1 DEF QosValid
<1>4. QED  BY <1>2, <1>3

\* What the graph shows of durations.
LEMMA LastingDuration ==
    ASSUME NEW d \in Nat, d < Infinite
    PROVE  /\ Lasting(d) \in Nat /\ Lasting(d) # Unset
           /\ Lasting(d) <= Infinite
           /\ d # Unset => Lasting(d) = d
           /\ d = Unset => Lasting(d) = Infinite
BY QosAssumption DEF Lasting, Unset, Infinite

LEMMA DiscoveredFields ==
    ASSUME NEW m
    PROVE  /\ Discovered(m).reliability = m.reliability
           /\ Discovered(m).durability = m.durability
           /\ Discovered(m).deadline = Lasting(m.deadline)
           /\ Discovered(m).lifespan = Lasting(m.lifespan)
           /\ Discovered(m).lease = Lasting(m.lease)
           /\ m.liveliness = "system_default" =>
                 Discovered(m).liveliness = "automatic"
           /\ m.liveliness # "system_default" =>
                 Discovered(m).liveliness = m.liveliness
BY DEF Discovered

\* The graph shows what the profile states.
LEMMA MadeMatches ==
    ASSUME NEW q, QosValid(q), Optional(q)
    PROVE  ObservedMatch(Discovered(MakeQos(q)), q)
<1> DEFINE m == MakeQos(q)
<1>1. ASSUME NEW values, values \subseteq 1 .. MaxDurationMs,
             Option(values), NEW d \in values
      PROVE  Lasting(Given(values, Unset)) = d
  <2>1. Given(values, Unset) = d
      BY <1>1, GivenOption
  <2>2. d \in Nat /\ d # 0
      BY <1>1, QosAssumption
  <2>3. QED  BY <2>1, <2>2 DEF Lasting, Unset
<1>2. /\ \A d \in q.deadline : Lasting(m.deadline) = d
      /\ \A d \in q.lifespan : Lasting(m.lifespan) = d
      /\ \A d \in q.lease : Lasting(m.lease) = d
    BY <1>1 DEF QosValid, Optional, MakeQos
<1>3. \A l \in q.liveliness : m.liveliness = l /\ l # "system_default"
  <2>1. \A l \in q.liveliness : Given(q.liveliness, "system_default") = l
      BY GivenOption DEF Optional
  <2>2. QED  BY <2>1 DEF MakeQos, QosValid, Livelinesses
<1>4. m.reliability = q.reliability /\ m.durability = q.durability
    BY DEF MakeQos
<1> HIDE DEF m
<1>5. ObservedMatch(Discovered(m), q)
    BY <1>2, <1>3, <1>4, DiscoveredFields DEF ObservedMatch
<1>6. QED  BY <1>5 DEF m

\* To an endpoint of the same profile, what is offered is never longer if it
\* is stated, and what is requested always is.
LEMMA NotLongerItself ==
    ASSUME NEW d \in Nat, d < Infinite
    PROVE  /\ NotLonger(d, Lasting(d)) <=> d # Unset
           /\ NotLonger(Lasting(d), d)
BY LastingDuration DEF NotLonger

(***************************************************************************)
(* An endpoint is healthy against the same profile if and only if the      *)
(* profile states what rclcpp would leave at its default: a publisher's    *)
(* deadline and liveliness, a subscription's liveliness.                   *)
(***************************************************************************)
LEMMA PublisherHealthy ==
    ASSUME NEW q, QosValid(q), Optional(q)
    PROVE  QosHealthy("subscription", MakeQos(q), Discovered(MakeQos(q)), q,
                      TRUE)
             <=> q.deadline # {} /\ q.liveliness # {}
<1> DEFINE m == MakeQos(q)
<1>1. /\ m.deadline \in Nat /\ m.deadline < Infinite
      /\ m.lease \in Nat /\ m.lease < Infinite
      /\ m.deadline = Unset <=> q.deadline = {}
      /\ m.lease = Unset <=> q.liveliness = {}
    BY MadeDurations
<1>2. /\ q.liveliness = {} => m.liveliness = "system_default"
      /\ q.liveliness # {} => m.liveliness \in Livelinesses
    BY MadeLiveliness
<1>3. ObservedMatch(Discovered(m), q)
    BY MadeMatches
<1> HIDE DEF m
<1>4. /\ NotLonger(m.deadline, Discovered(m).deadline) <=> q.deadline # {}
      /\ NotLonger(m.lease, Discovered(m).lease) <=> q.liveliness # {}
    BY <1>1, NotLongerItself, DiscoveredFields
<1>5. /\ Discovered(m).reliability = m.reliability
      /\ Discovered(m).durability = m.durability
      /\ q.liveliness # {} /\ Discovered(m).liveliness # "automatic" =>
            m.liveliness = "manual_by_topic"
    BY <1>2, DiscoveredFields DEF Livelinesses
<1>6. DdsCompatible(m, Discovered(m))
        <=> q.deadline # {} /\ q.liveliness # {}
    BY <1>4, <1>5 DEF DdsCompatible
<1>7. QosHealthy("subscription", m, Discovered(m), q, TRUE)
        <=> DdsCompatible(m, Discovered(m))
    BY <1>3 DEF QosHealthy
<1>8. QED  BY <1>6, <1>7 DEF m

LEMMA SubscriptionHealthy ==
    ASSUME NEW q, QosValid(q), Optional(q)
    PROVE  QosHealthy("publisher", MakeQos(q), Discovered(MakeQos(q)), q,
                      TRUE)
             <=> q.liveliness # {}
<1> DEFINE m == MakeQos(q)
<1>1. /\ m.deadline \in Nat /\ m.deadline < Infinite
      /\ m.lease \in Nat /\ m.lease < Infinite
    BY MadeDurations
<1>2. /\ q.liveliness = {} => m.liveliness = "system_default"
      /\ q.liveliness # {} => m.liveliness \in Livelinesses
    BY MadeLiveliness
<1>3. ObservedMatch(Discovered(m), q)
    BY MadeMatches
<1> HIDE DEF m
<1>4. /\ NotLonger(Discovered(m).deadline, m.deadline)
      /\ NotLonger(Discovered(m).lease, m.lease)
    BY <1>1, NotLongerItself, DiscoveredFields
<1>5. /\ Discovered(m).reliability = m.reliability
      /\ Discovered(m).durability = m.durability
      /\ (m.liveliness # "automatic" =>
            Discovered(m).liveliness = "manual_by_topic")
           <=> q.liveliness # {}
    BY <1>2, DiscoveredFields DEF Livelinesses
<1>6. DdsCompatible(Discovered(m), m) <=> q.liveliness # {}
    BY <1>4, <1>5 DEF DdsCompatible
<1>7. QosHealthy("publisher", m, Discovered(m), q, TRUE)
        <=> DdsCompatible(Discovered(m), m)
    BY <1>3 DEF QosHealthy
<1>8. QED  BY <1>6, <1>7 DEF m

\* The QoS profiles that the endpoints of a bundle that loads are made with.
LEMMA LoadedQosValid ==
    ASSUME NEW b, Loads(b), b.contract.states["vehicle_state"].qos # {}
    PROVE  /\ QosValid(OutputQos(b)) /\ QosValid(InputQos(b))
           /\ QosValid(VehicleQos(b))
           /\ (\A n \in DOMAIN b.contract.qos : Optional(b.contract.qos[n]))
                => /\ Optional(OutputQos(b)) /\ Optional(InputQos(b))
                   /\ Optional(VehicleQos(b))
<1> DEFINE c == b.contract
<1>1. ContractValid(c)
    BY DEF Loads
<1>2. \A n \in DOMAIN c.qos : QosValid(c.qos[n])
    BY <1>1 DEF ContractValid, InterfaceValid
<1>3. /\ c.input.qos \in DOMAIN c.qos /\ c.output.qos \in DOMAIN c.qos
      /\ c.states["vehicle_state"].qos \subseteq DOMAIN c.qos
    BY <1>1 DEF ContractValid, ContractFits, StateTopics
<1>4. (CHOOSE n \in c.states["vehicle_state"].qos : TRUE) \in DOMAIN c.qos
    BY <1>3
<1>5. QED  BY <1>2, <1>3, <1>4 DEF OutputQos, VehicleQos, InputQos

(***************************************************************************)
(* Which bundles that load can also work: with adapter and ingress that    *)
(* loaded the same bundle, of the message types that the programs are      *)
(* compiled for, the gateway's gate is open if and only if the contract    *)
(* states deadline and liveliness of its output and liveliness of the      *)
(* vehicle state; a source is usable if and only if it states that of the  *)
(* input.  Validation asks for none of them.                               *)
(***************************************************************************)
THEOREM LoadedFitsItself ==
    ASSUME NEW b, Loads(b), AdapterStarts(b),
           b.contract.output.type = CanonicalType,
           b.contract.input.type = CanonicalType,
           b.contract.states["vehicle_state"].type = VehicleStateType,
           \A n \in DOMAIN b.contract.qos : Optional(b.contract.qos[n])
    PROVE  /\ Healthy(b, b) <=> /\ OutputQos(b).deadline # {}
                                /\ OutputQos(b).liveliness # {}
                                /\ VehicleQos(b).liveliness # {}
           /\ \A id \in Entries(b.profile.sources) :
                 SourceUsable(b, b, id) <=> InputQos(b).liveliness # {}
<1> DEFINE c == b.contract
<1>1. /\ ProfileValid(b.profile) /\ ContractValid(c) /\ SourcesFit(b)
      /\ ProfileFits(b)
    BY DEF Loads
<1>5. /\ QosValid(OutputQos(b)) /\ Optional(OutputQos(b))
      /\ QosValid(VehicleQos(b)) /\ Optional(VehicleQos(b))
      /\ QosValid(InputQos(b)) /\ Optional(InputQos(b))
    BY LoadedQosValid DEF AdapterStarts
<1>6. EndpointsCompatible(b, b) <=> /\ OutputQos(b).deadline # {}
                                    /\ OutputQos(b).liveliness # {}
                                    /\ VehicleQos(b).liveliness # {}
    BY <1>5, PublisherHealthy, SubscriptionHealthy DEF EndpointsCompatible
<1>7. b.profile.kind \in {"robot", "adas"}
    BY <1>1 DEF ProfileValid
<1>8. VehicleTopic(b) = c.states["vehicle_state"].topic
    BY <1>1, <1>7 DEF ProfileFits, VehicleTopic
<1>9. EndpointsIdentified(b, b)
    BY <1>1, <1>8 DEF ProfileFits, EndpointsIdentified
<1>10. ASSUME NEW id \in Entries(b.profile.sources)
       PROVE  SourceUsable(b, b, id) <=> InputQos(b).liveliness # {}
  <2>1. id \in DOMAIN b.profile.ingress
      BY <1>1, <1>10 DEF ProfileValid, CommonFits
  <2>2. /\ b.profile.ingress[id].output = SourceOf(b.policy, id).topic
        /\ SourceOf(b.policy, id).type = CanonicalType
      BY <1>1, <1>10 DEF SourcesFit
  <2>3. QosHealthy("publisher", MakeQos(InputQos(b)),
                   Discovered(MakeQos(InputQos(b))), InputQos(b), TRUE)
          <=> InputQos(b).liveliness # {}
      BY <1>5, SubscriptionHealthy
  <2>4. QED  BY <2>1, <2>2, <2>3 DEF SourceUsable
<1>11. QED  BY <1>6, <1>9, <1>10 DEF Healthy

(***************************************************************************)
(* What the gateway accepts as compatible with its own QoS as it was made, *)
(* DDS matches as it is discovered.                                        *)
(***************************************************************************)
LEMMA LastingNotLonger ==
    ASSUME NEW d \in Nat, d < Infinite, NEW e \in Nat, e < Infinite
    PROVE  /\ NotLonger(d, Lasting(e)) => NotLonger(Lasting(d), Lasting(e))
           /\ NotLonger(Lasting(d), e) => NotLonger(Lasting(d), Lasting(e))
<1>1. /\ Lasting(d) \in Nat /\ Lasting(d) # Unset /\ Lasting(d) <= Infinite
      /\ Lasting(e) \in Nat /\ Lasting(e) # Unset
      /\ d # Unset => Lasting(d) = d
      /\ e # Unset => Lasting(e) = e
      /\ e = Unset => Lasting(e) = Infinite
    BY LastingDuration
<1>2. QED  BY <1>1 DEF NotLonger

LEMMA CompatibleDelivers ==
    ASSUME NEW p, NEW q, QosValid(p), QosValid(q),
           \/ DdsCompatible(MakeQos(p), Discovered(MakeQos(q)))
           \/ DdsCompatible(Discovered(MakeQos(p)), MakeQos(q))
    PROVE  Delivers(p, q)
<1> DEFINE m == MakeQos(p)
<1> DEFINE n == MakeQos(q)
<1>1. /\ m.deadline \in Nat /\ m.deadline < Infinite
      /\ m.lease \in Nat /\ m.lease < Infinite
      /\ n.deadline \in Nat /\ n.deadline < Infinite
      /\ n.lease \in Nat /\ n.lease < Infinite
    BY MadeDurations
<1>2. Delivers(p, q) <=> DdsCompatible(Discovered(m), Discovered(n))
    BY DEF Delivers
<1> HIDE DEF m, n
<1>3. /\ Discovered(m).reliability = m.reliability
      /\ Discovered(n).reliability = n.reliability
      /\ Discovered(m).durability = m.durability
      /\ Discovered(n).durability = n.durability
      /\ m.liveliness = "manual_by_topic" =>
            Discovered(m).liveliness = "manual_by_topic"
      /\ n.liveliness = "automatic" => Discovered(n).liveliness = "automatic"
      /\ Discovered(m).deadline = Lasting(m.deadline)
      /\ Discovered(n).deadline = Lasting(n.deadline)
      /\ Discovered(m).lease = Lasting(m.lease)
      /\ Discovered(n).lease = Lasting(n.lease)
    BY DiscoveredFields
<1>4. \/ DdsCompatible(m, Discovered(n))
      \/ DdsCompatible(Discovered(m), n)
    BY DEF m, n
<1>5. /\ NotLonger(Discovered(m).deadline, Discovered(n).deadline)
      /\ NotLonger(Discovered(m).lease, Discovered(n).lease)
    BY <1>1, <1>3, <1>4, LastingNotLonger DEF DdsCompatible
<1>6. DdsCompatible(Discovered(m), Discovered(n))
    BY <1>3, <1>4, <1>5 DEF DdsCompatible
<1>7. QED  BY <1>2, <1>6

-----------------------------------------------------------------------------
(***************************************************************************)
(* Every step keeps the invariant.                                         *)
(***************************************************************************)
LEMMA InitChainInv == Init => ChainInv
<1> SUFFICES ASSUME Init PROVE ChainInv
    OBVIOUS
<1>1. /\ step = "launch" /\ phase = "unconfigured" /\ asked = FALSE
      /\ plan.current = None /\ plan.candidate = None
      /\ step \notin Forward \cup Backward
    BY DEF Init, NoPlan, Forward, Backward
<1>2. TypeOK
    BY <1>1 DEF Init, TypeOK
<1>3. ComesUp /\ Planned /\ Pending /\ ActiveHealthy
    BY <1>1 DEF Init, ComesUp, Planned, Pending, ActiveHealthy, Starting
<1>4. AskedCompared /\ SetUpAlike /\ VehicleStated
    BY <1>1 DEF Init, AskedCompared, SetUpAlike, VehicleStated, Starting
<1>5. QED  BY <1>2, <1>3, <1>4 DEF ChainInv

\* Rewriting a file touches nothing that has been compared.
LEMMA RewriteInv ==
    ASSUME ChainInv, NEW path \in Paths, NEW d \in Documents,
           Rewrite(path, d)
    PROVE  ChainInv'
<1> USE DEF Rewrite, ChainInv, processes, gateway
<1>1. TypeOK'
    BY DEF TypeOK
<1>2. ComesUp'
    BY DEF TypeOK, ComesUp, Starting
<1>3. Planned' /\ Pending' /\ ActiveHealthy' /\ VehicleStated'
    BY DEF Planned, Pending, ActiveHealthy, VehicleStated
<1>4. AskedCompared' /\ SetUpAlike'
    BY DEF AskedCompared, SetUpAlike, Starting, Compared, TypeOK
<1>5. QED  BY <1>1, <1>2, <1>3, <1>4

LEMMA LaunchInv == ChainInv /\ Launch => ChainInv'
<1> SUFFICES ASSUME ChainInv, Launch PROVE ChainInv'
    OBVIOUS
<1> USE DEF Launch, ChainInv, gateway, history
<1>1. TypeOK'
    BY DEF TypeOK
<1>2. ComesUp'
    BY NoneNotLoadable DEF ComesUp, Starting, TypeOK
<1>3. Planned' /\ Pending'
    BY DEF Planned, Pending, ComesUp, Forward, Backward
<1>4. ActiveHealthy' /\ VehicleStated'
    BY DEF ActiveHealthy, VehicleStated, TypeOK, ComesUp, AdapterStarts
<1>5. AskedCompared' /\ SetUpAlike'
    BY DEF AskedCompared, SetUpAlike, Starting
<1>6. QED  BY <1>1, <1>2, <1>3, <1>4, <1>5

\* The endpoints are looked at again when the request is served.
LEMMA OnActivateInv == ChainInv /\ OnActivate => ChainInv'
<1> SUFFICES ASSUME ChainInv, OnActivate PROVE ChainInv'
    OBVIOUS
<1> USE DEF OnActivate, ChainInv, processes, history
<1>1. TypeOK'
    BY DEF TypeOK
<1>2. ComesUp' /\ Planned' /\ Pending'
    BY DEF ComesUp, Planned, Pending, Starting
<1>3. ActiveHealthy' /\ VehicleStated'
    BY DEF ActiveHealthy, VehicleStated, GateOpens
<1>4. AskedCompared' /\ SetUpAlike'
    BY DEF AskedCompared, SetUpAlike, Starting, Compared
<1>5. QED  BY <1>1, <1>2, <1>3, <1>4

-----------------------------------------------------------------------------
\* While the system comes up, the gateway is configured once.
LEMMA BootInv == ChainInv /\ Boot => ChainInv'
<1> SUFFICES ASSUME ChainInv, Boot PROVE ChainInv'
    OBVIOUS
<1> USE DEF ChainInv, processes, gateway, history
<1>0. step = "boot" /\ plan' = plan /\ launched' = launched
    BY DEF Boot, OnConfigure
<1>1. CASE OnConfigure /\ UNCHANGED step
  <2> USE <1>0, <1>1 DEF OnConfigure
  <2>1. TypeOK'
      BY NoneNotLoadable DEF TypeOK
  <2>2. ComesUp' /\ Planned' /\ Pending'
      BY NoneNotLoadable
         DEF ComesUp, Planned, Pending, Starting, TypeOK, Forward, Backward
  <2>3. ActiveHealthy' /\ AskedCompared' /\ SetUpAlike'
      BY DEF ActiveHealthy, AskedCompared, SetUpAlike, Starting
  <2>5. VehicleStated'
      BY DEF VehicleStated, GatewayStarts, StateTopics
  <2>4. QED  BY <2>1, <2>2, <2>3, <2>5
<1>2. CASE /\ phase = "inactive" /\ ~asked /\ asked' = TRUE
           /\ UNCHANGED <<disk, processes, parameter, phase, bundle, step,
                          plan, history>>
  <2> USE <1>0, <1>2
  <2>1. TypeOK'
      BY DEF TypeOK
  <2>2. ComesUp' /\ Planned' /\ Pending'
      BY DEF ComesUp, Planned, Pending, Starting
  <2>3. ActiveHealthy' /\ VehicleStated' /\ AskedCompared' /\ SetUpAlike'
      BY DEF ActiveHealthy, VehicleStated, AskedCompared, SetUpAlike, Starting
  <2>4. QED  BY <2>1, <2>2, <2>3
<1>3. CASE /\ phase = "active" /\ step' = "idle" /\ deployed' = bundle
           /\ UNCHANGED <<disk, processes, parameter, gateway, plan, intact>>
  <2> USE <1>0, <1>3
  <2>1. TypeOK'
      BY DEF TypeOK
  <2>2. bundle # None /\ bundle \in Loadable /\ ~asked /\ plan = NoPlan
      BY DEF TypeOK, ComesUp, Pending, Starting
  <2>3. ComesUp' /\ Planned' /\ Pending' /\ ActiveHealthy' /\ VehicleStated'
      BY <2>2 DEF ComesUp, Planned, Pending, Starting, ActiveHealthy,
                  VehicleStated, Forward, Backward
  <2>4. Compared' = {bundle}
      BY <2>2 DEF Compared, NoPlan
  <2>5. AskedCompared'
      BY <2>2, <2>4, AlikeItself DEF AskedCompared
  <2>6. SetUpAlike'
      BY <2>2, <2>4 DEF SetUpAlike, ComesUp
  <2>7. QED  BY <2>1, <2>3, <2>5, <2>6
<1>4. QED  BY <1>1, <1>2, <1>3 DEF Boot

\* The command compares before it plans; what the gateway works with is what
\* the plan will go back to.
LEMMA PrepareInv ==
    ASSUME ChainInv, NEW path \in Paths, Prepare(path)
    PROVE  ChainInv'
<1> USE DEF ChainInv, processes, gateway, history
<1> DEFINE current == disk[parameter]
<1> DEFINE candidate == disk[path]
<1>1. /\ step = "idle" /\ step' = "deactivate" /\ phase = "active"
      /\ current \in Loadable /\ candidate \in Loadable
      /\ Alike(current, bundle)
      /\ ClassOf[<<current, candidate>>] = "ENDPOINT_REBUILD_REQUIRED"
      /\ UNCHANGED <<disk, processes, parameter, gateway, history>>
    BY DEF Prepare
<1>2. /\ plan'.from = parameter /\ plan'.to = path
      /\ plan'.current = current /\ plan'.candidate = candidate
    BY DEF Prepare
<1> HIDE DEF current, candidate
<1>3. /\ bundle \in Loadable /\ ~asked /\ parameter \in Paths
      /\ ~Starting /\ ~Starting'
    BY <1>1 DEF TypeOK, Pending, Starting
<1>4. current # None /\ candidate # None
    BY <1>1, NoneNotLoadable
<1>5. TypeOK'
    BY <1>1, <1>2 DEF TypeOK, Forward
<1>6. ComesUp' /\ Planned' /\ Pending' /\ ActiveHealthy' /\ VehicleStated'
    BY <1>1, <1>2, <1>3, <1>4
       DEF ComesUp, Planned, Pending, Starting, ActiveHealthy, VehicleStated
<1>7. Compared' = {deployed, current, candidate} \ {None}
    BY <1>1, <1>2 DEF Compared
<1>8. AskedCompared'
  <2>1. Alike(bundle, current)
      BY <1>1 DEF Alike
  <2>2. QED  BY <1>1, <1>4, <1>7, <2>1 DEF AskedCompared
<1>9. SetUpAlike'
  <2> SUFFICES ASSUME intact, NEW d \in {deployed, current, candidate},
                      d # None
               PROVE  Owned(Content[d]) = Owned(Content[launched])
      BY <1>1, <1>7 DEF SetUpAlike
  <2>1. Owned(Content[bundle]) = Owned(Content[launched])
    <3>1. PICK e \in Compared : Alike(bundle, e)
        BY <1>1, <1>3 DEF AskedCompared
    <3>2. e \in Loadable
        BY DEF Compared, TypeOK
    <3>3. Owned(Content[bundle]) = Owned(Content[e])
        BY <1>3, <3>1, <3>2, AlikeOwned
    <3>4. QED  BY <1>3, <3>3 DEF SetUpAlike
  <2>2. Owned(Content[current]) = Owned(Content[launched])
      BY <1>1, <1>3, <2>1, AlikeOwned
  <2>3. Owned(Content[candidate]) = Owned(Content[launched])
      BY <1>1, <2>2, RebuildOwned
  <2>4. CASE d = deployed
      BY <1>3, <2>4 DEF SetUpAlike, Compared
  <2>5. QED  BY <2>2, <2>3, <2>4
<1>10. QED  BY <1>5, <1>6, <1>8, <1>9

-----------------------------------------------------------------------------
(***************************************************************************)
(* A transition of the gateway that a command asks for: no request is left *)
(* behind before it, and the gateway is not active after it.               *)
(***************************************************************************)
Unasked == {"deactivate", "cleanup", "set", "configure", "verify", "idle",
            "undo", "restore", "reconfigure", "reverify"}

LEMMA TransitionInv ==
    ASSUME ChainInv, step \in Forward \cup Backward, ~asked,
           step' \in Unasked, TypeOK', VehicleStated', phase' # "active",
           UNCHANGED <<launched, plan, asked, history>>
    PROVE  ChainInv'
<1> USE DEF ChainInv, history
<1>1. /\ step' \notin {"launch", "boot", "ask", "activate", "commit",
                       "reask", "reactivate"}
      /\ step \notin {"launch", "boot"}
    BY DEF Unasked, Forward, Backward
<1>2. Planned'
    BY DEF Planned
<1>3. ComesUp' /\ Pending' /\ ActiveHealthy'
    BY <1>1 DEF ComesUp, Pending, ActiveHealthy, Starting
<1>4. AskedCompared' /\ SetUpAlike'
    BY <1>1 DEF AskedCompared, SetUpAlike, Starting, Compared
<1>5. QED  BY <1>2, <1>3, <1>4

\* A step of the command that leaves the gateway to itself.
LEMMA MoveInv ==
    ASSUME ChainInv, step \in Forward \cup Backward,
           step' \in Forward \cup Backward \cup {"idle"},
           parameter' \in Paths,
           UNCHANGED <<disk, processes, gateway, plan, history>>,
           asked => step' \in {"activate", "undo", "idle", "reactivate"},
           step' \in {"ask", "activate", "commit"} =>
               bundle # None /\ Alike(bundle, plan.candidate),
           step' \in {"reask", "reactivate"} =>
               bundle # None /\ Alike(bundle, plan.current)
    PROVE  ChainInv'
<1> USE DEF ChainInv, processes, gateway, history
<1>1. step \notin {"launch", "boot"} /\ step' \notin {"launch", "boot"}
    BY DEF Forward, Backward
<1>2. TypeOK'
    BY DEF TypeOK
<1>3. Planned'
    BY DEF Planned
<1>4. ComesUp' /\ Pending' /\ ActiveHealthy' /\ VehicleStated'
    BY <1>1 DEF ComesUp, Pending, ActiveHealthy, VehicleStated, Starting
<1>5. AskedCompared' /\ SetUpAlike'
    BY <1>1 DEF AskedCompared, SetUpAlike, Starting, Compared
<1>6. QED  BY <1>2, <1>3, <1>4, <1>5

LEMMA FailsInv == ChainInv /\ Fails => ChainInv'
<1> SUFFICES ASSUME ChainInv, Fails PROVE ChainInv'
    OBVIOUS
<1>1. /\ step \in Forward \cup Backward /\ step' \in {"undo", "idle"}
      /\ UNCHANGED <<disk, processes, parameter, gateway, plan, history>>
    BY DEF Fails
<1>2. parameter' \in Paths
    BY <1>1 DEF ChainInv, TypeOK
<1>3. /\ step' \in Forward \cup Backward \cup {"idle"}
      /\ step' \notin {"ask", "activate", "commit", "reask", "reactivate"}
    BY <1>1 DEF Backward
<1>4. QED  BY <1>1, <1>2, <1>3, MoveInv

\* The gateway's transitions, from a step whose request is not overtaken.
LEMMA GoesInv ==
    ASSUME ChainInv, ~asked, step \in Forward \cup Backward,
           step' \in Unasked,
           OnDeactivate \/ OnCleanup \/ OnConfigure
    PROVE  ChainInv'
<1>1. /\ phase' # "active"
      /\ UNCHANGED <<launched, plan, asked, history>>
    BY DEF ChainInv, TypeOK, OnDeactivate, OnCleanup, OnConfigure, processes
<1>2. step' \in {"launch", "boot", "idle"} \cup Forward \cup Backward
    BY DEF Unasked, Forward, Backward
<1>3. TypeOK'
    BY <1>2, NoneNotLoadable
       DEF ChainInv, TypeOK, OnDeactivate, OnCleanup, OnConfigure, processes,
           history
<1>4. VehicleStated'
    BY DEF ChainInv, VehicleStated, OnDeactivate, OnCleanup, OnConfigure,
           GatewayStarts, StateTopics, processes
<1>5. QED  BY <1>1, <1>3, <1>4, TransitionInv

LEMMA SetParameterInv ==
    ASSUME ChainInv, ~asked, step \in Forward \cup Backward,
           step' \in Unasked, NEW path \in Paths, SetParameter(path)
    PROVE  ChainInv'
<1>1. /\ step' \in Forward \cup Backward \cup {"idle"}
      /\ step' \notin {"ask", "activate", "commit", "reask", "reactivate"}
    BY DEF Unasked, Forward, Backward
<1>2. /\ parameter' \in Paths
      /\ UNCHANGED <<disk, processes, gateway, plan, history>>
    BY DEF SetParameter
<1>3. QED  BY <1>1, <1>2, MoveInv

\* Only what was verified is asked for.
LEMMA AskInv ==
    ASSUME ChainInv, step' \in {"activate", "reactivate"}, step # "boot",
           step \in Forward \cup Backward,
           ~asked, asked' = TRUE, phase = "inactive",
           UNCHANGED <<disk, processes, parameter, phase, bundle, plan,
                       history>>,
           step' = "activate" => step \in {"ask", "activate"},
           step' = "reactivate" => step \in {"reask", "reactivate"}
    PROVE  ChainInv'
<1> USE DEF ChainInv, processes, history
<1>1. step \notin {"launch", "boot"}
    BY DEF Forward, Backward
<1>2. TypeOK'
    BY DEF TypeOK, Forward, Backward
<1>3. Planned'
    BY DEF Planned
<1>4. ComesUp' /\ Pending' /\ ActiveHealthy' /\ VehicleStated'
    BY <1>1 DEF ComesUp, Pending, ActiveHealthy, VehicleStated, Starting
<1>5. plan.candidate \in Compared /\ plan.current \in Compared
    BY DEF Planned, Compared
<1>6. AskedCompared'
    BY <1>1, <1>5 DEF AskedCompared, Starting, Compared
<1>7. SetUpAlike'
    BY <1>1 DEF SetUpAlike, Starting, Compared
<1>8. QED  BY <1>2, <1>3, <1>4, <1>6, <1>7

LEMMA ReconfigureInv == ChainInv /\ Reconfigure => ChainInv'
<1> SUFFICES ASSUME ChainInv, Reconfigure PROVE ChainInv'
    OBVIOUS
<1>1. CASE ~asked /\ Goes("deactivate", "cleanup") /\ OnDeactivate
  <2>1. step \in Forward \cup Backward /\ step' \in Unasked
      BY <1>1 DEF Goes, Forward, Unasked
  <2>2. QED  BY <1>1, <2>1, GoesInv
<1>2. CASE Goes("cleanup", "set") /\ OnCleanup
  <2>1. /\ step \in Forward \cup Backward /\ step' \in Unasked
        /\ ~asked
      BY <1>2 DEF ChainInv, Pending, Goes, Forward, Unasked
  <2>2. QED  BY <1>2, <2>1, GoesInv
<1>3. CASE Goes("set", "configure") /\ SetParameter(plan.to)
  <2>1. /\ step \in Forward \cup Backward /\ step' \in Unasked
        /\ ~asked
      BY <1>3 DEF ChainInv, Pending, Goes, Forward, Unasked
  <2>2. plan.to \in Paths
      BY <2>1 DEF ChainInv, Planned
  <2>3. QED  BY <1>3, <2>1, <2>2, SetParameterInv
<1>4. CASE Goes("configure", "verify") /\ OnConfigure
  <2>1. /\ step \in Forward \cup Backward /\ step' \in Unasked
        /\ ~asked
      BY <1>4 DEF ChainInv, Pending, Goes, Forward, Unasked
  <2>2. QED  BY <1>4, <2>1, GoesInv
<1>5. CASE Verify("verify", "ask", plan.candidate)
  <2>1. /\ step = "verify" /\ step' = "ask" /\ parameter' = parameter
        /\ UNCHANGED <<disk, processes, gateway, plan, history>>
        /\ bundle # None /\ Alike(bundle, plan.candidate)
      BY <1>5 DEF Verify, Verified, ChainInv, TypeOK
  <2>2. ~asked /\ parameter' \in Paths
      BY <2>1 DEF ChainInv, Pending, TypeOK
  <2>3. /\ step \in Forward \cup Backward
        /\ step' \in Forward \cup Backward \cup {"idle"}
        /\ step' \notin {"reask", "reactivate"}
      BY <2>1 DEF Forward
  <2>4. QED  BY <2>1, <2>2, <2>3, MoveInv
<1>6. CASE Ask("ask", "activate")
  <2>1. step \in Forward \cup Backward
      BY <1>6 DEF Ask, Forward
  <2>2. QED  BY <1>6, <2>1, AskInv DEF Ask
<1>7. CASE Activated("activate", "commit")
  <2>1. /\ step = "activate" /\ step' = "commit" /\ parameter' = parameter
        /\ UNCHANGED <<disk, processes, gateway, plan, history>>
        /\ bundle # None /\ Alike(bundle, plan.candidate)
      BY <1>7 DEF Activated, ChainInv, AskedCompared
  <2>2. ~asked /\ parameter' \in Paths
      BY <1>7, <2>1 DEF Activated, ChainInv, Pending, TypeOK
  <2>3. /\ step \in Forward \cup Backward
        /\ step' \in Forward \cup Backward \cup {"idle"}
        /\ step' \notin {"reask", "reactivate"}
      BY <2>1 DEF Forward
  <2>4. QED  BY <2>1, <2>2, <2>3, MoveInv
<1>8. CASE Commit
  <2> USE DEF ChainInv, processes, gateway
  <2>1. /\ step = "commit" /\ step' = "idle" /\ deployed' = plan.candidate
        /\ UNCHANGED <<disk, processes, parameter, gateway, plan, intact>>
        /\ step \in Forward \cup Backward
      BY <1>8 DEF Commit, Forward
  <2>2. /\ plan.candidate # None /\ plan.candidate \in Compared
        /\ Compared' \subseteq Compared /\ plan.candidate \in Compared'
        /\ bundle # None /\ Alike(bundle, plan.candidate)
        /\ ~asked
      BY <2>1 DEF Planned, AskedCompared, Compared, Pending
  <2>3. TypeOK'
      BY <2>1 DEF TypeOK
  <2>4. ComesUp' /\ Planned' /\ Pending' /\ ActiveHealthy' /\ VehicleStated'
      BY <2>1, <2>2
         DEF ComesUp, Planned, Pending, ActiveHealthy, VehicleStated, Starting,
             Forward,
             Backward
  <2>5. AskedCompared'
      BY <2>1, <2>2 DEF AskedCompared
  <2>6. SetUpAlike'
      BY <2>1, <2>2 DEF SetUpAlike, Starting
  <2>7. QED  BY <2>3, <2>4, <2>5, <2>6
<1>9. QED  BY <1>1, <1>2, <1>3, <1>4, <1>5, <1>6, <1>7, <1>8
           DEF Reconfigure

LEMMA RollbackInv == ChainInv /\ Rollback => ChainInv'
<1> SUFFICES ASSUME ChainInv, Rollback PROVE ChainInv'
    OBVIOUS
<1>1. CASE /\ step = "undo" /\ ~asked /\ OnDeactivate /\ UNCHANGED step
  <2>1. step \in Forward \cup Backward /\ step' \in Unasked
      BY <1>1 DEF Backward, Unasked
  <2>2. QED  BY <1>1, <2>1, GoesInv
<1>2. CASE ~asked /\ Goes("undo", "restore") /\ OnCleanup
  <2>1. step \in Forward \cup Backward /\ step' \in Unasked
      BY <1>2 DEF Goes, Forward, Backward, Unasked
  <2>2. QED  BY <1>2, <2>1, GoesInv
<1>3. CASE /\ step = "undo" /\ ~asked /\ phase = "unconfigured"
           /\ step' = "restore"
           /\ UNCHANGED <<disk, processes, parameter, gateway, plan, history>>
  <2>1. /\ parameter' \in Paths /\ step \in Forward \cup Backward
        /\ step' \in Forward \cup Backward \cup {"idle"}
        /\ step' \notin {"ask", "activate", "commit", "reask", "reactivate"}
      BY <1>3 DEF ChainInv, TypeOK, Backward
  <2>2. QED  BY <1>3, <2>1, MoveInv
<1>4. CASE Goes("restore", "reconfigure") /\ SetParameter(plan.from)
  <2>1. /\ step \in Forward \cup Backward /\ step' \in Unasked
        /\ ~asked
      BY <1>4 DEF ChainInv, Pending, Goes, Forward, Backward, Unasked
  <2>2. plan.from \in Paths
      BY <2>1 DEF ChainInv, Planned
  <2>3. QED  BY <1>4, <2>1, <2>2, SetParameterInv
<1>5. CASE Goes("reconfigure", "reverify") /\ OnConfigure
  <2>1. /\ step \in Forward \cup Backward /\ step' \in Unasked
        /\ ~asked
      BY <1>5 DEF ChainInv, Pending, Goes, Forward, Backward, Unasked
  <2>2. QED  BY <1>5, <2>1, GoesInv
<1>6. CASE Verify("reverify", "reask", plan.current)
  <2>1. /\ step = "reverify" /\ step' = "reask" /\ parameter' = parameter
        /\ UNCHANGED <<disk, processes, gateway, plan, history>>
        /\ bundle # None /\ Alike(bundle, plan.current)
      BY <1>6 DEF Verify, Verified, ChainInv, TypeOK
  <2>2. ~asked /\ parameter' \in Paths
      BY <2>1 DEF ChainInv, Pending, TypeOK
  <2>3. /\ step \in Forward \cup Backward
        /\ step' \in Forward \cup Backward \cup {"idle"}
        /\ step' \notin {"ask", "activate", "commit"}
      BY <2>1 DEF Backward
  <2>4. QED  BY <2>1, <2>2, <2>3, MoveInv
<1>7. CASE Ask("reask", "reactivate")
  <2>1. step \in Forward \cup Backward
      BY <1>7 DEF Ask, Backward
  <2>2. QED  BY <1>7, <2>1, AskInv DEF Ask
<1>8. CASE Activated("reactivate", "idle")
  <2>1. /\ step = "reactivate" /\ step' = "idle" /\ parameter' \in Paths
        /\ UNCHANGED <<disk, processes, parameter, gateway, plan, history>>
      BY <1>8 DEF Activated, ChainInv, TypeOK
  <2>2. step \in Forward \cup Backward
      BY <2>1 DEF Backward
  <2>3. QED  BY <2>1, <2>2, MoveInv
<1>9. QED  BY <1>1, <1>2, <1>3, <1>4, <1>5, <1>6, <1>7, <1>8
           DEF Rollback

-----------------------------------------------------------------------------
\* ChainInv is an invariant.
THEOREM ChainInvInvariant == Spec => []ChainInv
<1>1. ChainInv /\ [Next]_vars => ChainInv'
  <2> SUFFICES ASSUME ChainInv, [Next]_vars PROVE ChainInv'
      OBVIOUS
  <2>1. CASE Next
      BY <2>1, RewriteInv, LaunchInv, OnActivateInv, BootInv, PrepareInv,
         ReconfigureInv, RollbackInv, FailsInv
         DEF Next
  <2>2. CASE UNCHANGED vars
      BY <2>2 DEF vars, processes, gateway, history, ChainInv, TypeOK,
                  ComesUp, Planned, Pending, AskedCompared, SetUpAlike,
                  ActiveHealthy, VehicleStated, Starting,
                  Compared
  <2>3. QED  BY <2>1, <2>2
<1>2. QED  BY <1>1, InitChainInv, PTL DEF Spec

\* Every reachable state is type-correct.
THEOREM ChainTypeCorrect == Spec => []TypeOK
BY ChainInvInvariant, PTL DEF ChainInv

\* Whatever the files become before they are configured, forward or back, an
\* active gateway works with a configuration that was compared.
THEOREM OnlyPlannedHolds == Spec => []OnlyPlanned
<1>1. ChainInv => OnlyPlanned
    BY DEF ChainInv, ComesUp, AskedCompared, OnlyPlanned
<1>2. QED  BY <1>1, ChainInvInvariant, PTL

\* The gateway is set up like the others from its first activation on.
LEMMA ActiveOwned ==
    ASSUME ChainInv, phase = "active", intact
    PROVE  Owned(Content[bundle]) = Owned(Content[launched])
<1>1. bundle # None /\ bundle \in Loadable /\ step # "launch"
    BY DEF ChainInv, TypeOK, ComesUp
<1>2. CASE step = "boot"
    BY <1>1, <1>2 DEF ChainInv, ComesUp
<1>3. CASE ~Starting
  <2>1. PICK d \in Compared : Alike(bundle, d)
      BY <1>3 DEF ChainInv, AskedCompared
  <2>2. d \in Loadable
      BY DEF ChainInv, TypeOK, Compared
  <2>3. Owned(Content[bundle]) = Owned(Content[d])
      BY <1>1, <2>1, <2>2, AlikeOwned
  <2>4. QED  BY <1>3, <2>3 DEF ChainInv, SetUpAlike
<1>4. QED  BY <1>1, <1>2, <1>3 DEF Starting

\* No sequence of reconfigurations, rollbacks and rewritten files activates
\* a gateway whose adapter, ingress, simulator or participants are set up
\* otherwise, unless the files changed while the system came up.
THEOREM ProfileStaysHolds == Spec => []ProfileStays
<1>1. ChainInv => ProfileStays
    BY ActiveOwned DEF ProfileStays
<1>2. QED  BY <1>1, ChainInvInvariant, PTL

\* Between an active gateway and an adapter with the contract of its launch,
\* commands and states are delivered, and each is in time for the other.
THEOREM ChainWorksHolds == Spec => []ChainWorks
<1>1. ASSUME ChainInv, phase = "active", intact
      PROVE  Works(Content[bundle], Content[launched])
  <2> DEFINE g == Content[bundle]
  <2> DEFINE a == Content[launched]
  <2>1. Owned(g) = Owned(a)
      BY <1>1, ActiveOwned
  <2>2. EndpointsIdentified(g, a) /\ EndpointsCompatible(g, a)
      BY <1>1 DEF ChainInv, ActiveHealthy, Healthy
  <2>3. bundle \in Loadable /\ launched \in Loadable
      BY <1>1 DEF ChainInv, TypeOK, ComesUp
  <2>4. Loads(g) /\ Loads(a)
      BY <2>3 DEF Loadable
  <2>5. /\ QosValid(OutputQos(g)) /\ QosValid(OutputQos(a))
        /\ QosValid(VehicleQos(g)) /\ QosValid(VehicleQos(a))
    <3>1. /\ g.contract.states["vehicle_state"].qos # {}
          /\ a.contract.states["vehicle_state"].qos # {}
        BY <1>1, <2>3, NoneNotLoadable DEF ChainInv, VehicleStated
    <3>2. QED  BY <2>4, <3>1, LoadedQosValid
  <2>6. Delivers(OutputQos(g), OutputQos(a))
      BY <2>2, <2>5, CompatibleDelivers DEF EndpointsCompatible, QosHealthy
  <2>7. Delivers(VehicleQos(a), VehicleQos(g))
      BY <2>2, <2>5, CompatibleDelivers DEF EndpointsCompatible, QosHealthy
  <2>8. /\ g.profile.adapter = a.profile.adapter
        /\ StatePeriod(g.profile) = StatePeriod(a.profile)
      BY <2>1 DEF Owned
  <2>9. ProfileFits(g)
      BY <2>4 DEF Loads
  <2>10. QED  BY <2>2, <2>6, <2>7, <2>8, <2>9 DEF Works, ProfileFits
<1>2. ChainInv => ChainWorks
    BY <1>1 DEF ChainWorks
<1>3. QED  BY <1>2, ChainInvInvariant, PTL
=============================================================================
