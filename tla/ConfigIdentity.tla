--------------------------- MODULE ConfigIdentity ---------------------------
(***************************************************************************)
(* What a bundle's identity covers, and how a change from one bundle to    *)
(* another is classified.  A canonical serialization is injective and a    *)
(* SHA-256 taken for free of collisions: both are modelled by the values   *)
(* they are computed from.                                                 *)
(***************************************************************************)
EXTENDS ContractBundle

\* serialize_qos: a depth that keep_all does not use is left out.
QosBehavior(q) ==
    [q EXCEPT !.depth = IF q.history = "keep_last" THEN {q.depth} ELSE {}]

\* canonical_serialize_gateway_contract: neither id nor version, and the
\* critical endpoints in no order.
ContractBehavior(c) ==
    [schema |-> c.schema, gateway |-> c.gateway, limits |-> c.limits,
     qos |-> [n \in DOMAIN c.qos |-> QosBehavior(c.qos[n])],
     input |-> c.input, output |-> c.output, states |-> c.states,
     endpoints |-> Entries(c.endpoints)]

\* serialize_effective_source_policy: the sources that the profile enables.
PolicyBehavior(b) ==
    [schema |-> b.policy.schema,
     sources |-> {SourceOf(b.policy, id) : id \in Entries(b.profile.sources)}]

\* serialize_profile_common: neither file names nor topics to record.
CommonBehavior(p) ==
    [schema |-> p.schema, clock |-> p.clock, useSimTime |-> p.useSimTime,
     sources |-> Entries(p.sources), ingress |-> p.ingress]

(***************************************************************************)
(* serialize_profile_behavior: not resources and goal of the robot, not    *)
(* the replay namespace of ADAS.                                           *)
(***************************************************************************)
\* Mutant of ProfileBehavior: the adapter's settings are left to its process.
ProfileBehaviorCommon(p) == [common |-> CommonBehavior(p), kind |-> p.kind]

ProfileBehavior(p) ==
    IF p.kind = "robot"
    THEN [common |-> CommonBehavior(p), kind |-> p.kind,
          geometry |-> p.geometry, adapter |-> p.adapter,
          frames |-> p.frames, health |-> p.health]
    ELSE [common |-> CommonBehavior(p), kind |-> p.kind,
          adapter |-> p.adapter, simulator |-> p.simulator]

\* canonical_serialize_can_signal_map_behavior: all but the description.
SignalMapBehavior(b) == IF b.profile.kind = "adas" THEN {b.can} ELSE {}

\* canonical_serialize_decision_config.
DecisionHash(b) ==
    [contract |-> ContractBehavior(b.contract), policy |-> PolicyBehavior(b),
     profile |-> ProfileBehavior(b.profile), can |-> SignalMapBehavior(b)]

\* sha256_file_content of the FastDDS profile.
FastDdsHash(b) == b.fastdds.content

-----------------------------------------------------------------------------
(***************************************************************************)
(* diff_contract_bundles.  A change that is refused is named before one    *)
(* that needs a restart, and that before one that rebuilds the gateway.    *)
(* That the decision hash changes exactly when one of its parts does, as   *)
(* it also demands, holds by the definition of DecisionHash.               *)
(***************************************************************************)
Incompatible(current, candidate) ==
    LET old == current.contract  new == candidate.contract IN
    \/ new.id # old.id
    \/ candidate.profile.kind # current.profile.kind
    \/ new.version < old.version
    \/ /\ ContractBehavior(new) # ContractBehavior(old)
       /\ new.version <= old.version

RestartRequired(current, candidate) ==
    \/ ProfileBehavior(candidate.profile) # ProfileBehavior(current.profile)
    \/ SignalMapBehavior(candidate) # SignalMapBehavior(current)
    \/ FastDdsHash(candidate) # FastDdsHash(current)

RebuildRequired(current, candidate) ==
    \/ ContractBehavior(candidate.contract)
         # ContractBehavior(current.contract)
    \/ PolicyBehavior(candidate) # PolicyBehavior(current)

ChangeClass(current, candidate) ==
    CASE Incompatible(current, candidate) -> "INCOMPATIBLE"
      [] ~Incompatible(current, candidate)
         /\ RestartRequired(current, candidate) -> "PROFILE_RESTART_REQUIRED"
      [] ~Incompatible(current, candidate)
         /\ ~RestartRequired(current, candidate) ->
           IF RebuildRequired(current, candidate)
           THEN "ENDPOINT_REBUILD_REQUIRED" ELSE "IDENTITY_ONLY"
=============================================================================
