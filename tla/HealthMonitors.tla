--------------------------- MODULE HealthMonitors ---------------------------
(***************************************************************************)
(* What the gateway believes of the endpoints around it and of the vehicle *)
(* adapter, from poll_graph and the VehicleState callback, and the gate of *)
(* on_activate that relies on it.  Both callbacks are in the health group, *)
(* one at a time; lifecycle services and the output tick are not, so they  *)
(* run while poll_graph queries the ROS graph outside runtime_mutex_.      *)
(* Each action is one critical section.  RosClock is the clock's part.     *)
(***************************************************************************)
EXTENDS Integers

CONSTANTS
    Adapters,        \* GIDs of VehicleState publishers
    Publishers,      \* GIDs of publishers of the required source
    None,            \* an empty std::optional
    StableWindow,    \* gateway.graph_stable_window_ms
    VehicleTimeout,  \* gateway.vehicle_state_topic_timeout_ms
    MaxBundles       \* bound: configurations

\* A VehicleState that was accepted, of whom and how old; older than the
\* timeout is all the same.
Snapshots == [who : Adapters, content : {"bootstrap", "other"},
              age : 0 .. VehicleTimeout + 1]

ASSUME MonitorAssumption ==
    /\ None \notin Adapters \cup Publishers
    /\ StableWindow \in Nat \ {0} /\ VehicleTimeout \in Nat \ {0}
    /\ None \notin Int /\ None \notin Snapshots
    /\ MaxBundles \in Nat

VARIABLES
    bundle,        \* identity of contract_bundle_, 0 if not configured
    bundles,       \* history: configurations so far
    active,        \* data_plane_enabled_
    tracker,       \* endpoint trackers: the required source's, the vehicle's
    confirmed,     \* vehicle_state_publisher_generation_
    snapshot,      \* vehicle_state_runtime_.latest_valid_snapshot
    messageValid,  \* vehicle_state_runtime_.latest_message_valid
    health,        \* the fields of health_snapshot_ that are kept here
    poll,          \* the bundle poll_graph has copied, None if it is idle
    message,       \* history: the last VehicleState handled
    trusted,       \* history: this was a tick that was told that the vehicle
                   \* health is valid and fresh
    looks          \* history: what the last look at an endpoint under this
                   \* bundle showed, and for how long all of them have

memory == <<confirmed, snapshot, messageValid, message>>
vars == <<bundle, bundles, active, tracker, memory, health, poll, trusted, looks>>

-----------------------------------------------------------------------------
(***************************************************************************)
(* What a look at the graph can show of an endpoint.  The vehicle role is  *)
(* held by one adapter and nobody else is on the topic, or it has no       *)
(* holder: nobody, several, or one beside an endpoint of no role.  The QoS *)
(* report of whoever has the role is good or not.  The source has one      *)
(* publisher that fits, or is unusable.                                    *)
(***************************************************************************)
Views ==
    [vehicle |-> [who : Adapters \cup {None}, qos : BOOLEAN],
     source |-> [who : Publishers, qos : {TRUE}]
                  \cup [who : {None}, qos : {FALSE}]]

Endpoints == DOMAIN Views

NewTracker == [stable |-> None, candidate |-> None, age |-> 0]

\* update_source_endpoint_stability and update_critical_endpoint_stability.
Observed(t, view) ==
    IF view = t.stable THEN [t EXCEPT !.candidate = None, !.age = 0]
    ELSE IF view # t.candidate THEN [t EXCEPT !.candidate = view, !.age = 0]
    ELSE IF t.age >= StableWindow THEN [NewTracker EXCEPT !.stable = view]
    ELSE t

\* A role that is stable, with its only holder.
Holder(endpoint) ==
    IF tracker[endpoint].stable = None THEN None
    ELSE tracker[endpoint].stable.who

StableQos(t) == IF t.stable = None THEN FALSE ELSE t.stable.qos

-----------------------------------------------------------------------------
Contents == {"bootstrap", "other", "bad"}

\* The default GatewayHealthSnapshot: nothing outside is trusted.
NoHealth ==
    [endpoints |-> FALSE, qos |-> FALSE, valid |-> FALSE, fresh |-> FALSE,
     invariants |-> TRUE]

Init ==
    /\ bundle = 0 /\ bundles = 0 /\ active = FALSE
    /\ tracker = [e \in Endpoints |-> NewTracker]
    /\ confirmed = None /\ snapshot = None /\ messageValid = FALSE
    /\ health = NoHealth /\ poll = None /\ message = None
    /\ trusted = FALSE
    /\ looks = [e \in Endpoints |-> [view |-> None, span |-> 0]]

Configured == bundle # 0

\* The commit of on_configure, and on_cleanup: every monitor starts over.
StartOver ==
    /\ active' = FALSE
    /\ tracker' = [e \in Endpoints |-> NewTracker]
    /\ confirmed' = None /\ snapshot' = None /\ messageValid' = FALSE
    /\ health' = NoHealth /\ message' = None
    /\ looks' = [e \in Endpoints |-> [view |-> None, span |-> 0]]

OnConfigure ==
    /\ ~Configured /\ bundles < MaxBundles
    /\ bundles' = bundles + 1 /\ bundle' = bundles'
    /\ StartOver /\ UNCHANGED poll

OnCleanup ==
    /\ Configured /\ ~active
    /\ bundle' = 0
    /\ StartOver /\ UNCHANGED <<bundles, poll>>

-----------------------------------------------------------------------------
(***************************************************************************)
(* refresh_vehicle_state_health_locked: freshness decays with steady time, *)
(* so a cached health is only as good as its last refresh.                 *)
(***************************************************************************)
Fresh(s) == s # None /\ s.age <= VehicleTimeout

Refreshed(h, s, valid) == [h EXCEPT !.valid = valid, !.fresh = Fresh(s)]

\* poll_graph, first critical section: copies the bundle.
PollGraphStart ==
    /\ Configured /\ poll = None
    /\ poll' = bundle
    /\ UNCHANGED <<bundle, bundles, active, tracker, memory, health, looks>>

\* Mutant of CurrentPoll: any configuration takes the result.
CurrentWhenConfigured == Configured

CurrentPoll == Configured /\ bundle = poll

\* Mutant of Inherits: feedback survives a new publisher.
InheritsAlways(who) == TRUE

\* Whether the feedback so far is still the adapter's: an adapter that is
\* new to the gateway does not inherit it.
Inherits(who) == who \in {None, confirmed}

NewLooks(views) ==
    [e \in Endpoints |->
        [view |-> views[e],
         span |-> IF looks[e].view = views[e] THEN looks[e].span ELSE 0]]

\* Second critical section, with what the queries in between have shown.
PollGraphCommit(views) ==
    /\ poll # None /\ poll' = None
    /\ looks' = IF poll = bundle THEN NewLooks(views) ELSE looks
    /\ \/ /\ ~CurrentPoll
          /\ UNCHANGED <<tracker, memory, health>>
       \/ /\ CurrentPoll
          /\ tracker' = [e \in Endpoints |-> Observed(tracker[e], views[e])]
          /\ LET who == Holder("vehicle")'
             IN /\ confirmed' = IF who = None THEN confirmed ELSE who
                /\ \/ Inherits(who) /\ UNCHANGED <<snapshot, messageValid>>
                   \/ ~Inherits(who) /\ snapshot' = None /\ messageValid' = FALSE
                /\ health' =
                     Refreshed([health EXCEPT
                                  !.endpoints = who # None,
                                  !.qos = StableQos(tracker'["vehicle"])],
                               snapshot', messageValid')
          /\ UNCHANGED message
    /\ UNCHANGED <<bundle, bundles, active>>

\* A query throws: the catch block closes the gates, of whatever
\* configuration there is by now.
PollGraphFailed ==
    /\ poll # None /\ poll' = None
    /\ health' = [health EXCEPT !.endpoints = FALSE, !.qos = FALSE]
    /\ UNCHANGED <<bundle, bundles, active, tracker, memory, looks>>

(***************************************************************************)
(* handle_vehicle_state, for a message of adapter v.  "bad" is whatever    *)
(* the validator rejects: enumeration, numbers, stamp, age or clock.       *)
(***************************************************************************)
FromHolder(v) == v = Holder("vehicle")

\* The assertion of the callback: the tracker and the generation that
\* poll_graph confirmed agree.
HolderConfirmed == Holder("vehicle") = confirmed

HandleVehicleState(v, content) ==
    /\ Configured /\ poll = None
    /\ message' = [who |-> v, content |-> content]
    /\ \/ /\ FromHolder(v) /\ ~HolderConfirmed
          /\ health' = [health EXCEPT !.invariants = FALSE]
          /\ UNCHANGED <<snapshot, messageValid>>
       \/ /\ FromHolder(v) /\ HolderConfirmed /\ content # "bad"
          /\ snapshot' = [who |-> v, content |-> content, age |-> 0]
          /\ messageValid' = TRUE
          /\ health' = Refreshed(health, snapshot', TRUE)
       \/ /\ ~FromHolder(v) \/ (HolderConfirmed /\ content = "bad")
          /\ messageValid' = FALSE /\ UNCHANGED snapshot
          /\ health' = Refreshed(health, snapshot, FALSE)
    /\ UNCHANGED <<bundle, bundles, active, tracker, confirmed, poll, looks>>

-----------------------------------------------------------------------------
(***************************************************************************)
(* The data plane.                                                         *)
(***************************************************************************)
\* Mutant of GateHealth: on_activate trusts the cached freshness.
GateHealthCached == health

GateHealth == Refreshed(health, snapshot, messageValid)

GateOpens ==
    /\ GateHealth.invariants /\ GateHealth.endpoints /\ GateHealth.qos
    /\ Holder("source") # None
    /\ GateHealth.valid /\ GateHealth.fresh
    /\ confirmed # None /\ snapshot # None
    /\ snapshot.who = confirmed /\ snapshot.content = "bootstrap"

OnActivate ==
    /\ Configured /\ ~active
    /\ health' = IF health.invariants THEN GateHealth ELSE health
    /\ active' = GateOpens
    /\ UNCHANGED <<bundle, bundles, tracker, memory, poll, looks>>

OnDeactivate ==
    /\ active /\ active' = FALSE
    /\ UNCHANGED <<bundle, bundles, tracker, memory, health, poll, looks>>

\* Mutant of TickHealth: the tick decides on what the callbacks left.
TickHealthCached == health

TickHealth == Refreshed(health, snapshot, messageValid)

RunOutputTick ==
    /\ active
    /\ health' = TickHealth
    /\ trusted' = (health'.valid /\ health'.fresh)
    /\ UNCHANGED <<bundle, bundles, active, tracker, memory, poll, looks>>

Older(age, limit) == IF age < limit THEN age + 1 ELSE age

Tick ==
    /\ tracker' = [e \in Endpoints |->
           [tracker[e] EXCEPT !.age = IF tracker[e].candidate = None THEN @
                                      ELSE Older(@, StableWindow)]]
    /\ snapshot' = IF snapshot = None THEN None
                   ELSE [snapshot EXCEPT !.age = Older(@, VehicleTimeout + 1)]
    /\ looks' = [e \in Endpoints |->
           [looks[e] EXCEPT !.span = Older(@, StableWindow)]]
    /\ UNCHANGED <<bundle, bundles, active, confirmed, messageValid, message,
                   health, poll>>

-----------------------------------------------------------------------------
Other ==
    \/ OnConfigure \/ OnCleanup \/ OnActivate \/ OnDeactivate
    \/ PollGraphStart \/ PollGraphFailed
    \/ \E seen \in Views["vehicle"], usable \in Views["source"] :
          PollGraphCommit([vehicle |-> seen, source |-> usable])
    \/ \E v \in Adapters, content \in Contents :
          HandleVehicleState(v, content)
    \/ Tick

Next == RunOutputTick \/ (Other /\ trusted' = FALSE)

Spec == Init /\ [][Next]_vars

-----------------------------------------------------------------------------
(***************************************************************************)
(* The types of the node's fields and of the histories.                    *)
(***************************************************************************)
Trackers(e) ==
    [stable : Views[e] \cup {None}, candidate : Views[e] \cup {None},
     age : 0 .. StableWindow]

Looks(e) == [view : Views[e] \cup {None}, span : 0 .. StableWindow]

Healths ==
    [endpoints : BOOLEAN, qos : BOOLEAN, valid : BOOLEAN, fresh : BOOLEAN,
     invariants : BOOLEAN]

EndpointsTyped ==
    \A e \in Endpoints : tracker[e] \in Trackers(e) /\ looks[e] \in Looks(e)

MemoryTyped ==
    /\ confirmed \in Adapters \cup {None}
    /\ snapshot \in Snapshots \cup {None}
    /\ messageValid \in BOOLEAN
    /\ health \in Healths
    /\ message \in [who : Adapters, content : Contents] \cup {None}

PhaseTyped ==
    /\ bundle \in 0 .. MaxBundles /\ bundles \in 0 .. MaxBundles
    /\ active \in BOOLEAN
    /\ poll \in 1 .. MaxBundles \cup {None}
    /\ trusted \in BOOLEAN

TypeOK == EndpointsTyped /\ MemoryTyped /\ PhaseTyped

(***************************************************************************)
(* The data plane only opens on the word of the adapter that the graph has *)
(* proven: the last VehicleState came from the stable holder of the role,  *)
(* reported the bootstrap SAFE_STOP and is within the timeout now,         *)
(* whatever freshness was cached, polled or configured before (on_activate,*)
(* poll_graph, handle_vehicle_state).                                      *)
(***************************************************************************)
ActivationGated ==
    [][active' /\ ~active
         => /\ snapshot # None /\ snapshot.age <= VehicleTimeout
            /\ message = [who |-> Holder("vehicle"), content |-> "bootstrap"]
            /\ Holder("source") # None]_vars

(***************************************************************************)
(* An endpoint only becomes stable after every look of this configuration, *)
(* for the whole stable window, has shown the same: a look that outlived   *)
(* its configuration does not count (poll_graph).                          *)
(***************************************************************************)
EndpointProven ==
    [][\A e \in Endpoints :
         tracker'[e].stable \notin {tracker[e].stable, None}
           => /\ looks'[e].view = tracker'[e].stable
              /\ looks[e] = [view |-> looks'[e].view, span |-> StableWindow]]_vars

(***************************************************************************)
(* Feedback never outlives its publisher: the snapshot is always of the    *)
(* adapter that is confirmed, and the assertion "stable VehicleState       *)
(* publisher generation does not match Gateway runtime" never fires.       *)
(***************************************************************************)
FeedbackOfConfirmed ==
    /\ snapshot # None => snapshot.who = confirmed
    /\ Holder("vehicle") \in {None, confirmed}
    /\ health.invariants

(***************************************************************************)
(* Every decision of an output tick is made on the truth: vehicle health   *)
(* that is valid and fresh means that the last message was accepted and is *)
(* within the timeout (run_output_tick).                                   *)
(***************************************************************************)
DecisionOnTruth ==
    trusted => /\ snapshot.age <= VehicleTimeout
               /\ message.who = confirmed /\ message.content # "bad"

-----------------------------------------------------------------------------
(***************************************************************************)
(* The inductive strengthening that the proofs rest on.                    *)
(***************************************************************************)
\* A candidate is no older than the span in which nothing else was seen.
CandidateSeen ==
    \A e \in Endpoints :
        tracker[e].candidate # None
          => /\ looks[e].view = tracker[e].candidate
             /\ looks[e].span >= tracker[e].age

\* Validity is the last message's, and the snapshot was taken of it.
MessageBacks ==
    messageValid =>
        /\ snapshot # None
        /\ message = [who |-> confirmed, content |-> snapshot.content]

\* The gate's endpoints are never healthier than the tracker.
EndpointsHeld == health.endpoints => Holder("vehicle") # None

MonitorInv ==
    /\ TypeOK /\ CandidateSeen
    /\ FeedbackOfConfirmed /\ MessageBacks /\ EndpointsHeld
    /\ DecisionOnTruth
=============================================================================
