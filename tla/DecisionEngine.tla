--------------------------- MODULE DecisionEngine ---------------------------
(***************************************************************************)
(* The deterministic decision core of the gateway: source slots, health    *)
(* snapshot, recovery evidence, arbiter and data-plane state machine,      *)
(* driven by lifecycle events, health snapshots, source samples and output *)
(* ticks.  Every event is applied under the node's runtime mutex, so each  *)
(* one is a single step; their order is arbitrary.  The two clocks the     *)
(* events are stamped with are environment variables: the steady clock     *)
(* never moves back, ROS time may stall or jump.                           *)
(***************************************************************************)
EXTENDS SourceArbiter, GatewayStateMachine

CONSTANTS
    HealthInputs,    \* health snapshots the node may submit
    Contents,        \* contents of a sample: Motion, Hold or Malformed
    StampOffsets,    \* source_stamp of a sample, relative to ROS time
    RosRates,        \* how far ROS time moves in a unit of steady time
    MaxSequence,     \* bound: source_sequence of a sample
    MaxTime,         \* bound: both clocks
    MaxEpoch         \* bound: health epoch flips caused by health events

ASSUME InputAssumption ==
    /\ HealthInputs \subseteq Health
    /\ Contents \subseteq {"Motion", "Hold", "Malformed"}
    /\ StampOffsets \subseteq Int
    /\ RosRates \subseteq Int
    /\ MaxSequence \in Nat
    /\ MaxTime \in Nat
    /\ MaxEpoch \in Nat

VARIABLES
    configured, active,      \* lifecycle flags of the engine
    revised,                 \* health_revision_ # 0
    slots,                   \* SourceRuntimeSlot of each source
    endpoints,               \* generation of a usable endpoint, else None
    health, recoveryHealthy, healthEpoch,
    pending,                 \* pending_recovery_evidences_, one tally per key
    lastTick, lateTicks,     \* output tick supervision
    arbiter, machine,
    canonical,               \* the last canonical command produced
    steady, ros,             \* the clocks
    streak, floor, notBest   \* history, see below

engine == <<configured, active, revised, slots, endpoints, health,
            recoveryHealthy, healthEpoch, pending, lastTick, lateTicks,
            arbiter, machine, canonical>>
clocks == <<steady, ros>>
history == <<streak, floor, notBest>>
vars == <<engine, clocks, history>>

-----------------------------------------------------------------------------
(***************************************************************************)
(* Source slots.                                                           *)
(***************************************************************************)
NoSequence == -1

EmptySlot == [gen |-> None, seq |-> NoSequence, snap |-> None]

Slots == [gen : Generations \cup {None}, seq : Nat \cup {NoSequence},
          snap : Snapshots \cup {None}]

\* confirm_publisher_generation: a new generation starts a new baseline.
ConfirmGeneration(slot, gen) ==
    IF slot.gen = gen THEN slot ELSE [EmptySlot EXCEPT !.gen = gen]

\* Mutant of InvalidateSnapshot: the baseline is lost with the endpoint.
InvalidateSlot(slot) == [EmptySlot EXCEPT !.gen = slot.gen]

\* The baseline survives the loss of the endpoint, the snapshot does not.
InvalidateSnapshot(slot) == [slot EXCEPT !.snap = None]

(***************************************************************************)
(* CommandValidator::validate.  "Malformed" stands for the identity, mode, *)
(* range and stamp-structure checks that precede the clock checks.         *)
(***************************************************************************)
RejectReason(sample, slot, clockHealthy) ==
    IF sample.content = "Malformed" THEN "Malformed"
    ELSE IF sample.stamp = 0 THEN "ZeroStamp"
    ELSE IF ~clockHealthy THEN "ClockInvalid"
    ELSE IF sample.stamp < 0 THEN "Stale"
    ELSE IF sample.stamp - ros > MaxFutureSkew THEN "FutureStamp"
    ELSE IF ros - sample.stamp > CommandTimeout THEN "Stale"
    ELSE IF sample.seq <= slot.seq THEN "SequenceNotIncreasing"
    ELSE "None"

SnapshotOf(sample) ==
    [gen |-> sample.gen, seq |-> sample.seq, stamp |-> sample.stamp,
     received |-> steady, motion |-> sample.content = "Motion"]

\* commit_validation_result, for an accepted sample.
CommitResult(slot, sample) ==
    [slot EXCEPT !.seq = sample.seq, !.snap = SnapshotOf(sample)]

Accepts(s, sample) ==
    /\ endpoints[s] = sample.gen
    /\ RejectReason(sample, slots[s], health.rosClock) = "None"

-----------------------------------------------------------------------------
(***************************************************************************)
(* Health.  Recovery evidence is only valid within one health epoch: every *)
(* change between healthy and unhealthy starts a new one and drops it.     *)
(***************************************************************************)
RecoveryHealthIsHealthy(h) ==
    /\ h.criticalEndpoints /\ h.criticalQos /\ h.rosClock
    /\ h.vehicleValid /\ h.vehicleFresh
    /\ ~h.vehicleSafeStop /\ ~h.vehicleFault
    /\ h.outputTick /\ h.internalInvariants

Flips(h) == RecoveryHealthIsHealthy(h) # recoveryHealthy

EpochAfter(h) == IF Flips(h) THEN healthEpoch + 1 ELSE healthEpoch

PendingAfter(h) == IF Flips(h) THEN NoEvidence ELSE pending

InitialHealth ==
    [internalInvariants |-> TRUE, outputTick |-> TRUE,
     criticalEndpoints |-> FALSE, rosClock |-> FALSE,
     vehicleValid |-> FALSE, vehicleFresh |-> FALSE,
     vehicleFault |-> FALSE, vehicleSafeStop |-> FALSE,
     criticalQos |-> FALSE]

(***************************************************************************)
(* History variables, for stating properties only.  streak counts the      *)
(* consecutive accepted samples of a key since its last rejected one, the  *)
(* last change of the health epoch and the last activation (it stops at    *)
(* RecoveryValidSamples); floor is the highest sequence accepted from a    *)
(* source since its confirmed generation changed; notBest is the time of   *)
(* the last tick of this activation at which a source was not the best     *)
(* qualified candidate, or of the activation itself.                       *)
(***************************************************************************)
NoStreak == [k \in Keys |-> 0]

StreakAfter(h) == IF Flips(h) THEN NoStreak ELSE streak

-----------------------------------------------------------------------------
NoCommand == [motion |-> FALSE, key |-> None, seq |-> NoSequence]

Canonicals == [motion : BOOLEAN, key : Keys \cup {None},
               seq : Nat \cup {NoSequence}]

NoSlots == [s \in Sources |-> EmptySlot]
NoEndpoints == [s \in Sources |-> None]
NoFloor == [s \in Sources |-> NoSequence]
NoneBest == [s \in Sources |-> 0]

Init ==
    /\ configured = FALSE /\ active = FALSE /\ revised = FALSE
    /\ slots = NoSlots /\ endpoints = NoEndpoints
    /\ health = InitialHealth /\ recoveryHealthy = FALSE /\ healthEpoch = 0
    /\ pending = NoEvidence
    /\ lastTick = None /\ lateTicks = 0
    /\ arbiter = NewArbiter /\ machine = NewMachine
    /\ canonical = NoCommand
    /\ steady = 0 /\ ros = 0
    /\ streak = NoStreak /\ floor = NoFloor /\ notBest = NoneBest

(***************************************************************************)
(* Lifecycle events.  on_configure builds a new engine, in the state Init  *)
(* describes, and submits the Configure event to it.                       *)
(***************************************************************************)
Configure ==
    /\ ~configured /\ ~active
    /\ configured' = TRUE /\ revised' = FALSE
    /\ slots' = NoSlots /\ endpoints' = NoEndpoints
    /\ health' = InitialHealth
    /\ recoveryHealthy' = FALSE /\ healthEpoch' = 0
    /\ pending' = NoEvidence
    /\ lastTick' = None /\ lateTicks' = 0
    /\ arbiter' = NewArbiter /\ machine' = NewMachine
    /\ canonical' = NoCommand
    /\ streak' = NoStreak /\ floor' = NoFloor /\ notBest' = NoneBest
    /\ UNCHANGED <<active, clocks>>

Activate ==
    /\ configured /\ ~active /\ revised
    /\ active' = TRUE
    /\ arbiter' = NewArbiter /\ machine' = NewMachine
    /\ pending' = NoEvidence
    /\ lastTick' = None /\ lateTicks' = 0
    /\ LET h == [health EXCEPT !.outputTick = TRUE] IN
       /\ health' = h
       /\ healthEpoch' = EpochAfter(h)
       /\ recoveryHealthy' = RecoveryHealthIsHealthy(h)
    /\ streak' = NoStreak
    /\ notBest' = [s \in Sources |-> steady]
    /\ UNCHANGED <<configured, revised, slots, endpoints, canonical, clocks,
                   floor>>

Deactivate ==
    /\ configured /\ active
    /\ active' = FALSE
    /\ pending' = NoEvidence
    /\ lastTick' = None /\ lateTicks' = 0
    /\ UNCHANGED <<configured, revised, slots, endpoints, health,
                   recoveryHealthy, healthEpoch, arbiter, machine, canonical,
                   clocks, history>>

LifecycleError ==
    /\ active' = FALSE
    /\ pending' = NoEvidence
    /\ lastTick' = None
    /\ UNCHANGED <<configured, revised, slots, endpoints, health,
                   recoveryHealthy, healthEpoch, lateTicks, arbiter, machine,
                   canonical, clocks, history>>

Cleanup ==
    /\ configured /\ ~active
    /\ configured' = FALSE
    /\ UNCHANGED <<active, revised, slots, endpoints, health,
                   recoveryHealthy, healthEpoch, pending, lastTick, lateTicks,
                   arbiter, machine, canonical, clocks, history>>

(***************************************************************************)
(* A health snapshot: endpoint stability is folded into the slots, then    *)
(* the health flags are replaced.  The node copies output_tick_healthy     *)
(* from the engine before it submits.                                      *)
(***************************************************************************)
SlotAfter(slot, gen) ==
    IF gen = None THEN InvalidateSnapshot(slot)
    ELSE ConfirmGeneration(slot, gen)

HealthEvent(input, observed) ==
    /\ configured
    /\ LET h == [input EXCEPT !.outputTick = health.outputTick] IN
       /\ EpochAfter(h) <= MaxEpoch
       /\ health' = h
       /\ healthEpoch' = EpochAfter(h)
       /\ recoveryHealthy' = RecoveryHealthIsHealthy(h)
       /\ pending' = PendingAfter(h)
       /\ streak' = StreakAfter(h)
    /\ slots' = [s \in Sources |-> SlotAfter(slots[s], observed[s])]
    /\ endpoints' = observed
    /\ revised' = TRUE
    /\ floor' = [s \in Sources |->
                    IF observed[s] \in {None, slots[s].gen} THEN floor[s]
                    ELSE NoSequence]
    /\ UNCHANGED <<configured, active, lastTick, lateTicks, arbiter, machine,
                   canonical, clocks, notBest>>

(***************************************************************************)
(* A source sample: rejected when its generation is not the usable one,    *)
(* else validated; either way the outcome becomes recovery evidence.       *)
(***************************************************************************)
SourceSample(s, sample) ==
    /\ configured /\ active
    /\ LET accepted == Accepts(s, sample)
           key == [source |-> s, gen |-> sample.gen]
       IN
       /\ slots' = IF accepted
                   THEN [slots EXCEPT ![s] = CommitResult(@, sample)]
                   ELSE slots
       /\ pending' = PushEvidence(pending, key, accepted, healthEpoch)
       /\ streak' = [streak EXCEPT ![key] = IF accepted THEN Grown(@) ELSE 0]
       /\ floor' = IF accepted /\ sample.seq > floor[s]
                   THEN [floor EXCEPT ![s] = sample.seq]
                   ELSE floor
    /\ UNCHANGED <<configured, active, revised, endpoints, health,
                   recoveryHealthy, healthEpoch, lastTick, lateTicks, arbiter,
                   machine, canonical, clocks, notBest>>

(***************************************************************************)
(* An output tick: tick supervision, epoch update, arbitration over the    *)
(* latest valid snapshots, state machine, canonical command.               *)
(***************************************************************************)
LateAfter ==
    IF lastTick = None THEN lateTicks
    ELSE IF steady - lastTick > LateThreshold THEN lateTicks + 1
    ELSE 0

LatestValid == [s \in Sources |-> slots[s].snap]

KeyOf(s) == IF s = None THEN None
            ELSE [source |-> s, gen |-> slots[s].snap.gen]

CanonicalCommand(sm, s) ==
    IF s = None THEN NoCommand
    ELSE [motion |-> sm.state = "ACTIVE" /\ slots[s].snap.motion,
          key |-> KeyOf(s), seq |-> slots[s].snap.seq]

TickHealth == [health EXCEPT !.outputTick = LateAfter < LateTicksToSafeStop]

QualifiedNow == Qualified(LatestValid, steady, ros)

Arbitration == Arbitrate(arbiter, LatestValid, QualifiedNow, steady)

OutputTick ==
    /\ configured /\ active /\ revised
    /\ lastTick' = steady
    /\ lateTicks' = LateAfter
    /\ health' = TickHealth
    /\ healthEpoch' = EpochAfter(TickHealth)
    /\ recoveryHealthy' = RecoveryHealthIsHealthy(TickHealth)
    /\ arbiter' = Arbitration.arbiter
    /\ machine' = Decide(machine, TickHealth, Arbitration.event,
                         KeyOf(Arbitration.selected),
                         PendingAfter(TickHealth), EpochAfter(TickHealth))
    /\ pending' = NoEvidence
    /\ canonical' = CanonicalCommand(machine', Arbitration.selected)
    /\ streak' = StreakAfter(TickHealth)
    /\ notBest' = [s \in Sources |->
                      IF /\ QualifiedNow # {}
                         /\ s = BestCandidate(LatestValid, QualifiedNow)
                      THEN notBest[s] ELSE steady]
    /\ UNCHANGED <<configured, active, revised, slots, endpoints, clocks,
                   floor>>

\* Time passes; ROS time advances, stalls or jumps.
PassTime(rate) ==
    /\ steady < MaxTime
    /\ ros + rate \in 0..MaxTime
    /\ steady' = steady + 1
    /\ ros' = ros + rate
    /\ UNCHANGED <<engine, history>>

LifecycleEvent ==
    Configure \/ Activate \/ Deactivate \/ LifecycleError \/ Cleanup

SampleInputs ==
    [gen : Generations, seq : 1..MaxSequence,
     stamp : {ros + d : d \in StampOffsets},
     content : Contents]

Next ==
    \/ LifecycleEvent
    \/ \E h \in HealthInputs :
       \E observed \in [Sources -> Generations \cup {None}] :
          HealthEvent(h, observed)
    \/ \E s \in Sources : \E sample \in SampleInputs : SourceSample(s, sample)
    \/ OutputTick
    \/ \E rate \in RosRates : PassTime(rate)

Spec == Init /\ [][Next]_vars

-----------------------------------------------------------------------------
TypeOK ==
    /\ configured \in BOOLEAN /\ active \in BOOLEAN /\ revised \in BOOLEAN
    /\ slots \in [Sources -> Slots]
    /\ endpoints \in [Sources -> Generations \cup {None}]
    /\ health \in Health /\ recoveryHealthy \in BOOLEAN
    /\ healthEpoch \in Nat
    /\ pending \in [Keys -> Tally]
    /\ lastTick \in Nat \cup {None} /\ lateTicks \in Nat
    /\ arbiter \in Arbiters /\ machine \in Machines
    /\ canonical \in Canonicals
    /\ steady \in Nat /\ ros \in Nat
    /\ streak \in [Keys -> Nat]
    /\ floor \in [Sources -> Nat \cup {NoSequence}]
    /\ notBest \in [Sources -> Nat]

(***************************************************************************)
(* The logic_error checks of the core never fire: a slot with a snapshot   *)
(* has a confirmed generation and a baseline that match it, the usable     *)
(* endpoint of a source is its slot's generation, no snapshot outlives its *)
(* usable endpoint or comes from the future of the steady clock.           *)
(***************************************************************************)
SlotConsistent(s) ==
    LET slot == slots[s] IN
    /\ slot.gen = None => slot.seq = NoSequence /\ slot.snap = None
    /\ endpoints[s] # None => endpoints[s] = slot.gen
    /\ slot.snap # None => /\ endpoints[s] = slot.snap.gen
                           /\ slot.snap.seq = slot.seq
                           /\ slot.snap.received <= steady

NoInternalThrow == \A s \in Sources : SlotConsistent(s)

(***************************************************************************)
(* Arbiter and state machine agree on the selected source, the states that *)
(* presuppose one have one, and recovery progress, always incomplete,      *)
(* exists exactly in RECOVERING and for the selected source.               *)
(***************************************************************************)
Agreement ==
    /\ machine.selected = arbiter.active
    /\ machine.state \in {"ACTIVE", "RECOVERING"} => machine.selected # None
    /\ machine.state = "RECOVERING" <=> machine.candidate # None
    /\ machine.candidate # None =>
          /\ SourceOf(machine.candidate) = machine.selected
          /\ machine.count < RecoveryValidSamples

(***************************************************************************)
(* Control authority is only (re)gained by proof: the tick that enters     *)
(* ACTIVE selects a publisher whose last RecoveryValidSamples samples were *)
(* all accepted, within the current health epoch and this activation.      *)
(***************************************************************************)
RecoveryProven ==
    [][machine.state # "ACTIVE" /\ machine'.state = "ACTIVE"
        => streak'[canonical'.key] >= RecoveryValidSamples]_vars

(***************************************************************************)
(* A tick that outputs motion does so in full health, for a snapshot of    *)
(* the generation now usable on its topic, still fresh and within lease.   *)
(***************************************************************************)
MotionAuthorized ==
    [][canonical'.motion /\ OutputTick =>
        LET s == canonical'.key.source IN
        /\ machine'.state = "ACTIVE"
        /\ RecoveryHealthIsHealthy(health')
        /\ endpoints[s] = canonical'.key.gen
        /\ slots[s].seq = canonical'.seq
        /\ CommandIsFresh(slots[s].snap, ros)
        /\ LeaseIsValid(s, slots[s].snap, steady)]_vars

(***************************************************************************)
(* ERROR, which tears the lifecycle down, is only entered when a health    *)
(* snapshot reported a broken invariant: the history mismatches that       *)
(* evaluate_active and evaluate_recovery guard against cannot occur.       *)
(***************************************************************************)
ErrorOnlyFromInvariant ==
    [][machine.state # "ERROR" /\ machine'.state = "ERROR"
        => ~health'.internalInvariants]_vars

(***************************************************************************)
(* No replay: a snapshot is only ever replaced by a sample newer than      *)
(* every sample accepted since the source's confirmed generation changed,  *)
(* across lost endpoints, health changes, deactivation and reactivation.   *)
(***************************************************************************)
NoReplay ==
    [][\A s \in Sources :
        slots'[s].snap # slots[s].snap /\ slots'[s].snap # None
            => slots'[s].snap.seq > floor[s]]_vars

(***************************************************************************)
(* No flapping: a qualified active source is only replaced by one that was *)
(* the best candidate at every tick for at least SwitchHold.               *)
(***************************************************************************)
SwitchHeld ==
    [][arbiter'.active # arbiter.active /\ OutputTick
        /\ arbiter.active \in QualifiedNow
        => steady - notBest[arbiter'.active] >= SwitchHold]_vars

-----------------------------------------------------------------------------
(***************************************************************************)
(* The inductive strengthening the proofs rest on.                         *)
(***************************************************************************)
\* No evidence and no recovery count comes from a later health epoch.
EpochsInOrder ==
    /\ machine.epoch # None => machine.epoch <= healthEpoch
    /\ \A k \in Keys : pending[k].epoch <= healthEpoch

\* What the next tick would count for a key is covered by accepted samples.
EvidenceCovered ==
    active => \A k \in Keys :
        \/ streak[k] >= RecoveryValidSamples
        \/ RecoveryCount(machine, k, pending, healthEpoch) <= streak[k]

\* The sequence baseline never drops below what was accepted.
FloorIsBaseline == \A s \in Sources : floor[s] = slots[s].seq

\* The challenger was the best candidate at every tick since better_since.
ChallengerTimed ==
    /\ \A s \in Sources : notBest[s] <= steady
    /\ arbiter.challenger # None => notBest[arbiter.challenger] <= arbiter.since

IInv ==
    /\ TypeOK
    /\ NoInternalThrow
    /\ Agreement
    /\ EpochsInOrder
    /\ EvidenceCovered
    /\ FloorIsBaseline
    /\ ChallengerTimed
=============================================================================
