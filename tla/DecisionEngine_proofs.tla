------------------------ MODULE DecisionEngine_proofs ------------------------
(***************************************************************************)
(* The decision engine keeps its inductive invariant, hence the safety and *)
(* action properties of DecisionEngine, for every contract: any sources,   *)
(* generations, priorities, timeouts, thresholds and bounds.               *)
(***************************************************************************)
EXTENDS DecisionEngine, FiniteSetTheorems, WellFoundedInduction, TLAPS

(***************************************************************************)
(* One arbitration, for every policy: a non-empty finite set of qualified  *)
(* sources has a best candidate, and what an evaluation may select, given  *)
(* the arbiter's active source.                                            *)
(***************************************************************************)
HasSnapshots(snaps, Q) == \A s \in Q : snaps[s] \in Snapshots

IsBest(snaps, s, Q) == \A t \in Q \ {s} : CandidateIsBetter(snaps, s, t)

(***************************************************************************)
(* candidate_is_better is a strict total order on sources that hold a      *)
(* snapshot, as std::sort requires of its comparison.                      *)
(***************************************************************************)
LEMMA BetterIsTotalOrder ==
    ASSUME NEW Q \in SUBSET Sources, NEW snaps, HasSnapshots(snaps, Q)
    PROVE  /\ \A s, t \in Q : s # t => \/ CandidateIsBetter(snaps, s, t)
                                       \/ CandidateIsBetter(snaps, t, s)
           /\ \A s \in Q : ~CandidateIsBetter(snaps, s, s)
           /\ \A s, t, u \in Q :
                 CandidateIsBetter(snaps, s, t) /\ CandidateIsBetter(snaps, t, u)
                 => CandidateIsBetter(snaps, s, u)
<1>1. \A s \in Q : snaps[s].stamp \in Nat
    BY DEF HasSnapshots, Snapshots
<1>2. \A s \in Q : Priority[s] \in Nat /\ IdOrder[s] \in Nat
    BY ContractAssumption
<1>3. \A s, t \in Q : IdOrder[s] = IdOrder[t] => s = t
    BY ContractAssumption
<1> QED BY <1>1, <1>2, <1>3 DEF CandidateIsBetter

(***************************************************************************)
(* A non-empty set of qualified sources has a best candidate: a smallest   *)
(* subset without one would have one after removing any element.           *)
(***************************************************************************)
LEMMA BestExists ==
    ASSUME NEW Q \in SUBSET Sources, Q # {}, NEW snaps, HasSnapshots(snaps, Q)
    PROVE  \E s \in Q : IsBest(snaps, s, Q)
<1> DEFINE Bad == {T \in SUBSET Q : T # {} /\ ~\E s \in T : IsBest(snaps, s, T)}
<1>1. IsFiniteSet(Q)
    BY ContractAssumption, FS_Subset
<1>2. IsWellFoundedOn(StrictSubsetOrdering(Q), SUBSET Q)
    BY <1>1, FS_StrictSubsetOrderingWellFounded, FS_FiniteSubsetsOfFinite
<1>3. SUFFICES ASSUME Bad # {} PROVE FALSE
    OBVIOUS
<1>4. PICK T \in Bad : \A U \in Bad : ~(<<U, T>> \in StrictSubsetOrdering(Q))
    <2>1. Bad \subseteq SUBSET Q
        OBVIOUS
    <2> HIDE DEF Bad
    <2> QED BY <1>2, <1>3, <2>1, WFMin
<1>5. PICK x \in T : TRUE
    OBVIOUS
<1> DEFINE U == T \ {x}
<1>6. U \notin Bad
    <2>1. U \in SUBSET Q /\ T \in SUBSET Q /\ U \subseteq T /\ U # T
        BY <1>5
    <2>2. <<U, T>> \in StrictSubsetOrdering(Q)
        BY <2>1 DEF StrictSubsetOrdering
    <2> QED BY <1>4, <2>2
<1>7. CASE U = {}
    <2>1. T = {x}
        BY <1>5, <1>7
    <2>2. IsBest(snaps, x, T)
        BY <2>1 DEF IsBest
    <2> QED BY <2>2, <1>5
<1>8. CASE U # {}
    <2>1. PICK s \in U : IsBest(snaps, s, U)
        BY <1>6, <1>8
    <2>2. HasSnapshots(snaps, T) /\ T \in SUBSET Sources /\ s \in T /\ s # x
        BY <2>1 DEF HasSnapshots
    <2>3. CASE CandidateIsBetter(snaps, s, x)
        <3>1. IsBest(snaps, s, T)
            BY <2>1, <2>3 DEF IsBest
        <3> QED BY <3>1, <2>2
    <2>4. CASE CandidateIsBetter(snaps, x, s)
        <3>1. \A t \in U : CandidateIsBetter(snaps, x, t)
            <4> SUFFICES ASSUME NEW t \in U PROVE CandidateIsBetter(snaps, x, t)
                OBVIOUS
            <4>1. t = s \/ CandidateIsBetter(snaps, s, t)
                BY <2>1 DEF IsBest
            <4> QED BY <4>1, <2>4, <2>2, <1>5, BetterIsTotalOrder
        <3>2. IsBest(snaps, x, T)
            BY <3>1 DEF IsBest
        <3> QED BY <3>2, <1>5
    <2> QED BY <2>2, <2>3, <2>4, <1>5, BetterIsTotalOrder
<1> QED BY <1>7, <1>8

LEMMA BestQualified ==
    ASSUME NEW Q \in SUBSET Sources, Q # {}, NEW snaps, HasSnapshots(snaps, Q)
    PROVE  /\ BestCandidate(snaps, Q) \in Q
           /\ IsBest(snaps, BestCandidate(snaps, Q), Q)
BY BestExists DEF BestCandidate, IsBest

(***************************************************************************)
(* The switch hold: a qualified active source is only replaced by the best *)
(* candidate after the hold, and a challenger that is remembered is the    *)
(* best candidate, with the time since which it has been.                  *)
(***************************************************************************)
LEMMA SwitchOutcome ==
    ASSUME NEW arb \in Arbiters, NEW Q \in SUBSET Sources, NEW snaps,
           NEW now \in Nat, arb.active \in Q,
           Arbitrate(arb, snaps, Q, now).arbiter.active # arb.active
    PROVE  LET best == BestCandidate(snaps, Q) IN
           /\ Arbitrate(arb, snaps, Q, now).arbiter.active = best
           /\ HoldReached(arb, best, now)
BY NoneAssumption DEF Arbitrate, Selected, ArbiterAfter, Waiting, ArbitrationEvent

LEMMA ChallengerOutcome ==
    ASSUME NEW arb \in Arbiters, NEW Q \in SUBSET Sources, NEW snaps,
           NEW now \in Nat,
           Arbitrate(arb, snaps, Q, now).arbiter.challenger # None
    PROVE  LET best == BestCandidate(snaps, Q) IN
           /\ Q # {}
           /\ Arbitrate(arb, snaps, Q, now).arbiter.challenger = best
           /\ Arbitrate(arb, snaps, Q, now).arbiter.since =
                  BetterSince(arb, best, now)
BY DEF Arbitrate, ArbiterAfter, Waiting, Challenged

(***************************************************************************)
(* One evaluation over the qualified sources: what is selected becomes the *)
(* active source and is qualified, nothing is selected only when nothing   *)
(* qualifies, without an active source the event is a first selection; and *)
(* a change of the active source is one to the best qualified source, away *)
(* from a source that still qualifies only after the switch hold.          *)
(***************************************************************************)
THEOREM ArbitrationSound ==
    ASSUME NEW arb \in Arbiters, NEW Q \in SUBSET Sources, NEW snaps,
           HasSnapshots(snaps, Q), NEW now \in Nat
    PROVE  LET outcome == Arbitrate(arb, snaps, Q, now) IN
           /\ outcome.event \in ArbitrationEvents
           /\ outcome.arbiter \in Arbiters
           /\ outcome.arbiter.active = outcome.selected
           /\ outcome.selected \in Q \cup {None}
           /\ outcome.selected = None <=> Q = {}
           /\ outcome.event = "NoQualifiedSource" => Q = {}
           /\ outcome.event = "FirstSelection" => arb.active = None
           /\ outcome.selected # arb.active /\ Q # {} =>
                 IsBest(snaps, outcome.selected, Q)
           /\ outcome.selected # arb.active /\ arb.active \in Q =>
                 HoldReached(arb, outcome.selected, now)
<1>1. Q # {} => /\ BestCandidate(snaps, Q) \in Q
                /\ IsBest(snaps, BestCandidate(snaps, Q), Q)
    BY BestQualified
<1>2. Q # {} => BestCandidate(snaps, Q) # None /\ None \notin Q
    BY <1>1, NoneAssumption
<1>3. arb.active \in Sources \cup {None} /\ arb.since \in Nat
    BY DEF Arbiters
<1>4. BetterSince(arb, BestCandidate(snaps, Q), now) \in Nat
    BY <1>3 DEF BetterSince
<1> DEFINE outcome == Arbitrate(arb, snaps, Q, now)
<1>5. CASE Q = {}
    BY <1>5, <1>3 DEF Arbitrate, Selected, ArbiterAfter, Waiting, ArbitrationEvent, ArbitrationEvents, Arbiters,
        Challenged
<1>6. CASE Q # {}
    <2>1. outcome.event \in ArbitrationEvents \ {"NoQualifiedSource"}
        BY <1>6 DEF Arbitrate, Selected, ArbiterAfter, Waiting, ArbitrationEvent, ArbitrationEvents
    <2>2. outcome.event = "FirstSelection" => arb.active = None
        BY <1>6 DEF Arbitrate, Selected, ArbiterAfter, Waiting, ArbitrationEvent
    <2>3. outcome.selected \in Q
        BY <1>6, <1>1, <1>2, <1>3 DEF Arbitrate, Selected, ArbiterAfter, Waiting, ArbitrationEvent
    <2>4. /\ outcome.arbiter.active = outcome.selected
          /\ outcome.arbiter \in Arbiters
        BY <1>6, <1>1, <1>2, <1>3, <1>4, <2>3
            DEF Arbitrate, Selected, ArbiterAfter, Waiting, ArbitrationEvent, Arbiters, Challenged
    <2>5. outcome.selected # arb.active =>
              outcome.selected = BestCandidate(snaps, Q)
        BY <1>6 DEF Arbitrate, Selected
    <2>6. outcome.selected # arb.active /\ arb.active \in Q =>
              HoldReached(arb, outcome.selected, now)
        BY <2>4, <2>5, SwitchOutcome
    <2> QED BY <2>1, <2>2, <2>3, <2>4, <2>5, <2>6, <1>1, <1>2, <1>6
<1> QED BY <1>5, <1>6

-----------------------------------------------------------------------------
(***************************************************************************)
(* Lemmas about the state machine.                                         *)
(***************************************************************************)
LEMMA SourceOfType ==
    ASSUME NEW key \in Keys \cup {None}
    PROVE  /\ SourceOf(key) \in Sources \cup {None}
           /\ SourceOf(key) = None <=> key = None
BY NoneAssumption DEF SourceOf, Keys

LEMMA CommitType ==
    ASSUME NEW sm \in Machines, NEW state \in DataStates,
           NEW reason \in StateReasons, NEW key \in Keys \cup {None}
    PROVE  /\ Commit(sm, state, reason, key) \in Machines
           /\ Commit(sm, state, reason, key).state = state
           /\ Commit(sm, state, reason, key).selected = SourceOf(key)
           /\ Commit(sm, state, reason, key).epoch = sm.epoch
BY SourceOfType DEF Commit, Machines

LEMMA AssessHealthType ==
    ASSUME NEW h \in Health
    PROVE  /\ AssessHealth(h).state \in
                  {"NONE", "ERROR", "SAFE_STOP", "DEGRADED"}
           /\ AssessHealth(h).reason \in StateReasons
           /\ AssessHealth(h).state = "NONE" => RecoveryHealthIsHealthy(h)
           /\ AssessHealth(h).state = "ERROR" => ~h.internalInvariants
BY DEF AssessHealth, Health, StateReasons, HealthReasons,
       RecoveryHealthIsHealthy

LEMMA EvidenceType ==
    ASSUME NEW p \in [Keys -> Tally], NEW k \in Keys, NEW accepted \in BOOLEAN,
           NEW epoch \in Nat
    PROVE  PushEvidence(p, k, accepted, epoch) \in [Keys -> Tally]
BY ContractAssumption DEF PushEvidence, TallyAfter, Tally, Grown

LEMMA NoEvidenceType == NoEvidence \in [Keys -> Tally]
BY DEF NoEvidence, Tally

LEMMA RecoveryCountType ==
    ASSUME NEW sm \in Machines, NEW key \in Keys, NEW p \in [Keys -> Tally],
           NEW epoch \in Nat
    PROVE  RecoveryCount(sm, key, p, epoch) \in Nat
<1>1. p[key].good \in Nat /\ sm.count \in Nat
    BY DEF Tally, Machines
<1> QED BY <1>1 DEF RecoveryCount, CountAfter

(***************************************************************************)
(* One decision of the state machine, on the outcome of an arbitration: it *)
(* follows the selected source, needs one and full health to be ACTIVE,    *)
(* enters ACTIVE only with a complete recovery count and ERROR only from   *)
(* health, and keeps no more recovery progress than it counted.            *)
(***************************************************************************)
DecisionHypotheses(sm, h, event, key, p, epoch) ==
    /\ sm \in Machines /\ h \in Health
    /\ event \in ArbitrationEvents
    /\ key \in Keys \cup {None}
    /\ p \in [Keys -> Tally] /\ epoch \in Nat
    /\ event = "NoQualifiedSource" => key = None
    /\ event = "FirstSelection" => sm.state # "ACTIVE"

LEMMA DecideSound ==
    ASSUME NEW sm, NEW h, NEW event, NEW key, NEW p, NEW epoch,
           DecisionHypotheses(sm, h, event, key, p, epoch)
    PROVE  LET d == Decide(sm, h, event, key, p, epoch) IN
           /\ d \in Machines
           /\ d.selected = SourceOf(key)
           /\ d.state \in {"ACTIVE", "RECOVERING"} => key # None
           /\ d.state = "ACTIVE" => RecoveryHealthIsHealthy(h)
           /\ d.state = "ACTIVE" /\ sm.state # "ACTIVE"
                => RecoveryCount(sm, key, p, epoch) >= RecoveryValidSamples
           /\ d.state = "ERROR" /\ sm.state # "ERROR" => ~h.internalInvariants
           /\ d.epoch \in {sm.epoch, epoch}
           /\ \/ d.candidate = None /\ d.count = 0 /\ d.state # "RECOVERING"
              \/ /\ d.candidate = key /\ key # None
                 /\ d.state = "RECOVERING" /\ d.epoch = epoch
                 /\ d.count < RecoveryValidSamples
                 /\ d.count = RecoveryCount(sm, key, p, epoch)
<1> DEFINE d == Decide(sm, h, event, key, p, epoch)
<1> USE DEF DecisionHypotheses
<1>1. CASE sm.state = "ERROR"
    <2>1. d = Commit(sm, "ERROR", sm.reason, key)
        BY <1>1 DEF Decide
    <2>2. sm.reason \in StateReasons /\ "ERROR" \in DataStates
        BY DEF Machines, DataStates
    <2>3. d.candidate = None /\ d.count = 0
        BY <2>1 DEF Commit, Machines
    <2> QED BY <2>1, <2>2, <2>3, <1>1, CommitType
<1>2. CASE sm.state # "ERROR" /\ SafetyGateCloses(sm, h, key)
    <2>1. d = SafetyGate(sm, h, key)
        BY <1>2 DEF Decide
    <2>2. PICK state \in {"ERROR", "SAFE_STOP", "DEGRADED", "STANDBY"},
               reason \in StateReasons :
               /\ d = Commit(sm, state, reason, key)
               /\ state = "ERROR" => AssessHealth(h).state = "ERROR"
        <3>1. sm.reason \in StateReasons
            BY DEF Machines
        <3>2. "NoQualifiedSource" \in StateReasons
            BY DEF StateReasons
        <3> QED BY <2>1, <3>1, <3>2, AssessHealthType DEF SafetyGate
    <2>3. state \in DataStates
        BY DEF DataStates
    <2>4. d.candidate = None /\ d.count = 0
        BY <2>2 DEF Commit, Machines
    <2> QED BY <2>2, <2>3, <2>4, CommitType, AssessHealthType
<1>3. CASE sm.state = "ACTIVE" /\ ~SafetyGateCloses(sm, h, key)
    <2>1. key # None /\ RecoveryHealthIsHealthy(h)
        BY <1>3, AssessHealthType DEF SafetyGateCloses
    <2>2. event \in {"NoChange", "Switch", "Fallback"}
        BY <2>1, <1>3 DEF ArbitrationEvents
    <2>3. PICK reason \in StateReasons : d = Commit(sm, "ACTIVE", reason, key)
        <3>1. d = EvaluateActive(sm, event, key)
            BY <1>3 DEF Decide
        <3>2. sm.reason \in StateReasons
            BY DEF Machines
        <3>3. {"SourceSwitch", "SourceFallback"} \subseteq StateReasons
            BY DEF StateReasons
        <3>4. CASE event = "NoChange"
            BY <3>1, <3>2, <3>4 DEF EvaluateActive
        <3>5. CASE event = "Switch"
            BY <3>1, <3>3, <3>5 DEF EvaluateActive
        <3>6. CASE event = "Fallback"
            BY <3>1, <3>3, <3>6 DEF EvaluateActive
        <3> QED BY <2>2, <3>4, <3>5, <3>6
    <2>4. "ACTIVE" \in DataStates
        BY DEF DataStates
    <2>5. d.candidate = None /\ d.count = 0
        BY <2>3 DEF Commit, Machines
    <2> QED BY <2>1, <2>3, <2>4, <2>5, <1>3, CommitType
<1>4. CASE sm.state \notin {"ERROR", "ACTIVE"} /\ ~SafetyGateCloses(sm, h, key)
    <2> DEFINE count == RecoveryCount(sm, key, p, epoch)
               tracked == [sm EXCEPT !.epoch = epoch, !.candidate = key,
                                     !.count = count]
    <2>1. key \in Keys /\ RecoveryHealthIsHealthy(h)
        BY <1>4, AssessHealthType DEF SafetyGateCloses
    <2>2. count \in Nat
        BY <2>1, RecoveryCountType
    <2>3. event \in {"NoChange", "FirstSelection", "Switch", "Fallback"}
        BY <2>1, NoneAssumption DEF ArbitrationEvents
    <2>4. tracked \in Machines /\ tracked.epoch = epoch
        BY <2>1, <2>2 DEF Machines
    <2>5. RecoveryReason(sm, event) \in StateReasons
        <3>1. sm.reason \in StateReasons
            BY DEF Machines
        <3>2. CASE event = "NoChange"
            BY <3>1, <3>2 DEF RecoveryReason
        <3>3. CASE event = "FirstSelection"
            BY <3>3 DEF RecoveryReason, StateReasons
        <3>4. CASE event = "Switch"
            BY <3>4 DEF RecoveryReason, StateReasons
        <3>5. CASE event = "Fallback"
            BY <3>5 DEF RecoveryReason, StateReasons
        <3> QED BY <2>3, <3>2, <3>3, <3>4, <3>5
    <2>6. d = EvaluateRecovery(sm, event, key, p, epoch)
        BY <1>4 DEF Decide
    <2>7. CASE count >= RecoveryValidSamples
        <3>1. d = Commit(tracked, "ACTIVE", "RecoveryComplete", key)
            BY <2>3, <2>6, <2>7 DEF EvaluateRecovery
        <3>2. "ACTIVE" \in DataStates /\ "RecoveryComplete" \in StateReasons
            BY DEF DataStates, StateReasons
        <3>3. d.candidate = None /\ d.count = 0
            BY <3>1, <2>4 DEF Commit, Machines
        <3> HIDE DEF tracked
        <3> QED BY <3>1, <3>2, <3>3, <2>1, <2>4, <2>7, NoneAssumption,
                   CommitType
    <2>8. CASE ~(count >= RecoveryValidSamples)
        <3>1. d = Commit(tracked, "RECOVERING", RecoveryReason(sm, event), key)
            BY <2>3, <2>6, <2>8 DEF EvaluateRecovery
        <3>2. "RECOVERING" \in DataStates
            BY DEF DataStates
        <3>3. tracked.candidate = key /\ tracked.count = count
            BY DEF Machines
        <3> HIDE DEF tracked
        <3>4. d.candidate = key /\ d.count = count
            BY <3>1, <3>3, <2>4 DEF Commit, Machines
        <3>5. count < RecoveryValidSamples
            BY <2>2, <2>8, ContractAssumption
        <3> QED BY <3>1, <3>2, <3>4, <3>5, <2>1, <2>4, <2>5, NoneAssumption,
                   CommitType
    <2> QED BY <2>7, <2>8
<1> QED BY <1>1, <1>2, <1>3, <1>4

-----------------------------------------------------------------------------
(***************************************************************************)
(* Lemmas about the recovery evidence.                                     *)
(***************************************************************************)
\* A tick without evidence counts what the machine carried over.
LEMMA CountWithoutEvidence ==
    ASSUME NEW sm \in Machines, NEW k \in Keys, NEW epoch \in Nat
    PROVE  RecoveryCount(sm, k, NoEvidence, epoch) =
               IF sm.epoch = epoch /\ sm.candidate = k THEN sm.count ELSE 0
<1>1. NoEvidence[k] = [epoch |-> 0, broken |-> FALSE, good |-> 0]
    BY DEF NoEvidence
<1>2. sm.count \in Nat
    BY DEF Machines
<1> QED BY <1>1, <1>2 DEF RecoveryCount, CountAfter

\* A sample adds at most one to the count of its key, a rejection zeroes it,
\* and the counts of the other keys stay.
LEMMA CountAfterSample ==
    ASSUME NEW sm \in Machines, NEW p \in [Keys -> Tally], NEW key \in Keys,
           NEW accepted \in BOOLEAN, NEW epoch \in Nat, NEW k \in Keys
    PROVE  LET q == PushEvidence(p, key, accepted, epoch) IN
           /\ k # key => RecoveryCount(sm, k, q, epoch) =
                         RecoveryCount(sm, k, p, epoch)
           /\ accepted => RecoveryCount(sm, key, q, epoch) <=
                          RecoveryCount(sm, key, p, epoch) + 1
           /\ ~accepted => RecoveryCount(sm, key, q, epoch) = 0
<1> DEFINE q == PushEvidence(p, key, accepted, epoch)
           base == IF sm.epoch = epoch /\ sm.candidate = key
                   THEN sm.count ELSE 0
<1>1. k # key => q[k] = p[k]
    BY DEF PushEvidence, TallyAfter
<1>2. base \in Nat /\ p[key].good \in Nat /\ p[key].broken \in BOOLEAN
    BY DEF Machines, Tally
<1>3. /\ q[key].epoch = epoch
      /\ q[key].broken = \/ p[key].epoch = epoch /\ p[key].broken
                         \/ ~accepted
      /\ q[key].good = IF ~accepted THEN 0
                       ELSE IF p[key].epoch = epoch THEN Grown(p[key].good)
                       ELSE Grown(0)
    BY DEF PushEvidence, TallyAfter
<1>4. RecoveryCount(sm, key, q, epoch) = CountAfter(base, q[key], epoch)
    BY DEF RecoveryCount
<1>5. RecoveryCount(sm, key, p, epoch) = CountAfter(base, p[key], epoch)
    BY DEF RecoveryCount
<1>6. k # key => RecoveryCount(sm, k, q, epoch) = RecoveryCount(sm, k, p, epoch)
    BY <1>1 DEF RecoveryCount
<1>7. Grown(0) <= 1 /\ Grown(0) \in Nat
    BY DEF Grown
<1>8. Grown(p[key].good) <= p[key].good + 1 /\ Grown(p[key].good) \in Nat
    BY <1>2 DEF Grown
<1> HIDE DEF base, q
<1>9. ~accepted => RecoveryCount(sm, key, q, epoch) = 0
    BY <1>3, <1>4 DEF CountAfter
<1>10. accepted => RecoveryCount(sm, key, q, epoch)
                       <= RecoveryCount(sm, key, p, epoch) + 1
    <2> SUFFICES ASSUME accepted
                 PROVE  CountAfter(base, q[key], epoch)
                            <= CountAfter(base, p[key], epoch) + 1
        BY <1>4, <1>5
    <2>1. CASE p[key].epoch = epoch
        BY <1>2, <1>3, <1>8, <2>1 DEF CountAfter
    <2>2. CASE p[key].epoch # epoch
        BY <1>2, <1>3, <1>7, <2>2 DEF CountAfter
    <2> QED BY <2>1, <2>2
<1> QED BY <1>6, <1>9, <1>10 DEF q

\* Replacing the health snapshot keeps the counts covered: either nothing
\* changes, or a new epoch has no evidence and no machine carries over to it.
LEMMA CoveredAfterHealth ==
    ASSUME TypeOK, EpochsInOrder, EvidenceCovered, active,
           NEW h \in Health, NEW k \in Keys
    PROVE  /\ EpochAfter(h) \in Nat /\ EpochAfter(h) >= healthEpoch
           /\ PendingAfter(h) \in [Keys -> Tally]
           /\ StreakAfter(h) \in [Keys -> Nat]
           /\ \/ StreakAfter(h)[k] >= RecoveryValidSamples
              \/ RecoveryCount(machine, k, PendingAfter(h), EpochAfter(h))
                    <= StreakAfter(h)[k]
<1>1. healthEpoch \in Nat /\ machine \in Machines
    BY DEF TypeOK
<1>2. CASE Flips(h)
    <2>1. /\ EpochAfter(h) = healthEpoch + 1
          /\ PendingAfter(h) = NoEvidence
          /\ StreakAfter(h) = NoStreak
        BY <1>2 DEF EpochAfter, PendingAfter, StreakAfter
    <2>2. machine.epoch # healthEpoch + 1
        BY <1>1, NoneAssumption DEF EpochsInOrder, Machines
    <2>3. RecoveryCount(machine, k, NoEvidence, healthEpoch + 1) = 0
        BY <1>1, <2>2, CountWithoutEvidence
    <2> QED BY <1>1, <2>1, <2>3, NoEvidenceType DEF NoStreak
<1>3. CASE ~Flips(h)
    BY <1>1, <1>3 DEF EpochAfter, PendingAfter, StreakAfter, EvidenceCovered,
        TypeOK
<1> QED BY <1>2, <1>3

-----------------------------------------------------------------------------
(***************************************************************************)
(* Lemmas about one output tick.                                           *)
(***************************************************************************)
LEMMA TickHealthType ==
    ASSUME TypeOK
    PROVE  /\ LateAfter \in Nat
           /\ TickHealth \in Health
<1>1. LateAfter \in Nat
    BY DEF LateAfter, TypeOK
<1>2. (LateAfter < LateTicksToSafeStop) \in BOOLEAN
    BY <1>1, ContractAssumption
<1>3. health \in Health
    BY DEF TypeOK
<1> QED BY <1>1, <1>2, <1>3 DEF TickHealth, Health

\* The arbitration of a tick, and the key of the source it selects.
LEMMA TickArbitration ==
    ASSUME TypeOK
    PROVE  /\ QualifiedNow \in SUBSET Sources
           /\ HasSnapshots(LatestValid, QualifiedNow)
           /\ Arbitration.event \in ArbitrationEvents
           /\ Arbitration.arbiter \in Arbiters
           /\ Arbitration.arbiter.active = Arbitration.selected
           /\ Arbitration.selected \in QualifiedNow \cup {None}
           /\ Arbitration.event = "NoQualifiedSource"
                => Arbitration.selected = None
           /\ Arbitration.event = "FirstSelection" => arbiter.active = None
           /\ KeyOf(Arbitration.selected) \in Keys \cup {None}
           /\ SourceOf(KeyOf(Arbitration.selected)) = Arbitration.selected
<1>1. QualifiedNow \in SUBSET Sources
    BY DEF QualifiedNow, Qualified
<1>2. \A s \in QualifiedNow : slots[s].snap \in Snapshots
    BY <1>1 DEF TypeOK, Slots, QualifiedNow, Qualified, LatestValid
<1>3. HasSnapshots(LatestValid, QualifiedNow)
    BY <1>1, <1>2 DEF HasSnapshots, LatestValid
<1>4. arbiter \in Arbiters /\ steady \in Nat
    BY DEF TypeOK
<1>5. /\ Arbitration.event \in ArbitrationEvents
      /\ Arbitration.arbiter \in Arbiters
      /\ Arbitration.arbiter.active = Arbitration.selected
      /\ Arbitration.selected \in QualifiedNow \cup {None}
      /\ Arbitration.event = "NoQualifiedSource"
           => Arbitration.selected = None
      /\ Arbitration.event = "FirstSelection" => arbiter.active = None
    BY <1>1, <1>3, <1>4, ArbitrationSound DEF Arbitration
<1>6. \A s \in QualifiedNow : s # None /\ KeyOf(s) \in Keys
                              /\ SourceOf(KeyOf(s)) = s
    <2> SUFFICES ASSUME NEW s \in QualifiedNow
                 PROVE  s # None /\ KeyOf(s) \in Keys /\ SourceOf(KeyOf(s)) = s
        OBVIOUS
    <2>1. s # None /\ s \in Sources
        BY <1>1, NoneAssumption
    <2>2. slots[s].snap.gen \in Generations
        BY <1>2 DEF Snapshots
    <2>3. KeyOf(s) = [source |-> s, gen |-> slots[s].snap.gen]
        BY <2>1 DEF KeyOf
    <2>4. KeyOf(s) \in Keys
        BY <2>1, <2>2, <2>3 DEF Keys
    <2> QED BY <2>1, <2>3, <2>4, NoneAssumption DEF SourceOf
<1>7. KeyOf(None) = None /\ SourceOf(None) = None
    BY DEF KeyOf, SourceOf
<1> QED BY <1>1, <1>3, <1>5, <1>6, <1>7

\* The decision of a tick satisfies the hypotheses of DecideSound.
LEMMA TickDecision ==
    ASSUME TypeOK, Agreement, EpochsInOrder, EvidenceCovered, active
    PROVE  DecisionHypotheses(machine, TickHealth, Arbitration.event,
               KeyOf(Arbitration.selected), PendingAfter(TickHealth),
               EpochAfter(TickHealth))
<1>1. machine \in Machines
    BY DEF TypeOK
<1>2. /\ PendingAfter(TickHealth) \in [Keys -> Tally]
      /\ EpochAfter(TickHealth) \in Nat
    BY NoEvidenceType DEF PendingAfter, EpochAfter, TypeOK
<1>3. Arbitration.event = "NoQualifiedSource"
          => KeyOf(Arbitration.selected) = None
    BY TickArbitration DEF KeyOf
<1>4. Arbitration.event = "FirstSelection" => machine.state # "ACTIVE"
    BY TickArbitration DEF Agreement
<1> QED BY <1>1, <1>2, <1>3, <1>4, TickHealthType, TickArbitration
        DEF DecisionHypotheses

-----------------------------------------------------------------------------
(***************************************************************************)
(* The inductive invariant: it holds initially and every action keeps it.  *)
(***************************************************************************)
LEMMA InitialEngine ==
    /\ NoSlots \in [Sources -> Slots]
    /\ NoEndpoints \in [Sources -> Generations \cup {None}]
    /\ InitialHealth \in Health
    /\ NewArbiter \in Arbiters /\ NewMachine \in Machines
    /\ NoCommand \in Canonicals
    /\ NoStreak \in [Keys -> Nat]
    /\ NoFloor \in [Sources -> Nat \cup {NoSequence}]
    /\ NoneBest \in [Sources -> Nat]
<1>1. NoSlots \in [Sources -> Slots]
    BY DEF NoSlots, EmptySlot, Slots
<1>2. InitialHealth \in Health
    BY DEF InitialHealth, Health
<1>3. NewArbiter \in Arbiters
    BY DEF NewArbiter, Arbiters
<1>4. NewMachine \in Machines
    BY DEF NewMachine, Machines, DataStates, StateReasons
<1>5. NoCommand \in Canonicals
    BY DEF NoCommand, Canonicals
<1> QED BY <1>1, <1>2, <1>3, <1>4, <1>5
        DEF NoEndpoints, NoStreak, NoFloor, NoneBest

LEMMA InitIInv == Init => IInv
<1> SUFFICES ASSUME Init PROVE IInv
    OBVIOUS
<1>1. TypeOK
    BY InitialEngine, NoEvidenceType DEF Init, TypeOK
<1>2. NoInternalThrow
    BY DEF Init, NoInternalThrow, SlotConsistent, NoSlots, EmptySlot,
        NoEndpoints
<1>3. Agreement
    BY DEF Init, Agreement, NewMachine, NewArbiter
<1>4. EpochsInOrder
    BY DEF Init, EpochsInOrder, NewMachine, NoEvidence
<1>5. EvidenceCovered
    BY DEF Init, EvidenceCovered
<1>6. FloorIsBaseline
    BY DEF Init, FloorIsBaseline, NoFloor, NoSlots, EmptySlot
<1>7. ChallengerTimed
    BY DEF Init, ChallengerTimed, NoneBest, NewArbiter
<1> QED BY <1>1, <1>2, <1>3, <1>4, <1>5, <1>6, <1>7 DEF IInv

LEMMA ConfigureKeeps == IInv /\ Configure => IInv'
<1> SUFFICES ASSUME IInv, Configure PROVE IInv'
    OBVIOUS
<1> USE DEF Configure
<1>1. TypeOK'
    BY InitialEngine, NoEvidenceType DEF IInv, TypeOK, clocks
<1>2. NoInternalThrow'
    BY DEF NoInternalThrow, SlotConsistent, NoSlots, EmptySlot, NoEndpoints
<1>3. Agreement'
    BY DEF Agreement, NewMachine, NewArbiter
<1>4. EpochsInOrder'
    BY DEF EpochsInOrder, NewMachine, NoEvidence
<1>5. EvidenceCovered'
    BY DEF EvidenceCovered
<1>6. FloorIsBaseline'
    BY DEF FloorIsBaseline, NoFloor, NoSlots, EmptySlot
<1>7. ChallengerTimed'
    BY DEF ChallengerTimed, NoneBest, NewArbiter, IInv, TypeOK, clocks
<1> QED BY <1>1, <1>2, <1>3, <1>4, <1>5, <1>6, <1>7 DEF IInv

LEMMA ActivateKeeps == IInv /\ Activate => IInv'
<1> SUFFICES ASSUME IInv, Activate PROVE IInv'
    OBVIOUS
<1> DEFINE h == [health EXCEPT !.outputTick = TRUE]
<1> USE DEF Activate, clocks
<1>1. h \in Health /\ EpochAfter(h) \in Nat
      /\ EpochAfter(h) >= healthEpoch /\ healthEpoch' = EpochAfter(h)
    <2>1. health \in Health /\ healthEpoch \in Nat
        BY DEF IInv, TypeOK
    <2>2. h \in Health
        BY <2>1 DEF Health
    <2> QED BY <2>1, <2>2 DEF EpochAfter
<1>2. TypeOK'
    BY <1>1, InitialEngine, NoEvidenceType
        DEF IInv, TypeOK, RecoveryHealthIsHealthy, Health
<1>3. NoInternalThrow'
    BY DEF IInv, NoInternalThrow, SlotConsistent
<1>4. Agreement'
    BY DEF Agreement, NewMachine, NewArbiter
<1>5. EpochsInOrder'
    BY <1>1 DEF EpochsInOrder, NewMachine, NoEvidence
<1>6. EvidenceCovered'
    <2> SUFFICES ASSUME NEW k \in Keys
                 PROVE  RecoveryCount(NewMachine, k, NoEvidence, healthEpoch')
                            <= NoStreak[k]
        BY DEF EvidenceCovered
    <2>1. NewMachine.epoch # healthEpoch'
        BY <1>1, NoneAssumption DEF NewMachine
    <2> QED BY <1>1, <2>1, InitialEngine, CountWithoutEvidence DEF NoStreak
<1>7. FloorIsBaseline'
    BY DEF IInv, FloorIsBaseline
<1>8. ChallengerTimed'
    BY DEF ChallengerTimed, NewArbiter, IInv, TypeOK
<1> QED BY <1>2, <1>3, <1>4, <1>5, <1>6, <1>7, <1>8 DEF IInv

\* Deactivate, LifecycleError and Cleanup touch nothing but the lifecycle
\* flags, the evidence and the tick supervision, and leave the engine inactive.
LEMMA TeardownKeeps ==
    IInv /\ (Deactivate \/ LifecycleError \/ Cleanup) => IInv'
<1> SUFFICES ASSUME IInv, Deactivate \/ LifecycleError \/ Cleanup PROVE IInv'
    OBVIOUS
<1> USE DEF Deactivate, LifecycleError, Cleanup, clocks, history
<1>1. /\ UNCHANGED <<slots, endpoints, health, recoveryHealthy, healthEpoch,
                     arbiter, machine, canonical, steady, ros, streak, floor,
                     notBest, revised>>
      /\ configured' \in BOOLEAN /\ active' = FALSE
      /\ pending' \in {pending, NoEvidence}
      /\ lastTick' \in {lastTick, None} /\ lateTicks' \in {lateTicks, 0}
    BY DEF IInv, TypeOK
<1> HIDE DEF Deactivate, LifecycleError, Cleanup
<1>2. TypeOK'
    <2>1. TypeOK
        BY DEF IInv
    <2>2. /\ pending' \in [Keys -> Tally]
          /\ lastTick' \in Nat \cup {None} /\ lateTicks' \in Nat
        BY <1>1, <2>1, NoEvidenceType DEF TypeOK
    <2>3. active' \in BOOLEAN
        BY <1>1
    <2> QED BY <1>1, <2>1, <2>2, <2>3 DEF TypeOK
<1>3. NoInternalThrow'
    BY <1>1 DEF IInv, NoInternalThrow, SlotConsistent
<1>4. Agreement'
    BY <1>1 DEF IInv, Agreement
<1>5. EpochsInOrder'
    BY <1>1 DEF IInv, TypeOK, EpochsInOrder, NoEvidence
<1>6. EvidenceCovered'
    BY <1>1 DEF EvidenceCovered
<1>7. FloorIsBaseline'
    BY <1>1 DEF IInv, FloorIsBaseline
<1>8. ChallengerTimed'
    BY <1>1 DEF IInv, ChallengerTimed
<1> QED BY <1>2, <1>3, <1>4, <1>5, <1>6, <1>7, <1>8 DEF IInv

LEMMA HealthEventKeeps ==
    ASSUME IInv, NEW input \in Health,
           NEW observed \in [Sources -> Generations \cup {None}],
           HealthEvent(input, observed)
    PROVE  IInv'
<1> DEFINE h == [input EXCEPT !.outputTick = health.outputTick]
<1>1. TypeOK
    BY DEF IInv
<1>2. h \in Health
    BY <1>1 DEF TypeOK, Health
<1>3. /\ health' = h
      /\ healthEpoch' = EpochAfter(h) /\ pending' = PendingAfter(h)
      /\ streak' = StreakAfter(h)
      /\ recoveryHealthy' = RecoveryHealthIsHealthy(h)
    BY DEF HealthEvent
<1> HIDE DEF h
<1>4. /\ slots' = [s \in Sources |-> SlotAfter(slots[s], observed[s])]
      /\ endpoints' = observed
      /\ floor' = [s \in Sources |->
                      IF observed[s] \in {None, slots[s].gen} THEN floor[s]
                      ELSE NoSequence]
      /\ revised' = TRUE
      /\ UNCHANGED <<configured, active, lastTick, lateTicks, arbiter, machine,
                     canonical, steady, ros, notBest>>
    BY DEF HealthEvent, clocks
<1>5. /\ EpochAfter(h) \in Nat /\ EpochAfter(h) >= healthEpoch
      /\ PendingAfter(h) \in [Keys -> Tally]
      /\ StreakAfter(h) \in [Keys -> Nat]
    BY <1>1, NoEvidenceType, InitialEngine
        DEF TypeOK, EpochAfter, PendingAfter, StreakAfter
<1>6. \A s \in Sources : slots[s] \in Slots /\ slots'[s] \in Slots
    BY <1>1, <1>4 DEF TypeOK, Slots, SlotAfter, InvalidateSnapshot,
        ConfirmGeneration, EmptySlot
<1>7. TypeOK'
    <2>1. RecoveryHealthIsHealthy(h) \in BOOLEAN
        BY <1>2 DEF RecoveryHealthIsHealthy, Health
    <2>2. slots' \in [Sources -> Slots]
        BY <1>4, <1>6
    <2>3. floor' \in [Sources -> Nat \cup {NoSequence}]
        BY <1>1, <1>4 DEF TypeOK
    <2> QED BY <1>1, <1>2, <1>3, <1>4, <1>5, <2>1, <2>2, <2>3 DEF TypeOK
<1>8. NoInternalThrow'
    <2> SUFFICES ASSUME NEW s \in Sources PROVE SlotConsistent(s)'
        BY DEF NoInternalThrow
    <2>1. SlotConsistent(s)
        BY DEF IInv, NoInternalThrow
    <2>2. /\ slots'[s] = SlotAfter(slots[s], observed[s])
          /\ endpoints'[s] = observed[s] /\ steady' = steady
        BY <1>4
    <2>3. CASE observed[s] = None
        BY <1>6, <2>1, <2>2, <2>3
            DEF SlotConsistent, SlotAfter, InvalidateSnapshot, Slots
    <2>4. CASE observed[s] # None /\ observed[s] = slots[s].gen
        <3>1. slots'[s] = slots[s]
            BY <2>2, <2>4 DEF SlotAfter, ConfirmGeneration
        <3>2. slots[s].snap # None =>
                  endpoints[s] = slots[s].snap.gen /\ endpoints[s] # None
            <4>1. slots[s].snap # None => slots[s].snap \in Snapshots
                BY <1>6 DEF Slots
            <4>2. slots[s].snap # None => slots[s].snap.gen \in Generations
                BY <4>1 DEF Snapshots
            <4> QED BY <4>2, <2>1, NoneAssumption DEF SlotConsistent
        <3> QED BY <2>1, <2>2, <2>4, <3>1, <3>2 DEF SlotConsistent
    <2>5. CASE observed[s] # None /\ observed[s] # slots[s].gen
        BY <2>2, <2>5 DEF SlotConsistent, SlotAfter, ConfirmGeneration,
            EmptySlot
    <2> QED BY <2>3, <2>4, <2>5
<1>9. Agreement'
    BY <1>4 DEF IInv, Agreement
<1>10. EpochsInOrder'
    <2>1. machine.epoch # None => machine.epoch \in Nat
        BY <1>1 DEF TypeOK, Machines
    <2>2. healthEpoch \in Nat
        BY <1>1 DEF TypeOK
    <2>3. \A k \in Keys : pending[k].epoch \in Nat
        BY <1>1 DEF TypeOK, Tally
    <2>4. \A k \in Keys : pending'[k].epoch \in {pending[k].epoch, 0}
        BY <1>3 DEF PendingAfter, NoEvidence
    <2> QED BY <1>3, <1>4, <1>5, <2>1, <2>2, <2>3, <2>4
            DEF IInv, EpochsInOrder
<1>11. EvidenceCovered'
    BY <1>1, <1>2, <1>3, <1>4, CoveredAfterHealth DEF IInv, EvidenceCovered
<1>12. FloorIsBaseline'
    <2> SUFFICES ASSUME NEW s \in Sources PROVE floor'[s] = slots'[s].seq
        BY DEF FloorIsBaseline
    <2>1. floor[s] = slots[s].seq
        BY DEF IInv, FloorIsBaseline
    <2> QED BY <1>4, <1>6, <2>1 DEF SlotAfter, InvalidateSnapshot,
            ConfirmGeneration, EmptySlot, Slots
<1>13. ChallengerTimed'
    BY <1>4 DEF IInv, ChallengerTimed
<1> QED BY <1>7, <1>8, <1>9, <1>10, <1>11, <1>12, <1>13 DEF IInv

\* An accepted sample is a snapshot newer than the source's baseline.
LEMMA AcceptedSample ==
    ASSUME TypeOK, NEW s \in Sources, NEW sample \in SampleInputs,
           Accepts(s, sample)
    PROVE  /\ SnapshotOf(sample) \in Snapshots
           /\ sample.seq \in Nat /\ sample.seq > slots[s].seq
           /\ endpoints[s] = sample.gen /\ sample.gen \in Generations
<1>1. /\ sample.gen \in Generations /\ sample.seq \in 1..MaxSequence
      /\ sample.stamp \in {ros + d : d \in StampOffsets}
    BY DEF SampleInputs
<1>2. sample.stamp \in Int /\ sample.seq \in Nat
    <2>1. ros \in Int /\ StampOffsets \subseteq Int
        BY InputAssumption DEF TypeOK
    <2>2. PICK d \in StampOffsets : sample.stamp = ros + d
        BY <1>1
    <2> QED BY <1>1, <2>1, <2>2, InputAssumption
<1>3. slots[s] \in Slots
    BY DEF TypeOK
<1>4. slots[s].seq \in Int
    BY <1>3 DEF Slots, NoSequence
<1>5. ~(sample.seq <= slots[s].seq) /\ ~(sample.stamp < 0)
    BY DEF Accepts, RejectReason
<1>6. sample.seq > slots[s].seq /\ sample.stamp \in Nat
    BY <1>2, <1>4, <1>5
<1>7. SnapshotOf(sample) \in Snapshots
    BY <1>1, <1>2, <1>6 DEF SnapshotOf, Snapshots, TypeOK
<1> QED BY <1>1, <1>2, <1>6, <1>7 DEF Accepts

LEMMA SourceSampleKeeps ==
    ASSUME IInv, NEW s \in Sources, NEW sample \in SampleInputs,
           SourceSample(s, sample)
    PROVE  IInv'
<1> DEFINE key == [source |-> s, gen |-> sample.gen]
           accepted == Accepts(s, sample)
<1>1. TypeOK
    BY DEF IInv
<1>2. key \in Keys /\ sample.gen \in Generations /\ accepted \in BOOLEAN
    BY DEF Keys, SampleInputs, Accepts
<1>3. /\ accepted => slots' = [slots EXCEPT ![s] = CommitResult(@, sample)]
      /\ ~accepted => slots' = slots
      /\ pending' = PushEvidence(pending, key, accepted, healthEpoch)
      /\ streak' = [streak EXCEPT ![key] = IF accepted THEN Grown(@) ELSE 0]
      /\ floor' = IF accepted /\ sample.seq > floor[s]
                  THEN [floor EXCEPT ![s] = sample.seq]
                  ELSE floor
      /\ active /\ active'
      /\ UNCHANGED <<configured, active, revised, endpoints, health,
                     recoveryHealthy, healthEpoch, lastTick, lateTicks,
                     arbiter, machine, canonical, steady, ros, notBest>>
    BY DEF SourceSample, clocks
<1>4. /\ accepted => /\ SnapshotOf(sample) \in Snapshots
                     /\ sample.seq \in Nat /\ sample.seq > slots[s].seq
                     /\ endpoints[s] = sample.gen
    BY <1>1, AcceptedSample
<1> HIDE DEF accepted, key
<1>5. \A t \in Sources : slots[t] \in Slots
    BY <1>1 DEF TypeOK
<1>6. slots' \in [Sources -> Slots]
    <2>1. accepted => CommitResult(slots[s], sample) \in Slots
        BY <1>4, <1>5 DEF CommitResult, Slots
    <2> QED BY <1>1, <1>3, <2>1 DEF TypeOK
<1>7. streak' \in [Keys -> Nat]
    BY <1>1, <1>2, <1>3 DEF TypeOK, Grown
<1>8. TypeOK'
    <2>1. healthEpoch \in Nat /\ pending \in [Keys -> Tally]
        BY <1>1 DEF TypeOK
    <2>2. pending' \in [Keys -> Tally]
        BY <1>2, <1>3, <2>1, EvidenceType
    <2>3. floor' \in [Sources -> Nat \cup {NoSequence}]
        BY <1>1, <1>3, <1>4 DEF TypeOK
    <2> QED BY <1>1, <1>3, <1>6, <1>7, <2>2, <2>3 DEF TypeOK
<1>9. NoInternalThrow'
    <2> SUFFICES ASSUME NEW t \in Sources PROVE SlotConsistent(t)'
        BY DEF NoInternalThrow
    <2>1. SlotConsistent(t)
        BY DEF IInv, NoInternalThrow
    <2>2. CASE accepted /\ t = s
        <3>1. /\ slots'[s].gen = slots[s].gen /\ slots'[s].seq = sample.seq
              /\ slots'[s].snap = SnapshotOf(sample)
            <4>1. slots'[s] = CommitResult(slots[s], sample)
                BY <1>1, <1>3, <2>2 DEF TypeOK
            <4> QED BY <1>5, <4>1 DEF Slots, CommitResult
        <3>2. /\ SnapshotOf(sample).gen = sample.gen
              /\ SnapshotOf(sample).seq = sample.seq
              /\ SnapshotOf(sample).received = steady
            BY DEF SnapshotOf
        <3>3. endpoints[s] = slots[s].gen /\ endpoints[s] # None
            BY <1>2, <1>4, <2>1, <2>2, NoneAssumption DEF SlotConsistent
        <3>4. steady \in Nat
            BY <1>1 DEF TypeOK
        <3> QED BY <1>3, <1>4, <2>2, <3>1, <3>2, <3>3, <3>4 DEF SlotConsistent
    <2>3. CASE ~(accepted /\ t = s)
        <3>1. slots'[t] = slots[t]
            BY <1>1, <1>3, <2>3 DEF TypeOK
        <3> QED BY <1>3, <2>1, <3>1 DEF SlotConsistent
    <2> QED BY <2>2, <2>3
<1>10. Agreement'
    BY <1>3 DEF IInv, Agreement
<1>11. EpochsInOrder'
    <2>1. \A k \in Keys : pending'[k].epoch \in {pending[k].epoch, healthEpoch}
        BY <1>1, <1>3 DEF TypeOK, PushEvidence, TallyAfter
    <2>2. healthEpoch \in Nat
        BY <1>1 DEF TypeOK
    <2> QED BY <1>3, <2>1, <2>2 DEF IInv, EpochsInOrder
<1>12. EvidenceCovered'
    <2> SUFFICES ASSUME NEW k \in Keys
                 PROVE  \/ streak'[k] >= RecoveryValidSamples
                        \/ RecoveryCount(machine, k, pending', healthEpoch)
                             <= streak'[k]
        BY <1>3 DEF EvidenceCovered
    <2> DEFINE before == RecoveryCount(machine, k, pending, healthEpoch)
               after == RecoveryCount(machine, k, pending', healthEpoch)
    <2>1. /\ machine \in Machines /\ pending \in [Keys -> Tally]
          /\ pending' \in [Keys -> Tally]
          /\ healthEpoch \in Nat /\ streak[k] \in Nat
        BY <1>1, <1>3, <1>8 DEF TypeOK
    <2>2. \/ streak[k] >= RecoveryValidSamples
          \/ before <= streak[k]
        BY <1>3 DEF IInv, EvidenceCovered
    <2>3. before \in Nat /\ after \in Nat
        BY <2>1, RecoveryCountType
    <2>4. /\ k # key => after = before
          /\ k = key /\ accepted => after <= before + 1
          /\ k = key /\ ~accepted => after = 0
        BY <1>2, <1>3, <2>1, CountAfterSample
    <2>5. streak'[k] = IF k # key THEN streak[k]
                       ELSE IF accepted THEN Grown(streak[k]) ELSE 0
        BY <1>1, <1>2, <1>3 DEF TypeOK
    <2> HIDE DEF before, after
    <2>6. \/ streak'[k] >= RecoveryValidSamples
          \/ after <= streak'[k]
        BY <2>1, <2>2, <2>3, <2>4, <2>5, ContractAssumption DEF Grown
    <2> QED BY <2>6 DEF after
<1>13. FloorIsBaseline'
    <2> SUFFICES ASSUME NEW t \in Sources PROVE floor'[t] = slots'[t].seq
        BY DEF FloorIsBaseline
    <2>1. floor[t] = slots[t].seq /\ floor[s] = slots[s].seq
        BY DEF IInv, FloorIsBaseline
    <2>2. slots \in [Sources -> Slots] /\ floor \in [Sources -> Int]
        BY <1>1 DEF TypeOK, NoSequence
    <2>3. CASE accepted
        BY <1>3, <1>4, <2>1, <2>2, <2>3 DEF Slots, CommitResult
    <2>4. CASE ~accepted
        BY <1>3, <2>1, <2>4
    <2> QED BY <2>3, <2>4
<1>14. ChallengerTimed'
    BY <1>3 DEF IInv, ChallengerTimed
<1> QED BY <1>8, <1>9, <1>10, <1>11, <1>12, <1>13, <1>14 DEF IInv

LEMMA OutputTickKeeps == IInv /\ OutputTick => IInv'
<1> SUFFICES ASSUME IInv, OutputTick PROVE IInv'
    OBVIOUS
<1> DEFINE h == TickHealth
           key == KeyOf(Arbitration.selected)
<1>1. TypeOK /\ Agreement /\ EpochsInOrder /\ EvidenceCovered
      /\ NoInternalThrow
    BY DEF IInv
<1>2. /\ active /\ active' /\ lastTick' = steady /\ lateTicks' = LateAfter
      /\ health' = h /\ healthEpoch' = EpochAfter(h)
      /\ recoveryHealthy' = RecoveryHealthIsHealthy(h)
      /\ pending' = NoEvidence /\ streak' = StreakAfter(h)
      /\ arbiter' = Arbitration.arbiter
      /\ machine' = Decide(machine, h, Arbitration.event, key,
                           PendingAfter(h), EpochAfter(h))
      /\ canonical' = CanonicalCommand(machine', Arbitration.selected)
      /\ notBest' = [s \in Sources |->
                        IF /\ QualifiedNow # {}
                           /\ s = BestCandidate(LatestValid, QualifiedNow)
                        THEN notBest[s] ELSE steady]
      /\ UNCHANGED <<configured, active, revised, slots, endpoints, steady,
                     ros, floor>>
    BY DEF OutputTick, clocks
<1>3. h \in Health /\ LateAfter \in Nat
    BY <1>1, TickHealthType
<1>4. key \in Keys \cup {None} /\ SourceOf(key) = Arbitration.selected
    BY <1>1, TickArbitration
<1>5. /\ EpochAfter(h) \in Nat /\ EpochAfter(h) >= healthEpoch
      /\ PendingAfter(h) \in [Keys -> Tally]
      /\ StreakAfter(h) \in [Keys -> Nat]
    BY <1>1, NoEvidenceType, InitialEngine
        DEF TypeOK, EpochAfter, PendingAfter, StreakAfter
<1>6. /\ machine' \in Machines
      /\ machine'.selected = SourceOf(key)
      /\ machine'.state \in {"ACTIVE", "RECOVERING"} => key # None
      /\ machine'.epoch \in {machine.epoch, EpochAfter(h)}
      /\ \/ machine'.candidate = None /\ machine'.count = 0
            /\ machine'.state # "RECOVERING"
         \/ /\ machine'.candidate = key /\ key # None
            /\ machine'.state = "RECOVERING" /\ machine'.epoch = EpochAfter(h)
            /\ machine'.count < RecoveryValidSamples
            /\ machine'.count = RecoveryCount(machine, key, PendingAfter(h),
                                              EpochAfter(h))
    BY <1>1, <1>2, TickDecision, DecideSound
<1> HIDE DEF h, key
<1>7. TypeOK'
    <2>1. canonical' \in Canonicals
        <3>1. CASE Arbitration.selected = None
            BY <1>2, <3>1, InitialEngine DEF CanonicalCommand
        <3>2. CASE Arbitration.selected # None
            <4>1. Arbitration.selected \in QualifiedNow
                  /\ QualifiedNow \subseteq Sources
                  /\ HasSnapshots(LatestValid, QualifiedNow)
                BY <1>1, <3>2, TickArbitration
            <4>2. slots[Arbitration.selected].snap \in Snapshots
                BY <4>1 DEF HasSnapshots, LatestValid
            <4>3. canonical' =
                      [motion |-> machine'.state = "ACTIVE"
                                  /\ slots[Arbitration.selected].snap.motion,
                       key |-> key,
                       seq |-> slots[Arbitration.selected].snap.seq]
                BY <1>2, <3>2 DEF CanonicalCommand, key
            <4>4. /\ slots[Arbitration.selected].snap.motion \in BOOLEAN
                  /\ slots[Arbitration.selected].snap.seq \in Nat
                BY <4>2 DEF Snapshots
            <4> QED BY <1>4, <4>3, <4>4 DEF Canonicals
        <3> QED BY <3>1, <3>2
    <2>2. notBest' \in [Sources -> Nat]
        BY <1>1, <1>2 DEF TypeOK
    <2>3. RecoveryHealthIsHealthy(h) \in BOOLEAN
        BY <1>3 DEF RecoveryHealthIsHealthy, Health
    <2>4. arbiter' \in Arbiters
        BY <1>1, <1>2, TickArbitration
    <2>5. NoEvidence \in [Keys -> Tally]
        BY NoEvidenceType
    <2>6. steady \in Nat
        BY <1>1 DEF TypeOK
    <2> QED BY <1>1, <1>2, <1>3, <1>5, <1>6, <2>1, <2>2, <2>3, <2>4, <2>5,
               <2>6 DEF TypeOK
<1>8. NoInternalThrow'
    BY <1>1, <1>2 DEF NoInternalThrow, SlotConsistent
<1>9. Agreement'
    BY <1>1, <1>2, <1>4, <1>6, TickArbitration, SourceOfType DEF Agreement
<1>10. EpochsInOrder'
    <2>1. machine.epoch # None => machine.epoch \in Nat
        BY <1>1 DEF TypeOK, Machines
    <2>2. healthEpoch \in Nat
        BY <1>1 DEF TypeOK
    <2>3. \A k \in Keys : pending'[k].epoch = 0
        BY <1>2 DEF NoEvidence
    <2> QED BY <1>1, <1>2, <1>5, <1>6, <2>1, <2>2, <2>3 DEF EpochsInOrder
<1>11. EvidenceCovered'
    <2> SUFFICES ASSUME NEW k \in Keys
                 PROVE  \/ streak'[k] >= RecoveryValidSamples
                        \/ RecoveryCount(machine', k, NoEvidence, EpochAfter(h))
                             <= streak'[k]
        BY <1>2 DEF EvidenceCovered
    <2>1. RecoveryCount(machine', k, NoEvidence, EpochAfter(h)) =
              IF machine'.epoch = EpochAfter(h) /\ machine'.candidate = k
              THEN machine'.count ELSE 0
        BY <1>5, <1>6, CountWithoutEvidence
    <2>2. \/ StreakAfter(h)[k] >= RecoveryValidSamples
          \/ RecoveryCount(machine, k, PendingAfter(h), EpochAfter(h))
                <= StreakAfter(h)[k]
        BY <1>1, <1>2, <1>3, CoveredAfterHealth
    <2>3. StreakAfter(h)[k] >= 0
        BY <1>5
    <2> QED BY <1>2, <1>6, <2>1, <2>2, <2>3, NoneAssumption
<1>12. FloorIsBaseline'
    BY <1>2 DEF IInv, FloorIsBaseline
<1>13. ChallengerTimed'
    <2>1. steady \in Nat /\ arbiter \in Arbiters /\ notBest \in [Sources -> Nat]
        BY <1>1 DEF TypeOK
    <2>2. /\ \A s \in Sources : notBest[s] <= steady
          /\ arbiter.challenger # None
               => notBest[arbiter.challenger] <= arbiter.since
        BY DEF IInv, ChallengerTimed
    <2>3. \A s \in Sources : notBest'[s] <= steady
        BY <1>2, <2>1, <2>2
    <2>4. ASSUME arbiter'.challenger # None
          PROVE  notBest'[arbiter'.challenger] <= arbiter'.since
        <3> DEFINE best == BestCandidate(LatestValid, QualifiedNow)
        <3>1. QualifiedNow \in SUBSET Sources
              /\ HasSnapshots(LatestValid, QualifiedNow)
            BY <1>1, TickArbitration
        <3>2. /\ QualifiedNow # {} /\ arbiter'.challenger = best
              /\ arbiter'.since = BetterSince(arbiter, best, steady)
            BY <1>2, <2>1, <2>4, <3>1, ChallengerOutcome DEF Arbitration
        <3>3. best \in Sources
            BY <3>1, <3>2, BestQualified
        <3>4. notBest'[best] = notBest[best]
            BY <1>2, <3>2, <3>3
        <3> HIDE DEF best
        <3>5. CASE arbiter.challenger = best
            BY <2>2, <3>2, <3>3, <3>4, <3>5, NoneAssumption DEF BetterSince
        <3>6. CASE arbiter.challenger # best
            BY <2>2, <3>2, <3>3, <3>4, <3>6 DEF BetterSince
        <3> QED BY <3>5, <3>6
    <2> QED BY <1>2, <2>3, <2>4 DEF ChallengerTimed
<1> QED BY <1>7, <1>8, <1>9, <1>10, <1>11, <1>12, <1>13 DEF IInv

LEMMA PassTimeKeeps ==
    ASSUME IInv, NEW rate \in RosRates, PassTime(rate)
    PROVE  IInv'
<1>1. /\ UNCHANGED <<configured, active, revised, slots, endpoints, health,
                     recoveryHealthy, healthEpoch, pending, lastTick,
                     lateTicks, arbiter, machine, canonical, streak, floor,
                     notBest>>
      /\ steady' = steady + 1 /\ ros' = ros + rate
      /\ ros + rate \in 0..MaxTime
    BY DEF PassTime, engine, history
<1>2. TypeOK /\ steady \in Nat
    BY DEF IInv, TypeOK
<1>3. steady' \in Nat /\ ros' \in Nat
    BY <1>1, <1>2, InputAssumption
<1>4. TypeOK'
    BY <1>1, <1>2, <1>3 DEF TypeOK
<1>5. NoInternalThrow'
    <2> SUFFICES ASSUME NEW s \in Sources PROVE SlotConsistent(s)'
        BY DEF NoInternalThrow
    <2>1. SlotConsistent(s)
        BY DEF IInv, NoInternalThrow
    <2>2. slots[s].snap # None => slots[s].snap.received \in Nat
        <3>1. slots[s] \in Slots
            BY <1>2 DEF TypeOK
        <3>2. slots[s].snap # None => slots[s].snap \in Snapshots
            BY <3>1 DEF Slots
        <3> QED BY <3>2 DEF Snapshots
    <2> QED BY <1>1, <1>2, <2>1, <2>2 DEF SlotConsistent
<1>6. Agreement'
    BY <1>1 DEF IInv, Agreement
<1>7. EpochsInOrder'
    BY <1>1 DEF IInv, EpochsInOrder
<1>8. EvidenceCovered'
    BY <1>1 DEF IInv, EvidenceCovered
<1>9. FloorIsBaseline'
    BY <1>1 DEF IInv, FloorIsBaseline
<1>10. ChallengerTimed'
    <2>1. \A s \in Sources : notBest[s] \in Nat
        BY <1>2 DEF TypeOK
    <2> QED BY <1>1, <1>2, <2>1 DEF IInv, ChallengerTimed
<1> QED BY <1>4, <1>5, <1>6, <1>7, <1>8, <1>9, <1>10 DEF IInv

LEMMA StepKeepsIInv == IInv /\ [Next]_vars => IInv'
<1> SUFFICES ASSUME IInv, [Next]_vars PROVE IInv'
    OBVIOUS
<1>1. CASE LifecycleEvent
    BY <1>1, ConfigureKeeps, ActivateKeeps, TeardownKeeps DEF LifecycleEvent
<1>2. ASSUME NEW h \in HealthInputs,
             NEW observed \in [Sources -> Generations \cup {None}],
             HealthEvent(h, observed)
      PROVE  IInv'
    BY <1>2, InputAssumption, HealthEventKeeps
<1>3. ASSUME NEW s \in Sources, NEW sample \in SampleInputs,
             SourceSample(s, sample)
      PROVE  IInv'
    BY <1>3, SourceSampleKeeps
<1>4. CASE OutputTick
    BY <1>4, OutputTickKeeps
<1>5. ASSUME NEW rate \in RosRates, PassTime(rate)
      PROVE  IInv'
    BY <1>5, PassTimeKeeps
<1>6. CASE UNCHANGED vars
    BY <1>6 DEF vars, engine, clocks, history, IInv, TypeOK, NoInternalThrow,
        SlotConsistent, Agreement, EpochsInOrder, EvidenceCovered,
        FloorIsBaseline, ChallengerTimed, RecoveryCount
<1> QED BY <1>1, <1>2, <1>3, <1>4, <1>5, <1>6 DEF Next

(***************************************************************************)
(* The inductive invariant is an invariant.                                *)
(***************************************************************************)
THEOREM IInvInvariant == Spec => []IInv
BY InitIInv, StepKeepsIInv, PTL DEF Spec

(***************************************************************************)
(* Every variable of the engine keeps its type.                            *)
(***************************************************************************)
THEOREM TypeCorrect == Spec => []TypeOK
<1>1. IInv => TypeOK
    BY DEF IInv
<1> QED BY <1>1, IInvInvariant, PTL

(***************************************************************************)
(* The consistency checks of apply_source_sample, of the snapshot          *)
(* collection and of commit_validation_result never throw.                 *)
(***************************************************************************)
THEOREM NoInternalThrowHolds == Spec => []NoInternalThrow
<1>1. IInv => NoInternalThrow
    BY DEF IInv
<1> QED BY <1>1, IInvInvariant, PTL

(***************************************************************************)
(* SourceArbiter and GatewayStateMachine always agree on the selection.    *)
(***************************************************************************)
THEOREM AgreementHolds == Spec => []Agreement
<1>1. IInv => Agreement
    BY DEF IInv
<1> QED BY <1>1, IInvInvariant, PTL

-----------------------------------------------------------------------------
(***************************************************************************)
(* The action properties.  Only an output tick and an activation touch the *)
(* state machine.                                                          *)
(***************************************************************************)
LEMMA MachineSteps ==
    ASSUME [Next]_vars
    PROVE  OutputTick \/ machine' = machine \/ machine' = NewMachine
BY DEF Next, LifecycleEvent, Configure, Activate, Deactivate, LifecycleError,
    Cleanup, HealthEvent, SourceSample, PassTime, vars, engine

\* What DecideSound says of the decision of a tick.
LEMMA TickMachine ==
    ASSUME IInv, OutputTick
    PROVE  LET key == KeyOf(Arbitration.selected) IN
           /\ health' = TickHealth /\ TickHealth \in Health
           /\ canonical' = CanonicalCommand(machine', Arbitration.selected)
           /\ machine'.state \in {"ACTIVE", "RECOVERING"} => key # None
           /\ machine'.state = "ACTIVE" => RecoveryHealthIsHealthy(health')
           /\ machine'.state = "ACTIVE" /\ machine.state # "ACTIVE" =>
                RecoveryCount(machine, key, PendingAfter(TickHealth),
                              EpochAfter(TickHealth)) >= RecoveryValidSamples
           /\ machine'.state = "ERROR" /\ machine.state # "ERROR"
                => ~health'.internalInvariants
<1>1. /\ active
      /\ machine' = Decide(machine, TickHealth, Arbitration.event,
                           KeyOf(Arbitration.selected),
                           PendingAfter(TickHealth), EpochAfter(TickHealth))
      /\ health' = TickHealth
      /\ canonical' = CanonicalCommand(machine', Arbitration.selected)
    BY DEF OutputTick
<1>2. TypeOK /\ Agreement /\ EpochsInOrder /\ EvidenceCovered
    BY DEF IInv
<1>3. TickHealth \in Health
    BY <1>2, TickHealthType
<1> QED BY <1>1, <1>2, <1>3, TickDecision, DecideSound

(***************************************************************************)
(* Control authority is only gained by proof (GatewayStateMachine's        *)
(* evaluate_recovery with the evidence apply_source_sample records).       *)
(***************************************************************************)
THEOREM RecoveryProvenHolds == Spec => RecoveryProven
<1>1. ASSUME IInv, [Next]_vars,
             machine.state # "ACTIVE", machine'.state = "ACTIVE"
      PROVE  streak'[canonical'.key] >= RecoveryValidSamples
    <2> DEFINE key == KeyOf(Arbitration.selected)
               count == RecoveryCount(machine, key, PendingAfter(TickHealth),
                                      EpochAfter(TickHealth))
    <2>1. OutputTick
        BY <1>1, MachineSteps DEF NewMachine
    <2>2. TypeOK /\ EpochsInOrder /\ EvidenceCovered /\ active
          /\ streak' = StreakAfter(TickHealth)
        BY <1>1, <2>1 DEF IInv, OutputTick
    <2>3. key # None /\ count >= RecoveryValidSamples
        BY <1>1, <2>1, TickMachine
    <2>4. TickHealth \in Health /\ key \in Keys
        BY <2>2, <2>3, TickHealthType, TickArbitration
    <2>5. canonical'.key = key
        <3>1. Arbitration.selected # None
            BY <2>3 DEF KeyOf
        <3> QED BY <1>1, <2>1, <3>1, TickMachine DEF CanonicalCommand
    <2> HIDE DEF key
    <2>6. /\ streak'[key] \in Nat
          /\ PendingAfter(TickHealth) \in [Keys -> Tally]
          /\ EpochAfter(TickHealth) \in Nat
          /\ \/ streak'[key] >= RecoveryValidSamples
             \/ count <= streak'[key]
        BY <2>2, <2>4, CoveredAfterHealth
    <2>7. count \in Nat
        BY <2>2, <2>4, <2>6, RecoveryCountType DEF TypeOK
    <2> QED BY <2>3, <2>5, <2>6, <2>7, ContractAssumption
<1> QED BY <1>1, IInvInvariant, PTL DEF Spec, RecoveryProven

(***************************************************************************)
(* Motion is only output in full health, for a command that is still       *)
(* usable (run_output_tick, make_canonical_command).                       *)
(***************************************************************************)
THEOREM MotionAuthorizedHolds == Spec => MotionAuthorized
<1>1. ASSUME IInv, OutputTick, canonical'.motion
      PROVE  LET s == canonical'.key.source IN
             /\ machine'.state = "ACTIVE"
             /\ RecoveryHealthIsHealthy(health')
             /\ endpoints[s] = canonical'.key.gen
             /\ slots[s].seq = canonical'.seq
             /\ CommandIsFresh(slots[s].snap, ros)
             /\ LeaseIsValid(s, slots[s].snap, steady)
    <2> DEFINE s == Arbitration.selected
    <2>1. TypeOK
        BY <1>1 DEF IInv
    <2>2. canonical' = CanonicalCommand(machine', s)
        BY <1>1 DEF OutputTick
    <2>3. s # None
        BY <1>1, <2>2 DEF CanonicalCommand, NoCommand
    <2>4. /\ canonical'.key = [source |-> s, gen |-> slots[s].snap.gen]
          /\ canonical'.seq = slots[s].snap.seq
          /\ machine'.state = "ACTIVE"
        BY <1>1, <2>2, <2>3 DEF CanonicalCommand, KeyOf
    <2>5. s \in QualifiedNow
        BY <2>1, <2>3, TickArbitration
    <2>6. /\ s \in Sources /\ slots[s].snap # None
          /\ CommandIsFresh(slots[s].snap, ros)
          /\ LeaseIsValid(s, slots[s].snap, steady)
        BY <2>5 DEF QualifiedNow, Qualified, LatestValid
    <2>7. endpoints[s] = slots[s].snap.gen /\ slots[s].snap.seq = slots[s].seq
        BY <1>1, <2>6 DEF IInv, NoInternalThrow, SlotConsistent
    <2>8. RecoveryHealthIsHealthy(health')
        BY <1>1, <2>4, TickMachine
    <2> HIDE DEF s
    <2> QED BY <2>4, <2>6, <2>7, <2>8
<1> QED BY <1>1, IInvInvariant, PTL DEF Spec, MotionAuthorized

(***************************************************************************)
(* ERROR, and with it the lifecycle error, only follows a broken invariant *)
(* reported by a health snapshot.                                          *)
(***************************************************************************)
THEOREM ErrorOnlyFromInvariantHolds == Spec => ErrorOnlyFromInvariant
<1>1. ASSUME IInv, [Next]_vars,
             machine.state # "ERROR", machine'.state = "ERROR"
      PROVE  ~health'.internalInvariants
    <2>1. OutputTick
        BY <1>1, MachineSteps DEF NewMachine
    <2> QED BY <1>1, <2>1, TickMachine
<1> QED BY <1>1, IInvInvariant, PTL DEF Spec, ErrorOnlyFromInvariant

(***************************************************************************)
(* No replay (the sequence baseline of SourceRuntimeSlot).                 *)
(***************************************************************************)
THEOREM NoReplayHolds == Spec => NoReplay
<1>1. ASSUME IInv, [Next]_vars, NEW s \in Sources,
             slots'[s].snap # slots[s].snap, slots'[s].snap # None
      PROVE  slots'[s].snap.seq > floor[s]
    <2>1. TypeOK /\ FloorIsBaseline
        BY <1>1 DEF IInv
    <2>2. ASSUME NEW t \in Sources, NEW sample \in SampleInputs,
                 SourceSample(t, sample)
          PROVE  slots'[s].snap.seq > floor[s]
        <3>1. Accepts(t, sample)
            BY <1>1, <2>2 DEF SourceSample
        <3>2. slots' = [slots EXCEPT ![t] = CommitResult(@, sample)]
            BY <2>2, <3>1 DEF SourceSample
        <3>3. s = t /\ slots'[s] = CommitResult(slots[s], sample)
            BY <1>1, <2>1, <3>2 DEF TypeOK
        <3>4. slots[s] \in Slots
            BY <2>1 DEF TypeOK
        <3>5. slots'[s].snap = SnapshotOf(sample)
            BY <3>3, <3>4 DEF CommitResult, Slots
        <3>6. slots'[s].snap.seq = sample.seq
            BY <3>5 DEF SnapshotOf
        <3> QED BY <2>1, <3>1, <3>3, <3>6, AcceptedSample DEF FloorIsBaseline
    <2>3. ASSUME NEW h \in HealthInputs,
                 NEW observed \in [Sources -> Generations \cup {None}],
                 HealthEvent(h, observed)
          PROVE  FALSE
        <3>1. slots'[s] = SlotAfter(slots[s], observed[s])
            BY <2>3 DEF HealthEvent
        <3>2. slots[s] \in Slots
            BY <2>1 DEF TypeOK
        <3> QED BY <1>1, <3>1, <3>2 DEF SlotAfter, InvalidateSnapshot,
                ConfirmGeneration, EmptySlot, Slots
    <2>4. CASE Configure
        BY <1>1, <2>4 DEF Configure, NoSlots, EmptySlot
    <2>5. CASE Activate \/ Deactivate \/ LifecycleError \/ Cleanup
               \/ OutputTick \/ UNCHANGED vars
               \/ \E rate \in RosRates : PassTime(rate)
        BY <1>1, <2>5 DEF Activate, Deactivate, LifecycleError, Cleanup,
            OutputTick, PassTime, vars, engine
    <2> QED BY <1>1, <2>2, <2>3, <2>4, <2>5 DEF Next, LifecycleEvent
<1>2. ASSUME IInv, [Next]_vars
      PROVE  \A s \in Sources :
                slots'[s].snap # slots[s].snap /\ slots'[s].snap # None
                    => slots'[s].snap.seq > floor[s]
    BY <1>1, <1>2
<1> QED BY <1>2, IInvInvariant, PTL DEF Spec, NoReplay

(***************************************************************************)
(* No flapping (the switch hold of SourceArbiter::evaluate).               *)
(***************************************************************************)
THEOREM SwitchHeldHolds == Spec => SwitchHeld
<1>1. ASSUME IInv, OutputTick, arbiter'.active # arbiter.active,
             arbiter.active \in QualifiedNow
      PROVE  steady - notBest[arbiter'.active] >= SwitchHold
    <2> DEFINE best == BestCandidate(LatestValid, QualifiedNow)
    <2>1. /\ TypeOK /\ steady \in Nat /\ arbiter \in Arbiters
          /\ notBest \in [Sources -> Nat]
        BY <1>1 DEF IInv, TypeOK
    <2>2. QualifiedNow \in SUBSET Sources
          /\ HasSnapshots(LatestValid, QualifiedNow)
        BY <2>1, TickArbitration
    <2>3. arbiter' = Arbitration.arbiter
        BY <1>1 DEF OutputTick
    <2>4. arbiter'.active = best /\ HoldReached(arbiter, best, steady)
        BY <1>1, <2>1, <2>2, <2>3, SwitchOutcome DEF Arbitration
    <2>5. best \in Sources
        BY <1>1, <2>2, BestQualified
    <2> HIDE DEF best
    <2>6. notBest[best] <= BetterSince(arbiter, best, steady)
        BY <1>1, <2>5, NoneAssumption DEF IInv, ChallengerTimed, BetterSince
    <2>7. BetterSince(arbiter, best, steady) \in Nat /\ notBest[best] \in Nat
        BY <2>1, <2>5 DEF BetterSince, Arbiters
    <2> QED BY <2>1, <2>4, <2>6, <2>7, ContractAssumption DEF HoldReached
<1> QED BY <1>1, IInvInvariant, PTL DEF Spec, SwitchHeld
=============================================================================
