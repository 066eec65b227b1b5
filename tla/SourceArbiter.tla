--------------------------- MODULE SourceArbiter ---------------------------
(***************************************************************************)
(* Source arbitration: which of the latest valid snapshots drives the      *)
(* canonical output.  The arbiter is a value [active, challenger, since]   *)
(* and every operator here is a function of that value, of the snapshots   *)
(* held by the source slots and of the two clocks read by the output tick: *)
(* now_steady (leases, switch hold) and now_ros (age of the command).      *)
(***************************************************************************)
EXTENDS GatewayContract

ArbitrationEvents ==
    {"NoChange", "FirstSelection", "Switch", "Fallback", "NoQualifiedSource"}

Arbiters == [active : Sources \cup {None},
             challenger : Sources \cup {None},
             since : Nat]

NewArbiter == [active |-> None, challenger |-> None, since |-> 0]

(***************************************************************************)
(* Qualification.  A stamp ahead of now_ros counts as fresh: the arbiter   *)
(* waits for ROS time to catch up.                                         *)
(***************************************************************************)
CommandIsFresh(snap, ros) == ros - snap.stamp <= CommandTimeout

LeaseIsValid(s, snap, steady) == steady - snap.received <= Lease[s]

Qualified(snaps, steady, ros) ==
    {s \in Sources : /\ snaps[s] # None
                     /\ CommandIsFresh(snaps[s], ros)
                     /\ LeaseIsValid(s, snaps[s], steady)}

\* priority descending, then the younger command, then source_id ascending
CandidateIsBetter(snaps, s, t) ==
    \/ Priority[s] > Priority[t]
    \/ /\ Priority[s] = Priority[t]
       /\ \/ snaps[s].stamp > snaps[t].stamp
          \/ snaps[s].stamp = snaps[t].stamp /\ IdOrder[s] < IdOrder[t]

BestCandidate(snaps, Q) ==
    CHOOSE s \in Q : \A t \in Q \ {s} : CandidateIsBetter(snaps, s, t)

(***************************************************************************)
(* One evaluation.  A disqualified active source is replaced at once; a    *)
(* better source replaces a qualified active one only after it has been    *)
(* the best one at every evaluation for SwitchHold of steady time.         *)
(***************************************************************************)
Challenged(arb, snaps, Q) ==
    arb.active \in Q /\ BestCandidate(snaps, Q) # arb.active

\* Mutant of BetterSince: the time of the last challenger is taken over.
BetterSinceStored(arb, best, steady) == arb.since

BetterSince(arb, best, steady) ==
    IF arb.challenger = best THEN arb.since ELSE steady

HoldReached(arb, best, steady) ==
    steady - BetterSince(arb, best, steady) >= SwitchHold

\* Mutant of ArbitrationEvent: a fallback is reported as a first selection.
FallbackAsFirst(arb, snaps, Q, steady) ==
    IF Q = {}
    THEN IF arb.active = None THEN "NoChange" ELSE "NoQualifiedSource"
    ELSE IF arb.active \notin Q THEN "FirstSelection"
    ELSE IF /\ Challenged(arb, snaps, Q)
            /\ HoldReached(arb, BestCandidate(snaps, Q), steady)
         THEN "Switch"
         ELSE "NoChange"

ArbitrationEvent(arb, snaps, Q, steady) ==
    IF Q = {}
    THEN IF arb.active = None THEN "NoChange" ELSE "NoQualifiedSource"
    ELSE IF arb.active = None THEN "FirstSelection"
    ELSE IF arb.active \notin Q THEN "Fallback"
    ELSE IF /\ Challenged(arb, snaps, Q)
            /\ HoldReached(arb, BestCandidate(snaps, Q), steady)
         THEN "Switch"
         ELSE "NoChange"

\* Mutant of Selected: the challenger is returned before its hold is over.
SelectedEarly(arb, snaps, Q, steady) ==
    IF Q = {} THEN None ELSE BestCandidate(snaps, Q)

Selected(arb, snaps, Q, steady) ==
    IF Q = {} THEN None
    ELSE IF ArbitrationEvent(arb, snaps, Q, steady) = "NoChange"
         THEN arb.active
         ELSE BestCandidate(snaps, Q)

\* Is a challenger (still) waiting for its hold after this evaluation?
Waiting(arb, snaps, Q, steady) ==
    /\ ArbitrationEvent(arb, snaps, Q, steady) = "NoChange"
    /\ Challenged(arb, snaps, Q)

ArbiterAfter(arb, snaps, Q, steady) ==
    LET best == BestCandidate(snaps, Q) IN
    IF Waiting(arb, snaps, Q, steady)
    THEN [active |-> arb.active, challenger |-> best,
          since |-> BetterSince(arb, best, steady)]
    ELSE [active |-> Selected(arb, snaps, Q, steady),
          challenger |-> None, since |-> 0]

Arbitrate(arb, snaps, Q, steady) ==
    [event    |-> ArbitrationEvent(arb, snaps, Q, steady),
     selected |-> Selected(arb, snaps, Q, steady),
     arbiter  |-> ArbiterAfter(arb, snaps, Q, steady)]
=============================================================================
