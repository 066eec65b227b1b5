-------------------------- MODULE MCDecisionEngine --------------------------
(***************************************************************************)
(* The instance that MCDecisionEngine.cfg checks: two sources of different *)
(* priority, a health fault that is recovered from and one that is not.    *)
(***************************************************************************)
EXTENDS DecisionEngine

CONSTANTS a, b, g1

Healthy ==
    [internalInvariants |-> TRUE, outputTick |-> TRUE,
     criticalEndpoints |-> TRUE, rosClock |-> TRUE,
     vehicleValid |-> TRUE, vehicleFresh |-> TRUE,
     vehicleFault |-> FALSE, vehicleSafeStop |-> FALSE,
     criticalQos |-> TRUE]

QosMismatch == [Healthy EXCEPT !.criticalQos = FALSE]
BrokenInvariant == [Healthy EXCEPT !.internalInvariants = FALSE]

TwoSources == {a, b}
OneGeneration == {g1}

TwoPriorities == [s \in Sources |-> IF s = a THEN 2 ELSE 1]
Ids == [s \in Sources |-> IF s = a THEN 1 ELSE 2]
LeaseTwo == [s \in Sources |-> 2]

FaultyHealth == {Healthy, QosMismatch, BrokenInvariant}
GoodOrBad == {"Motion", "Malformed"}

OnTime == {0}
Nominal == {1}
=============================================================================
