--------------------------- MODULE RollingCounter ---------------------------
(***************************************************************************)
(* The rolling counter of the CAN frames, in either direction.             *)
(***************************************************************************)
EXTENDS Naturals

CONSTANT
    Modulo           \* rolling_counter_modulo of the signal map

ASSUME ModuloAssumption == Modulo \in Nat \ {0, 1}

Counters == 0 .. Modulo - 1

Succ(counter) == (counter + 1) % Modulo

Pred(counter) == (counter + Modulo - 1) % Modulo
=============================================================================
