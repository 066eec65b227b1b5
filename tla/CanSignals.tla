----------------------------- MODULE CanSignals -----------------------------
(***************************************************************************)
(* The CAN signal map and the codec that adapter and simulator build from  *)
(* it.  The rules of protocol v1 are fixed: a map may only choose the two  *)
(* identifiers and how physical values are quantized.  A physical value is *)
(* an integer of a unit that every scale is a multiple of.                 *)
(***************************************************************************)
EXTENDS Integers, Sequences

V1Crc ==
    [algorithm |-> "crc8_sae_j1850", polynomial |-> 29, initial |-> 255,
     finalXor |-> 255, reflectInput |-> FALSE, reflectOutput |-> FALSE,
     includeCanId |-> TRUE, protected |-> <<0, 1, 2, 3, 4, 5, 6>>]

V1Counter ==
    [bits |-> 4, modulo |-> 16, acceptFirst |-> TRUE,
     duplicateIsError |-> TRUE, jumpIsError |-> TRUE]

\* Where a signal is: its byte, its first bit there and its bits.
V1ControlLayout ==
    [speed |-> <<0, 0, 16>>, yaw |-> <<2, 0, 16>>, mode |-> <<4, 0, 8>>,
     counter |-> <<5, 0, 4>>, reservedCounter |-> <<5, 4, 4>>,
     valid |-> <<6, 0, 1>>, reservedFlags |-> <<6, 1, 7>>, crc |-> <<7, 0, 8>>]

V1StateLayout ==
    [speed |-> <<0, 0, 16>>, yaw |-> <<2, 0, 16>>, mode |-> <<4, 0, 8>>,
     fault |-> <<5, 0, 8>>, counter |-> <<6, 0, 4>>, echoed |-> <<6, 4, 4>>,
     crc |-> <<7, 0, 8>>]

\* What must be rejected.
V1Validation == {"wrong_dlc", "extended_frame", "remote_frame",
                 "nonzero_reserved_bits"}

V1Modes == [control |-> <<"hold", "active">>,
            state |-> <<"standby", "running", "safe_stop", "fault">>]

V1Rules ==
    [schema |-> 1, protocol |-> "control_link_demo_can_v1",
     byteOrder |-> "little_endian", dlc |-> 8, crc |-> V1Crc,
     counter |-> V1Counter, control |-> V1ControlLayout,
     state |-> V1StateLayout, modes |-> V1Modes,
     validation |-> V1Validation]

\* std::round: half away from zero.
Round(value, scale) ==
    IF value >= 0 THEN (2 * value + scale) \div (2 * scale)
    ELSE -((scale - 2 * value) \div (2 * scale))

Int16 == -32768 .. 32767

PhysicalSignalValid(s) ==
    /\ s.scale > 0 /\ s.offset = 0 /\ s.minimum <= s.maximum
    /\ Round(s.minimum, s.scale) >= -32768
    /\ Round(s.maximum, s.scale) <= 32767

SignalMapValid(m) ==
    /\ m.rules = V1Rules
    /\ m.controlId \in 0 .. 2047 /\ m.stateId \in 0 .. 2047
    /\ m.controlId # m.stateId
    /\ \A s \in {m.controlSpeed, m.controlYaw, m.stateSpeed, m.stateYaw} :
          PhysicalSignalValid(s)

-----------------------------------------------------------------------------
(***************************************************************************)
(* CanCodec.  Constructing it throws unless the frames of both directions  *)
(* quantize alike.                                                         *)
(***************************************************************************)
CodecConstructs(m) ==
    m.controlSpeed = m.stateSpeed /\ m.controlYaw = m.stateYaw

InRange(s, value) == value \in s.minimum .. s.maximum

\* encode_control: a command as the raw values of its frame, or none.
EncodeControl(m, c) ==
    IF /\ InRange(m.controlSpeed, c.speed) /\ InRange(m.controlYaw, c.yaw)
       /\ c.mode = "hold" => c.speed = 0 /\ c.yaw = 0
       /\ Round(c.speed, m.controlSpeed.scale) \in Int16
       /\ Round(c.yaw, m.controlYaw.scale) \in Int16
    THEN {[id |-> m.controlId, mode |-> c.mode,
           speed |-> Round(c.speed, m.controlSpeed.scale),
           yaw |-> Round(c.yaw, m.controlYaw.scale)]}
    ELSE {}

\* decode_control of an undamaged frame.
DecodeControl(m, f) ==
    LET speed == f.speed * m.controlSpeed.scale
        yaw == f.yaw * m.controlYaw.scale
    IN  IF /\ f.id = m.controlId
           /\ InRange(m.controlSpeed, speed) /\ InRange(m.controlYaw, yaw)
           /\ f.mode = "hold" => speed = 0 /\ yaw = 0
        THEN {[mode |-> f.mode, speed |-> speed, yaw |-> yaw]}
        ELSE {}
=============================================================================
