----------------------------- MODULE FrameCodec -----------------------------
(***************************************************************************)
(* The conversion between Candle.NET/Frame.cs and candle_frame_t, by       *)
(* Device.SendOnChannel and Device.ThreadedUpdate.  can_id is a word of    *)
(* an identifier below IdLimit and three flags above it.  Of the data only *)
(* its length is told apart.                                               *)
(***************************************************************************)
EXTENDS Naturals

CONSTANT IdLimit  \* 2^29

ASSUME FrameCodecAssumption == IdLimit \in Nat \ {0}

MaxData == 8  \* candle_frame_t.data

ErrorFlag == IdLimit         \* CANDLE_ID_ERR
RtrFlag == 2 * IdLimit       \* CANDLE_ID_RTR
ExtendedFlag == 4 * IdLimit  \* CANDLE_ID_EXTENDED
Words == 0 .. 8 * IdLimit - 1  \* UInt32

HasFlag(word, flag) == (word \div flag) % 2 = 1

\* word |= flag, if set.
WithFlag(word, flag, set) ==
  IF set /\ ~HasFlag(word, flag) THEN word + flag ELSE word

\* Mutant: the RTR flag is left out.
CanIdWithoutRtr(f) ==
  WithFlag(WithFlag(f.identifier, ExtendedFlag, f.extended), ErrorFlag, f.error)

\* The identifier is not masked: one that is too large sets flags.
CanId(f) ==
  WithFlag(WithFlag(WithFlag(f.identifier, ExtendedFlag, f.extended),
                    RtrFlag, f.rtr),
           ErrorFlag, f.error)

\* Mutant: one byte too many.
ConvertibleOneMore(f) == f.data <= MaxData + 1

\* Buffer.BlockCopy throws for more data than candle_frame_t takes.
Convertible(f) == f.data <= MaxData

ToNative(f) == [can_id |-> CanId(f), can_dlc |-> f.data]

FromNative(n) ==
  [identifier |-> n.can_id % IdLimit,
   extended |-> HasFlag(n.can_id, ExtendedFlag),
   rtr |-> HasFlag(n.can_id, RtrFlag),
   error |-> HasFlag(n.can_id, ErrorFlag),
   data |-> n.can_dlc]

\* The bits of a frame on the bus: those of a standard frame whatever its data.
LengthOnBus(f) == IF f.extended THEN 64 + 8 * f.data ELSE 55
=============================================================================
