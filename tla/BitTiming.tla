----------------------------- MODULE BitTiming -----------------------------
(***************************************************************************)
(* candle_channel_set_bitrate's table: the timing of the CAN controller    *)
(* for a bit rate, for devices with the 48 MHz clock of candleLight.       *)
(***************************************************************************)
EXTENDS Naturals

BaseClock == 48000000

\* The divisor of the clock.
Prescalers ==
  {<<10000, 300>>, <<20000, 150>>, <<50000, 60>>, <<83333, 36>>, <<100000, 30>>,
   <<125000, 24>>, <<250000, 12>>, <<500000, 6>>, <<800000, 4>>, <<1000000, 3>>}

Supported == {entry[1] : entry \in Prescalers}

Prescaler(bitrate) == CHOOSE p \in 1 .. 300 : <<bitrate, p>> \in Prescalers

\* Mutant: 800 kbit/s without a phase segment of its own.
PhaseSeg1Common(bitrate) == 12

\* 13 - prop_seg, except for 800 kbit/s.
PhaseSeg1(bitrate) == IF bitrate = 800000 THEN 11 ELSE 12

TimingFor(bitrate) ==
  [prop_seg |-> 1, phase_seg1 |-> PhaseSeg1(bitrate), phase_seg2 |-> 2, sjw |-> 1,
   brp |-> Prescaler(bitrate)]

\* What a CAN controller makes of a timing: a bit is one time quantum and the
\* segments, a quantum brp periods of the clock.
QuantaPerBit(t) == 1 + t.prop_seg + t.phase_seg1 + t.phase_seg2

Rate(t) == BaseClock \div (t.brp * QuantaPerBit(t))
=============================================================================
