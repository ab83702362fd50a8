-------------------------- MODULE Fc0012Registers ---------------------------
(***************************************************************************)
(* The register programs of the FC0012: capability blocks, the gain latch, *)
(* retuning with calibration, and gain (src/sdrgg_fc0012.cpp).  The PLL's  *)
(* numbers are Tuning's.  It has no shadow file: an access that keeps bits *)
(* has read them from the chip.                                            *)
(***************************************************************************)
EXTENDS Registers

LOCAL T == INSTANCE Tuning WITH
    Ppms <- {0}, Rates <- {}, R820tFreqs <- {}, Fc0012Freqs <- {},
    freq_offset_ppm <- 0, if_khz <- 0, answer <- [call |-> "none"]

VCO_BW == Fc0012(\h06)
LNA_OVERRIDE == Fc0012(\h0D)
VCO_CAL == Fc0012(\h0E)
LNA_GAIN == Fc0012(\h13)

ChipRegs == \h01..\h15

\* The capability blocks, in the order of init_capabilities
Capabilities ==
    << <<\h01, \h05>>, <<\h02, \h10>>, <<\h03, \h00>>, <<\h04, \h00>>,
       <<\h05, \h0F>>, <<\h06, \h00>>, <<\h07, \h20>>, <<\h0A, \hB8>>, <<\h0E, \h00>>,
       <<\h08, \hFF>>, <<\h09, \h6E>>, <<\h0C, \hFE>>, <<\h0D, \h02>>,
       <<\h0B, \h82>>, <<\h0F, \h00>>, <<\h10, \h00>>, <<\h11, \h00>>, <<\h12, \h1F>>,
       <<\h13, \h00>>, <<\h14, \h00>>, <<\h15, \h04>> >>

\* fc0012::init; nobody looks at the writes that prime the gain latch.
Startup ==
    SetGpioOutput(6)
    \o [i \in DOMAIN Capabilities |-> Put(Fc0012(Capabilities[i][1]), Capabilities[i][2])]
    \o << Ignored(Put(LNA_OVERRIDE, \h0A)), Ignored(Put(LNA_GAIN, \h02)) >>

\* The reset pulse of detect on one pin
ResetPulse(pin) == SetGpioOutput(pin) \o SetGpioBit(pin, 1) \o SetGpioBit(pin, 0)

-----------------------------------------------------------------------------
(* Retuning.                                                               *)

\* set_freq writes the signal path again, to blocks 1, 0 and 1.
ReassertMode ==
    << Ignored(DemodWrite(1, \hB1, \h1B)), Ignored(DemodWrite(0, \h08, \hCD)),
       Ignored(DemodWrite(1, \h15, \h00)) >>

BandSelect(freq) == SetGpioBit(6, IF freq > 300000 THEN 1 ELSE 0)

div_base == << \h82, \h82, \h42, \h42, \h22, \h22, \h12, \h12, \h0A, \h0A >>

Vco(freq) == freq * T!Multiplier(freq)
MultiplierIndex(freq) == CHOOSE i \in DOMAIN T!MULTIPLIER_SET : T!MULTIPLIER_SET[i] = T!Multiplier(freq)
ElevatedBias(freq) == Vco(freq) >= 3059945      \* VCO_BIAS_THRESHOLD and the fallback above it
Dividers(freq) == T!Decomposed(T!RawRatio(Vco(freq)))
InReach(freq) == T!Feasible(Dividers(freq))

\* bw_composed: bias, boost and bandwidth over the base of odd multipliers
BwComposed(freq, bias) ==
    \hA0 + (IF MultiplierIndex(freq) % 2 = 0 THEN 2 ELSE 0) + (IF bias THEN 8 ELSE 0)

\* wire_cmd tuning_cmds
Stage(freq) ==
    LET frac == T!FracWord(Vco(freq))
    IN  << Put(Fc0012(\h01), Dividers(freq).a), Put(Fc0012(\h02), Dividers(freq).n),
           Put(Fc0012(\h03), frac \div 256), Put(Fc0012(\h04), frac % 256),
           [Put(Fc0012(\h05), \h07) EXCEPT !.value = @ \cup Bits(div_base[MultiplierIndex(freq)])],
           Put(VCO_BW, BwComposed(freq, ElevatedBias(freq))) >>

\* run_calibration_policy, which looks at no result; a measurement that is not read counts as
\* one of zero.  The bias changes if the measurement is off on the side it may help with.
Trigger == << Ignored(Put(VCO_CAL, \h80)), Ignored(Put(VCO_CAL, \h00)) >>
Calibrate(freq, measured) ==
    LET bias == ElevatedBias(freq)
    IN  Trigger \o (IF measured = (IF bias THEN "over" ELSE "under")
                    THEN << Ignored(Put(VCO_BW, BwComposed(freq, ~bias))) >> \o Trigger
                    ELSE <<>>)

\* fc0012::set_freq
Tune(freq, measured) ==
    ReassertMode \o BandSelect(freq)
    \o (IF InReach(freq) THEN Stage(freq) \o Calibrate(freq, measured) ELSE <<>>)

-----------------------------------------------------------------------------
(* Gain.                                                                   *)

Auto == -1           \* SDRGG_GAIN_AUTO

\* gain_states: floor and code
gain_states == << <<-99, \h02>>, <<-40, \h00>>, <<71, \h08>>, <<179, \h17>>, <<192, \h10>> >>

\* The last state whose floor is not above the request, or the first
ResolveGainState(requested) ==
    gain_states[1 + Len(SelectSeq(Tail(gain_states), LAMBDA state : requested >= state[1]))]

\* set_gain and set_auto_gain; the upper three bits of the gain are kept.  (A bit that is
\* already set is not written again, which the chip cannot tell.)
Gain(target) ==
    IF target = Auto THEN << Field(LNA_OVERRIDE, 0, \h08) >>
    ELSE << Field(LNA_OVERRIDE, \h08, \h08), Field(LNA_GAIN, ResolveGainState(target)[2], \h1F) >>
=============================================================================
