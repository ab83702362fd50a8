--------------------------- MODULE R820tRegisters ---------------------------
(***************************************************************************)
(* The register programs of the R820T: power-up image, dormancy, retuning, *)
(* gain and bandwidth (src/sdrgg_r820t.cpp), and the gain policy of the    *)
(* core (src/sdrgg_core.cpp 50-77).  The numbers of the PLL and of the IF  *)
(* filter are Tuning's; here they become bytes.                            *)
(***************************************************************************)
EXTENDS Registers

LOCAL T == INSTANCE Tuning WITH
    Ppms <- {0}, Rates <- {}, R820tFreqs <- {}, Fc0012Freqs <- {},
    freq_offset_ppm <- 0, if_khz <- 0, answer <- [call |-> "none"]

LNA_BIAS == R820t(\h05)
FILTER_PATH == R820t(\h06)
MIXER_DRIVE == R820t(\h07)
SUPPLY_A == R820t(\h08)
SUPPLY_B == R820t(\h09)
FILT_BIAS == R820t(\h0A)
HP_CONTROL == R820t(\h0B)
IF_STAGE == R820t(\h0C)
LNA_THRESHOLD == R820t(\h0D)
MIX_THRESHOLD == R820t(\h0E)
CLK_ROUTING == R820t(\h0F)
XDIV_PLL == R820t(\h10)
CHARGE_PUMP == R820t(\h11)
VCO_DRIVE == R820t(\h12)
PLL_WORD == R820t(\h14)
SDM_FRAC_LO == R820t(\h15)
SDM_FRAC_HI == R820t(\h16)
DRAIN_PATH == R820t(\h17)
POLY_SELECT == R820t(\h19)
MUX_ROUTING == R820t(\h1A)
TRACK_FILTER == R820t(\h1B)
RF_TOP == R820t(\h1C)
DETECT_BW == R820t(\h1D)
TAIL_ATTEN == R820t(\h1F)

FileRegs == \h05..\h1F

\* compose_powerup_image, from 0x05 on
PowerUpImage ==
    << \h83, \h32, \h75,  \hC0, \h40, \hD6, \h6C,  \hE5, \h63, \h75, \h68,
       \h6C, \h83, \h80, \h00, \h0F, \h00, \hC0,  \h30, \h48, \hCC, \h60, \h00,
       \h54, \hAE, \h4A, \hC0 >>

-----------------------------------------------------------------------------
(* Gain.                                                                   *)

lna_db == << 0, 9, 13, 40, 38, 13, 31, 22, 26, 31, 26, 14, 19, 5, 35, 13 >>
mixer_db == << 0, 5, 10, 10, 19, 9, 10, 25, 17, 10, 8, 16, 13, 6, 3, -8 >>

\* manual_gain_profiles: total, LNA and mixer; the VGA stays at 8
Profiles ==
    << <<0, 0, 0>>, <<9, 1, 0>>, <<14, 1, 1>>, <<27, 2, 1>>, <<37, 2, 2>>, <<77, 3, 2>>, <<87, 3, 3>>,
       <<125, 4, 3>>, <<144, 4, 4>>, <<157, 5, 4>>, <<166, 5, 5>>, <<197, 6, 5>>, <<207, 6, 6>>,
       <<229, 7, 6>>, <<254, 7, 7>>, <<280, 8, 7>>, <<297, 8, 8>>, <<328, 9, 8>>, <<338, 9, 9>>,
       <<364, 10, 9>>, <<372, 10, 10>>, <<386, 11, 10>>, <<402, 11, 11>>, <<421, 12, 11>>,
       <<434, 12, 12>>, <<439, 13, 12>>, <<445, 13, 13>>, <<480, 14, 13>>, <<496, 15, 14>> >>

\* Mutant of SelectGainProfile: a gain of the table is passed over for the next.
SelectGainProfileAbove(target) ==
    LET enough == {i \in DOMAIN Profiles : target < Profiles[i][1]}
    IN  Profiles[IF enough = {} THEN Len(Profiles) ELSE CHOOSE i \in enough : \A j \in enough : i <= j]

\* The first profile that has the gain, or the last; only asked for gains of 0 and more
SelectGainProfile(target) ==
    LET enough == {i \in DOMAIN Profiles : target <= Profiles[i][1]}
    IN  Profiles[IF enough = {} THEN Len(Profiles) ELSE CHOOSE i \in enough : \A j \in enough : i <= j]

\* The automatic LNA keeps its step; the mixer's bit 0x10 is set either way.
SetLnaGain(index) ==
    << IF index < 0 THEN Field(LNA_BIAS, 0, \h10) ELSE Field(LNA_BIAS, \h10 + index, \h1F) >>
SetMixerGain(index) ==
    << IF index < 0 THEN Field(MIXER_DRIVE, \h10, \h10) ELSE Field(MIXER_DRIVE, \h10 + index, \h1F) >>
SetVgaGain(index) == << Field(IF_STAGE, index, \h9F) >>

Auto == -1           \* SDRGG_GAIN_AUTO

\* r820t_apply_gain and r820t_apply_auto
Gain(target) ==
    IF target = Auto THEN SetLnaGain(-1) \o SetMixerGain(-1) \o SetVgaGain(11)
    ELSE LET profile == SelectGainProfile(target)
         IN  SetLnaGain(profile[2]) \o SetMixerGain(profile[3]) \o SetVgaGain(8)

\* r820t::init: the whole image goes into the shadow file before the first register is written.
Startup ==
    [i \in 1..27 |-> Put(ShadowOf(R820t(\h04 + i)), PowerUpImage[i])]
    \o [i \in 1..27 |-> Put(R820t(\h04 + i), PowerUpImage[i])] \o Gain(Auto)

\* r820t::standby
Standby ==
    << Put(FILTER_PATH, \hB1), Put(LNA_BIAS, \h03), Put(MIXER_DRIVE, \h3A), Put(SUPPLY_A, \h40),
       Put(SUPPLY_B, \hC0), Put(FILT_BIAS, \h36), Put(IF_STAGE, \h35), Put(CLK_ROUTING, \h68),
       Put(CHARGE_PUMP, \h03), Put(DRAIN_PATH, \hF4), Put(POLY_SELECT, \h0C) >>

-----------------------------------------------------------------------------
(* Retuning.                                                               *)

\* classify_rf_path: the bands end at these MHz, the sixth and the sixteenth end families.
BandEnds ==
    << 50, 55, 60, 65, 70, 80,  90, 100, 110, 120, 140, 180, 220, 250, 280, 310,  450, 588, 650 >>
Band(mhz) == 1 + Len(SelectSeq(BandEnds, LAMBDA end : mhz >= end))

tap_by_band ==
    << \hA0, \h80, \h60, \h40, \h20, \h00,  \h60, \h40, \h20, \h00, \hE0, \hC0, \hA0, \h80, \h60, \h40,
       \h00, \h00, \h00, \h00 >>

\* set_mux; the low-pass family has a drain and a mux of its own.
Path(lo) ==
    LET band == Band(lo \div 1000)
        mux == IF band <= 6 THEN \h02 ELSE IF band \in {16, 19, 20} THEN \h40 ELSE \h41
    IN  << Field(DRAIN_PATH, IF band <= 6 THEN \h08 ELSE 0, \h08), Field(MUX_ROUTING, mux, \hC3),
           Put(TRACK_FILTER, tap_by_band[band]), Field(XDIV_PLL, 0, \h0B) >>

Candidates(lo) == {T!Normalized(c) : c \in T!Candidates(lo)}
InReach(lo) == Candidates(lo) # {}

\* compose_synth_intents
Synth(lo) ==
    LET pll == T!Packed(T!Best(Candidates(lo)))
    IN  << Field(MUX_ROUTING, 0, \h0C), Field(VCO_DRIVE, \h80, \hE0),
           Field(XDIV_PLL, 32 * pll.div_field, \hE0), Put(PLL_WORD, pll.ni_si),
           Field(VCO_DRIVE, IF pll.integer THEN \h08 ELSE 0, \h08),
           Put(SDM_FRAC_HI, pll.sdm \div 256), Put(SDM_FRAC_LO, pll.sdm % 256) >>

\* acquire_lock: at once, with more current, or never
Lock(luck) ==
    (IF luck = "first" THEN <<>> ELSE << Field(VCO_DRIVE, \h60, \hE0) >>)
    \o (IF luck = "never" THEN <<>> ELSE << Field(MUX_ROUTING, \h08, \h08) >>)

\* Mutant of Analog: the headroom of the LNA is written without its mask.
AnalogWithoutMask ==
    << Field(DETECT_BW, \hE5, \hC7), Field(RF_TOP, \h24, \hF8), Field(CHARGE_PUMP, \h38, \h38),
       Field(DRAIN_PATH, \h30, \h30), Field(FILT_BIAS, \h40, \h60), Put(LNA_BIAS, 0),
       Field(TAIL_ATTEN, 0, \h80), Put(LNA_THRESHOLD, \h53), Put(MIX_THRESHOLD, \h75) >>

\* compose_analog_intents for sdr_reception_profile
Analog ==
    << Field(DETECT_BW, \hE5, \hC7), Field(RF_TOP, \h24, \hF8), Field(CHARGE_PUMP, \h38, \h38),
       Field(DRAIN_PATH, \h30, \h30), Field(FILT_BIAS, \h40, \h60), Field(LNA_BIAS, 0, \h80),
       Field(TAIL_ATTEN, 0, \h80), Put(LNA_THRESHOLD, \h53), Put(MIX_THRESHOLD, \h75) >>

\* r820t::set_freq for an IF; a LO no divider reaches is refused after the path was set.
Tune(freq, if, luck) ==
    LET lo == freq + if
    IN  Path(lo) \o (IF ~InReach(lo) THEN <<>>
                     ELSE Synth(lo) \o Lock(luck) \o (IF luck = "never" THEN <<>> ELSE Analog))
Tunes(freq, if, luck) == InReach(freq + if) /\ luck # "never"

\* set_bandwidth: a fixed filter for the large widths
BandwidthIf(khz) == T!Filter(khz).if
Bandwidth(khz) ==
    LET second == khz > T!LowPass[1] + T!HighPass1
        first == (IF second THEN khz - T!HighPass2 ELSE khz) > T!LowPass[1]
        fixed == IF khz > 7000 THEN \h0B ELSE IF khz > 6000 THEN \h2A ELSE \h6B
    IN  IF T!Filter(khz).low_pass = 0
        THEN << Field(FILT_BIAS, \h10, \h10), Field(HP_CONTROL, fixed, \hEF) >>
        ELSE << Field(FILT_BIAS, 0, \h10),
                Field(HP_CONTROL, \h80 + (IF second THEN 0 ELSE \h20) + (IF first THEN 0 ELSE \h40)
                                  + 16 - T!Filter(khz).low_pass, \hEF) >>
=============================================================================
