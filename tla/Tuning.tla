------------------------------- MODULE Tuning -------------------------------
(***************************************************************************)
(* The arithmetic behind a configuration call: the resampler ratio of      *)
(* rtl::set_sample_rate (src/sdrgg_rtl.cpp 782-845), the IF filter and the *)
(* PLL of the R820T (src/sdrgg_r820t.cpp 316-449, 871-945) and the PLL of  *)
(* the FC0012 (src/sdrgg_fc0012.cpp 205-289), from the number asked for to *)
(* the register fields, with the error returns.  TunerBus has the order in *)
(* which the fields are written and what may go wrong then.                *)
(*                                                                         *)
(* Frequencies are in kHz, rates in Hz.  Correction and IF persist from    *)
(* call to call; the answer to a call stays until it has been looked at.   *)
(***************************************************************************)
EXTENDS Integers, Sequences, FiniteSetsExt

CONSTANTS
    Ppms,          \* corrections in use
    Rates,         \* rates asked for
    R820tFreqs,    \* frequencies asked for
    Fc0012Freqs

Xtal == 28800000   \* SDRGG_XTAL_FREQ

\* Corrections are those of crystals, though the code takes any; of the frequencies only
\* those miss whose LO would not fit into 32 bits of Hz.  TLC's integers have 32 bits:
\* products for which the code takes 64 are divided bit by bit (Scaled), and rates that
\* would be recorded as 2^31 and more, less than 95 below 1/64 of the crystal or 24 below
\* 1/128, are not to be in Rates.
ASSUME TuningAssumption ==
    /\ \A ppm \in Ppms : ppm \in Int /\ -1000 <= ppm /\ ppm <= 1000
    /\ \A rate \in Rates : rate \in Nat
    /\ \A freq \in R820tFreqs \cup Fc0012Freqs : freq \in Nat /\ freq <= 4290000
    /\ \A rate \in Rates, ppm \in Ppms \cup {0} :
         LET limit == Xtal + (288 * ppm) \div 10
         IN  (225000 <= rate /\ rate <= 3200000) =>
             /\ 64 * rate >= limit \/ 64 * (rate + 95) <= limit
             /\ 128 * rate >= limit \/ 128 * (rate + 24) <= limit

VARIABLES
    freq_offset_ppm,
    if_khz,        \* tuning.if_offset_hz
    answer         \* the call being answered, its status and what it computed

vars == <<freq_offset_ppm, if_khz, answer>>

Idle == [call |-> "none"]

Init ==
    /\ freq_offset_ppm = 0
    /\ if_khz = 3570
    /\ answer = Idle

-----------------------------------------------------------------------------
(* The resampler.                                                          *)

\* From the quotient and the remainder of a division by b those of twice the dividend
Doubled(d, b) ==
    IF 2 * d.rest >= b
    THEN [quotient |-> 2 * d.quotient + 1, rest |-> 2 * d.rest - b]
    ELSE [quotient |-> 2 * d.quotient, rest |-> 2 * d.rest]
Times4(d, b) == Doubled(Doubled(d, b), b)
Times16(d, b) == Times4(Times4(d, b), b)
Times65536(d, b) == Times16(Times16(Times16(Times16(d, b), b), b), b)

\* (a * 2^22) / b
Scaled(a, b) ==
    Times4(Times16(Times65536([quotient |-> a \div b, rest |-> a % b], b), b), b).quotient

CorrectedXtal == Xtal + (288 * freq_offset_ppm) \div 10

\* The register has 28 bits, of which it ignores two.
Ratio(rate) ==
    LET exact == Scaled(CorrectedXtal, rate)
    IN  (exact - (exact % 4)) % (2^28)

\* Mutant of Effective: the top bit is not extended.
EffectivePlain(ratio) == ratio

\* The top bit counts twice.
Effective(ratio) == IF ratio >= 2^27 THEN ratio + 2^28 ELSE ratio

-----------------------------------------------------------------------------
(* set_bandwidth of the R820T for the rates it is called with.             *)

LowPass == <<1700, 1600, 1550, 1450, 1200, 900, 700, 550, 450, 350>>
HighPass1 == 350
HighPass2 == 380

\* Mutant of Narrowest: the first that is too narrow.
NarrowestLess(width) ==
    CHOOSE i \in DOMAIN LowPass : LowPass[i] < width /\ \A j \in 1..i-1 : LowPass[j] >= width

\* The last low-pass of the table that is wide enough, or the first.
Narrowest(width) ==
    CHOOSE i \in DOMAIN LowPass :
        /\ i = 1 \/ LowPass[i] >= width
        /\ \A j \in i+1..Len(LowPass) : LowPass[j] < width

\* The low-pass, which the high-pass stages that are not needed widen, and the IF in
\* the middle; for large rates a fixed filter.
Filter(bw) ==
    IF bw > LowPass[1] + HighPass1 + HighPass2
    THEN [low_pass |-> 0, if |-> IF bw > 6000 THEN 4570 ELSE 3570, width |-> 0]
    ELSE LET second == bw > LowPass[1] + HighPass1
             rest == IF second THEN bw - HighPass2 ELSE bw
             first == rest > LowPass[1]
             low_pass == Narrowest(IF first THEN rest - HighPass1 ELSE rest)
             open == (IF second THEN HighPass2 ELSE 0) + (IF first THEN HighPass1 ELSE 0)
             width == open + LowPass[low_pass]
         IN  [low_pass |-> low_pass, if |-> 2300 + open - width \div 2, width |-> width]

-----------------------------------------------------------------------------
(* The PLL of the R820T.                                                   *)

CorrectedRef == Xtal \div 1000 + (288 * freq_offset_ppm) \div 10000

\* enumerate_candidates
Candidates(lo) ==
    LET ref == CorrectedRef
        vco(order) == lo * 2^order
        \* only an order whose VCO frequency fits the window
        orders == {order \in 1..6 : vco(order) >= 1770000 /\ vco(order) < 3540000}
    IN  {[order |-> order, n |-> vco(order) \div (2 * ref), frac |-> vco(order) % (2 * ref)] : order \in orders}

\* Mutant of Normalized: rounding up to the next integer does not carry.
NormalizedNoCarry(c) ==
    IF c.frac < CorrectedRef \div 64 \/ c.frac > (CorrectedRef * 127) \div 64
    THEN [c EXCEPT !.frac = 0]
    ELSE c

\* normalize_spur_avoidance: no fraction close to 0, 1/2 or 1.
Normalized(c) ==
    LET ref == CorrectedRef
        below == (ref * 127) \div 128
        above == (ref * 129) \div 128
    IN  CASE c.frac < ref \div 64 -> [c EXCEPT !.frac = 0]
          [] c.frac > (ref * 127) \div 64 -> [c EXCEPT !.frac = 0, !.n = @ + 1]
          [] c.frac > below /\ c.frac < ref -> [c EXCEPT !.frac = below]
          [] c.frac > ref /\ c.frac < above -> [c EXCEPT !.frac = above]
          [] OTHER -> c

\* rank_and_select: small orders and whole ratios are better.
Score(c) == 100 - 10 * c.order + (IF c.frac = 0 THEN 20 ELSE 0)
Best(candidates) ==
    CHOOSE c \in candidates :
        \A d \in candidates : Score(d) < Score(c) \/ (Score(d) = Score(c) /\ c.order <= d.order)

\* One round of the loop that writes frac / (2 * ref) in binary: the bit of 1 / weight
Bit(s, weight) ==
    LET part == (2 * CorrectedRef) \div weight
    IN  IF s.residual <= 1 \/ s.residual <= part
        THEN s
        ELSE [word |-> s.word + 2^16 \div weight, residual |-> s.residual - part]
ThreeBits(s, weight) == Bit(Bit(Bit(s, weight), 2 * weight), 4 * weight)

\* Weights 2 to 0x8000, where the part is 1: what is more than that is taken and ends it.
Sdm(frac) ==
    LET start == [word |-> 0, residual |-> frac]
        three == ThreeBits(start, 2)
        six == ThreeBits(three, 16)
        nine == ThreeBits(six, 128)
        twelve == ThreeBits(nine, 1024)
    IN  ThreeBits(twelve, 8192).word

\* pack_pll_solution, with the casts to a byte
Packed(c) ==
    LET ni == ((c.n - 13) \div 4) % 256
        si == (c.n - 4 * ni - 13) % 256
    IN  [div_field |-> c.order - 1, ni_si |-> ni + ((64 * si) % 256),
         integer |-> c.frac = 0, sdm |-> IF c.frac = 0 THEN 0 ELSE Sdm(c.frac)]

-----------------------------------------------------------------------------
(* The PLL of the FC0012, which does not know of the correction.           *)

MULTIPLIER_SET == <<96, 64, 48, 32, 24, 16, 12, 8, 6, 4>>
HalfXtal == Xtal \div 2000

\* derive_multiplier: the highest whose VCO stays below the ceiling, or the lowest.
Multiplier(freq) ==
    LET fits == {i \in DOMAIN MULTIPLIER_SET : freq * MULTIPLIER_SET[i] < 3060000}
    IN  MULTIPLIER_SET[IF fits = {} THEN Len(MULTIPLIER_SET) ELSE Min(fits)]

\* compute_raw_ratio: rounded to the nearest
RawRatio(vco) == vco \div HalfXtal + (IF vco % HalfXtal >= HalfXtal \div 2 THEN 1 ELSE 0)

\* Mutant of Decomposed: lending eight to the remainder does not cost the quotient.
DecomposedNoBorrow(total) ==
    LET a == total % 8
    IN  [n |-> total \div 8, a |-> IF a < 2 THEN a + 8 ELSE a]

\* Quotient and remainder by eight, the remainder at least 2, the quotient at most 31,
\* both of them bytes.
Decomposed(total) ==
    LET lend == total % 8 < 2
        n == (total \div 8 - (IF lend THEN 1 ELSE 0)) % 256
        a == (total % 8) + (IF lend THEN 8 ELSE 0)
    IN  IF n > 31 THEN [n |-> 31, a |-> (a + 8 * (n - 31)) % 256] ELSE [n |-> n, a |-> a]

Feasible(d) == d.a <= 15 /\ d.n >= 11

\* 16 bits; a residual of a half and more belongs to the ratio that was rounded up.
FracWord(vco) ==
    LET raw == ((vco % HalfXtal) * 2^15) \div HalfXtal
    IN  IF raw >= 2^14 THEN raw + 2^15 ELSE raw

-----------------------------------------------------------------------------
(* The calls.                                                              *)

SetFreqCorrection(ppm) ==
    /\ answer = Idle
    /\ freq_offset_ppm' = ppm
    /\ UNCHANGED <<if_khz, answer>>

\* For an R820T; the rate that is recorded is the one of the ratio.
SetSampleRate(rate) ==
    /\ answer = Idle
    /\ LET ratio == Ratio(rate)
           effective == Effective(ratio)
           recorded == Scaled(CorrectedXtal, effective)
           asked == [call |-> "rate", rate |-> rate]
       IN  IF rate < 225000 \/ rate > 3200000
           THEN answer' = [asked EXCEPT !.call = "refused"] /\ UNCHANGED if_khz
           ELSE IF effective = 0
           THEN answer' = [asked EXCEPT !.call = "fault"] /\ UNCHANGED if_khz
           ELSE IF recorded >= 2000000
           THEN LET filter == Filter(recorded \div 1000)
                IN  /\ answer' = [call |-> "wide", rate |-> rate, recorded |-> recorded, filter |-> filter]
                    /\ if_khz' = filter.if
           ELSE /\ answer' = [call |-> "rate", rate |-> rate, recorded |-> recorded]
                /\ UNCHANGED if_khz
    /\ UNCHANGED freq_offset_ppm

TuneR820t(freq) ==
    /\ answer = Idle
    /\ LET lo == freq + if_khz
           candidates == {Normalized(c) : c \in Candidates(lo)}
       IN  answer' = IF candidates = {}
                     THEN [call |-> "ERR_PLL", lo |-> lo]
                     ELSE [call |-> "r820t", lo |-> lo, pll |-> Packed(Best(candidates))]
    /\ UNCHANGED <<freq_offset_ppm, if_khz>>

TuneFc0012(freq) ==
    /\ answer = Idle
    /\ LET vco == freq * Multiplier(freq)
           dividers == Decomposed(RawRatio(vco))
       IN  answer' = IF Feasible(dividers)
                     THEN [call |-> "fc0012", freq |-> freq, vco |-> vco, dividers |-> dividers,
                           frac |-> FracWord(vco)]
                     ELSE [call |-> "ERR_PARAM", freq |-> freq]
    /\ UNCHANGED <<freq_offset_ppm, if_khz>>

Return ==
    /\ answer # Idle
    /\ answer' = Idle
    /\ UNCHANGED <<freq_offset_ppm, if_khz>>

Next ==
    \/ \E ppm \in Ppms : SetFreqCorrection(ppm)
    \/ \E rate \in Rates : SetSampleRate(rate)
    \/ \E freq \in R820tFreqs : TuneR820t(freq)
    \/ \E freq \in Fc0012Freqs : TuneFc0012(freq)
    \/ Return

Spec == Init /\ [][Next]_vars

-----------------------------------------------------------------------------
(* Properties.                                                             *)

Distance(a, b) == IF a > b THEN a - b ELSE b - a

\* Rates whose ratio the register takes as it is meant.  Between 1/96 and 1/32 of
\* the crystal (300 to 900 kS/s) the two top bits are lost or doubled.
Expressible(rate) ==
    \/ 32 * rate > CorrectedXtal
    \/ 96 * rate <= CorrectedXtal /\ 128 * rate > CorrectedXtal

\* set_sample_rate records, and returns as actual_hz, what the resampler then does: for
\* an expressible rate that is the one asked for, rounded up by what two bits less of
\* the ratio cost, and the second division never divides by zero.
RateAsRequested ==
    /\ (answer.call \in {"rate", "wide"} /\ Expressible(answer.rate))
         => answer.recorded \in answer.rate..answer.rate+1
    /\ answer.call = "fault" => ~Expressible(answer.rate)

\* A filter put together from the table passes the recorded rate, no narrower one
\* would, and the IF that the NCO takes from then on is the middle of its pass band,
\* whose upper end only the high-pass stages move.
FilterCoversRate ==
    (answer.call = "wide" /\ answer.filter.low_pass # 0) =>
        LET filter == answer.filter
            bw == answer.recorded \div 1000
            open == filter.width - LowPass[filter.low_pass]
        IN  /\ filter.width >= bw
            /\ \A i \in DOMAIN LowPass : LowPass[i] + open >= bw => LowPass[i] + open >= filter.width
            /\ 2 * if_khz + filter.width \in 2 * (2300 + open)..2 * (2300 + open) + 1

\* The register fields of the R820T, taken as the chip takes them, give an LO, but for
\* the detours around the spurs.
PllMakes(pll, lo) ==
    LET ref == CorrectedRef
        target == lo * 2^(pll.div_field + 1)
        n == 13 + 4 * (pll.ni_si % 64) + pll.ni_si \div 64
        part == (((pll.sdm \div 256) * 2 * ref) + ((pll.sdm % 256) * 2 * ref) \div 256) \div 256
        near_spur == \E spur \in {0, ref, 2 * ref} : Distance(target % (2 * ref), spur) <= ref \div 64 + 1
    IN  /\ pll.div_field \in 0..5
        /\ Distance(2 * ref * n + part, target) <= IF near_spur THEN ref \div 64 + 8 ELSE 8

\* The fields of the PLL make the LO that was asked for, no field overflows, and the
\* only LO without a solution are those too low for the largest divider, or too high.
PllHitsTarget ==
    /\ answer.call = "ERR_PLL" => answer.lo * 64 < 1770000 \/ answer.lo >= 1770000
    /\ answer.call = "r820t" => PllMakes(answer.pll, answer.lo)

\* Those of the FC0012 are in the ranges its dividers have and give a VCO frequency
\* within a step of the fraction.
DividersMake(dividers, frac, vco) ==
    LET total == 8 * dividers.n + dividers.a
        signed == IF frac >= 2^15 THEN frac - 2^16 ELSE frac
    IN  /\ dividers.n \in 11..31 /\ dividers.a \in 2..15
        /\ Distance(total * HalfXtal + (signed * HalfXtal) \div 2^15, vco) <= 1

\* The same for the FC0012: no frequency is refused but those above the largest
\* dividers and below the smallest.  The library takes any frequency; where the bytes
\* wrap, below 225 kHz and from 1812.6 MHz on, it may answer OK to one that no dividers
\* can give.
DividersHitTarget ==
    /\ answer.call = "ERR_PARAM" =>
         \/ answer.freq * 4 * 2 >= HalfXtal * (2 * 263 + 1)
         \/ answer.freq * 96 * 2 < HalfXtal * (2 * 90 - 1)
    /\ (answer.call = "fc0012" /\ answer.freq >= 225 /\ answer.freq < 1812600) =>
         DividersMake(answer.dividers, answer.frac, answer.vco)
=============================================================================
