--------------------------- MODULE DemodRegisters ---------------------------
(***************************************************************************)
(* The register programs of the RTL2832U: the boot phases of rtl::init,    *)
(* the signal path for each tuner, the filter coefficients, the NCO, the   *)
(* resampler, the endpoint and the shutdown (src/sdrgg_rtl.cpp 529-895).   *)
(***************************************************************************)
EXTENDS Registers

LOCAL T == INSTANCE Tuning WITH
    Ppms <- {0}, Rates <- {}, R820tFreqs <- {}, Fc0012Freqs <- {},
    freq_offset_ppm <- 0, if_khz <- 0, answer <- [call |-> "none"]

\* spec_usb_attach; if it fails the device is reset and it is tried again.
UsbAttach == << [Put(SYSCTL, \h09) EXCEPT !.fails = "retry"] >>

EndpointSetup == << Put(EPA_MAXPKT, \h0002), Put(EPA_CTL, \h1002) >>

DemodPowerup == << Put(DEMOD_CTL_1, \h22), Put(DEMOD_CTL, \hE8) >>

\* spec_ddc_initialize: a write of two bytes to 0x16, then 0x16 to 0x1B one by one, of
\* which the last three are the NCO
DdcInitialize ==
    << Put(Demod(1, \h01), \h14), Put(Demod(1, \h01), \h10), Put(Demod(1, \h15), \h00),
       Put(Demod(1, \h16), \h00), Put(Demod(1, \h17), \h00) >>
    \o [k \in 1..6 |-> Put(Demod(1, \h15 + k), \h00)]

filter_kernel == << -54, -36, -41, -40, -32, -14, 14, 53, 101, 156, 215, 273, 327, 372, 404, 421 >>

\* Byte k, from 0, of the coefficients: taps of eight bits, then pairs of twelve
PackedTap(k) ==
    IF k < 8 THEN filter_kernel[k + 1] % 256
    ELSE LET pair == (k - 8) \div 3
             a == filter_kernel[2 * pair + 9]
             b == filter_kernel[2 * pair + 10]
         IN  CASE k % 3 = 2 -> (a \div 16) % 256
               [] k % 3 = 0 -> (16 * a + ((b \div 256) % 16)) % 256
               [] k % 3 = 1 -> b % 256

FilterDeploy == [i \in 1..20 |-> Put(Demod(1, \h1B + i), PackedTap(i - 1))]

SignalMode ==
    << Put(Demod(0, \h19), \h05), Put(Demod(1, \h93), \hF0), Put(Demod(1, \h94), \h0F),
       Put(Demod(1, \h11), \h00), Put(Demod(1, \h04), \h00), Put(Demod(0, \h61), \h60),
       Put(Demod(0, \h06), \h80), Put(Demod(1, \hB1), \h1B), Put(Demod(0, \h0D), \h83) >>

\* rtl::init
Boot == UsbAttach \o EndpointSetup \o DemodPowerup \o DdcInitialize \o FilterDeploy \o SignalMode

\* rtl::set_if_freq: minus if * 2^22 / 28800 kHz in 22 bits, remembered when it is written
Nco(khz) == LET word == (khz * 2^15) \div 225 IN (2^22 - word) % 2^22
SetIfFreq(khz) ==
    << Put(Demod(1, \h19), Nco(khz) \div 2^16), Put(Demod(1, \h1A), (Nco(khz) \div 2^8) % 2^8),
       Put(Demod(1, \h1B), Nco(khz) % 2^8), Remember(khz) >>

R820T_IF_FREQ == 3570

ConfigureR820t ==
    << Put(Demod(1, \hB1), \h1A), Put(Demod(0, \h08), \h4D), Put(Demod(1, \h15), \h01) >>
    \o SetIfFreq(R820T_IF_FREQ)

\* Mutant of ConfigureFc0012: the ADC is left with one channel (FC0012_ADC_FIX).
ConfigureFc0012OneAdc ==
    << Put(Demod(1, \hB1), \h1B), Put(Demod(1, \h15), \h00) >> \o SetIfFreq(0)

ConfigureFc0012 ==
    << Put(Demod(1, \hB1), \h1B), Put(Demod(0, \h08), \hCD), Put(Demod(1, \h15), \h00) >>
    \o SetIfFreq(0)

\* rtl::set_sample_rate after the bandwidth: the ratio, a reset of the DDC, the NCO again
Resampler(rate) ==
    << Put(Demod(1, \h9F), T!Ratio(rate) \div 2^16), Put(Demod(1, \hA1), T!Ratio(rate) % 2^16) >>
DdcReset == << Put(Demod(1, \h01), \h14), Put(Demod(1, \h01), \h10) >>
SetRatio(rate, khz) == Resampler(rate) \o DdcReset \o (IF khz > 0 THEN SetIfFreq(khz) ELSE <<>>)

Recorded(rate) == T!Scaled(T!CorrectedXtal, T!Effective(T!Ratio(rate)))
Wide(rate) == Recorded(rate) >= 2000000

StartBulk == << Put(EPA_CTL, \h1002), Put(EPA_CTL, \h0000) >>
StopBulk == << Ignored(Put(EPA_CTL, \h1002)) >>

\* Mutant of Deinit: the demodulator is powered down with the endpoint still flowing.
DeinitNoStop == << Ignored(Put(DEMOD_CTL, \h20)) >>

\* rtl::deinit
Deinit == StopBulk \o << Ignored(Put(DEMOD_CTL, \h20)) >>

\* set_digital_agc
DigitalAgc(enable) == << DemodWrite(0, \h0019, IF enable THEN \h25 ELSE \h05) >>
=============================================================================
