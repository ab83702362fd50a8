------------------------------- MODULE Device -------------------------------
(***************************************************************************)
(* One dongle as its registers: open_path from the boot of the             *)
(* demodulator to the tuner's start, its undoing when a step fails, the    *)
(* configuration calls and close (src/sdrgg_core.cpp 191-571), made of     *)
(* the register programs of the demodulator and of the two tuners.         *)
(*                                                                         *)
(* A call is one step, for it holds dev->lock (the digital AGC is a single *)
(* write), but any one of its accesses may fail: the device did not get    *)
(* it, or did it and its answer was lost.  The memory outlives the library *)
(* and is arbitrary at first: what the previous user left.  A stream is    *)
(* only what it does to the endpoint; concurrent calls and the I2C gate    *)
(* are left to BulkEndpoint and TunerBus.                                  *)
(***************************************************************************)
EXTENDS Registers, TLC

CONSTANTS
    Boards,        \* [tuner, pin]: the tuner fitted and the GPIO pin of its reset
    R820tFreqs,    \* in kHz
    Fc0012Freqs,
    Gains,         \* in tenths of a dB, -1 for SDRGG_GAIN_AUTO
    Rates,
    MaxOpens,      \* bounds
    MaxCalls,
    MaxErrors

D == INSTANCE DemodRegisters
R == INSTANCE R820tRegisters
F == INSTANCE Fc0012Registers

ASSUME DeviceAssumption ==
    /\ \A board \in Boards : board.tuner \in {"R820T", "FC0012"} /\ board.pin \in {4, 7}
    /\ Gains \subseteq -99..600
    /\ Rates \subseteq 225000..3200000

VARIABLES
    board,
    memory,        \* the registers, the shadow file, the pins pulsed
    phase,         \* of open_path, or "open", or "closed"
    class,         \* identity.tuner_class
    settings,      \* what the calls have set, for each aspect; unknown after a failure
    touched,       \* registers the application wrote itself
    shut,          \* the last shutdown: with the tuner or without, and what it may have missed
    opens, calls, errors

vars == <<board, memory, phase, class, settings, touched, shut, opens, calls, errors>>

Unknown == <<>>
NoSettings == [freq |-> Unknown, gain |-> Unknown, band |-> Unknown, rate |-> Unknown,
               agc |-> Unknown, nco |-> Unknown]
NotShut == [ran |-> FALSE, tuner |-> FALSE, missed |-> {}]

RegistersOf(tuner) ==
    Targets(D!Boot) \cup Targets(D!ConfigureR820t) \cup Targets(D!Resampler(2048000))
    \cup {GPO, GPOE, GPD, Usb(\hB1), Usb(\h15)}
    \cup (IF tuner = "R820T" THEN {R820t(reg) : reg \in R!FileRegs} ELSE {Fc0012(reg) : reg \in F!ChipRegs})

NoShadow == [reg \in R!FileRegs |-> {}]

Init ==
    /\ board \in Boards
    /\ \E byte \in {{}, 0..7} :
           memory = [regs |-> [at \in RegistersOf(board.tuner) |-> byte], shadow |-> NoShadow, pulsed |-> {}]
    /\ phase = "closed"
    /\ class = "none"
    /\ settings = NoSettings
    /\ touched = {}
    /\ shut = NotShut
    /\ opens = 0
    /\ calls = 0
    /\ errors = 0

-----------------------------------------------------------------------------
(* Running a program.                                                      *)

\* The access that fails and how; none, or one within the bound
Mishaps(program) ==
    {<<0, "none">>} \cup
    (IF errors = MaxErrors THEN {}
     ELSE UNION {{<<k, how>> : how \in Failures(program[k])} : k \in DOMAIN program})

Perform(program, mishap) ==
    /\ memory' = RunWith(memory, program, mishap[1], mishap[2])
    /\ errors' = errors + (IF mishap[1] = 0 THEN 0 ELSE 1)
    /\ touched' = IF mishap[1] = 0 THEN touched \ Targets(program) ELSE touched

Missed(program, k) ==
    IF k = 0 THEN {}
    ELSE {program[j].at : j \in {i \in k..Len(program) :
                                    i = k \/ (program[k].fails = "skip" /\ program[i].fails = "skip")}}

-----------------------------------------------------------------------------
(* open_path, phases B to D.                                               *)

Open ==
    /\ phase = "closed"
    /\ opens < MaxOpens
    /\ opens' = opens + 1
    /\ phase' = "boot"
    /\ memory' = [memory EXCEPT !.shadow = NoShadow, !.regs[IfOffset] = {}]
    /\ class' = "none"
    /\ settings' = NoSettings
    /\ touched' = {}
    /\ shut' = NotShut
    /\ UNCHANGED <<board, calls, errors>>

\* A baseband that does not boot is left as it is: phase B is not done.
Boot ==
    /\ phase = "boot"
    /\ \E mishap \in Mishaps(D!Boot) :
           /\ Perform(D!Boot, mishap)
           /\ phase' = IF ReturnsOk(D!Boot, mishap[1]) THEN "probe R820T" ELSE "closed"
    /\ UNCHANGED <<board, class, settings, shut, opens, calls>>

\* r820t::detect reads the tuner, which may fail though the tuner is there.
ProbeR820t ==
    /\ phase = "probe R820T"
    /\ \E read \in BOOLEAN :
           /\ read \/ errors < MaxErrors
           /\ errors' = errors + (IF read THEN 0 ELSE 1)
           /\ IF read /\ board.tuner = "R820T"
              THEN phase' = "start" /\ class' = "R820T"
              ELSE phase' = "probe pin 4" /\ UNCHANGED class
    /\ UNCHANGED <<board, memory, settings, touched, shut, opens, calls>>

\* fc0012::detect, one pass of its loop: an FC0012 answers when its pin has been pulsed.
ProbeFc0012(pin, next) ==
    /\ phase = "probe pin " \o ToString(pin)
    /\ \E mishap \in Mishaps(F!ResetPulse(pin)), read \in BOOLEAN :
           /\ read \/ (mishap[1] = 0 /\ errors < MaxErrors)
           /\ memory' = RunWith(memory, F!ResetPulse(pin), mishap[1], mishap[2])
           /\ errors' = errors + (IF read /\ mishap[1] = 0 THEN 0 ELSE 1)
           /\ IF read /\ board.tuner = "FC0012" /\ board.pin \in memory'.pulsed
              THEN phase' = "start" /\ class' = "FC0012"
              ELSE phase' = next /\ UNCHANGED class
    /\ UNCHANGED <<board, settings, touched, shut, opens, calls>>

StartupOf(tuner) ==
    IF tuner = "R820T" THEN D!ConfigureR820t \o R!Startup ELSE D!ConfigureFc0012 \o F!Startup

\* A tuner that has started has a gain, the IF of its kind and the digital AGC off.
StartTuner ==
    /\ phase = "start"
    /\ \E mishap \in Mishaps(StartupOf(class)) :
           /\ Perform(StartupOf(class), mishap)
           /\ phase' = IF ReturnsOk(StartupOf(class), mishap[1]) THEN "register" ELSE "undo"
           /\ settings' = IF mishap[1] = 0
                          THEN [NoSettings EXCEPT !.gain = <<IF class = "R820T" THEN R!Auto ELSE -99>>,
                                                  !.nco = <<"set">>, !.agc = <<FALSE>>]
                          ELSE NoSettings
    /\ UNCHANGED <<board, class, shut, opens, calls>>

Shutdown(program, tuner) ==
    \E mishap \in Mishaps(program) :
        /\ Perform(program, mishap)
        /\ shut' = [ran |-> TRUE, tuner |-> tuner, missed |-> Missed(program, mishap[1])]
        /\ phase' = "closed"

\* rollback_session without a tuner that was started
Undo ==
    /\ phase = "undo"
    /\ Shutdown(D!Deinit, FALSE)
    /\ UNCHANGED <<board, class, settings, opens, calls>>

Register ==
    /\ phase = "register"
    /\ phase' = "open"
    /\ UNCHANGED <<board, memory, class, settings, touched, shut, opens, calls, errors>>

\* Sixteen devices are open already.
NoSlot ==
    /\ phase = "register"
    /\ IF class = "R820T" THEN Shutdown(Abandoned(R!Standby) \o D!Deinit, TRUE) ELSE Shutdown(D!Deinit, FALSE)
    /\ UNCHANGED <<board, class, settings, opens, calls>>

Close ==
    /\ phase = "open"
    /\ Shutdown(Abandoned(IF class = "R820T" THEN R!Standby ELSE F!Gain(F!Auto)) \o D!Deinit, TRUE)
    /\ UNCHANGED <<board, class, settings, opens, calls>>

-----------------------------------------------------------------------------
(* The calls.                                                              *)

\* The bytes a failed GPIO read leaves may reach every pin, the tuner's reset among them.
Garbage(mishap) == mishap[2] \in {"zeros", "ones"}

MayCall(tuner) ==
    /\ phase = "open"
    /\ class = tuner
    /\ calls < MaxCalls

\* A call with a program and a status: what it sets is known if no access failed.
Call(program, ok, setting) ==
    /\ \E mishap \in Mishaps(program) :
           /\ Perform(program, mishap)
           /\ settings' = IF Garbage(mishap) THEN NoSettings
                          ELSE [aspect \in DOMAIN settings |->
                                   IF aspect \notin DOMAIN setting THEN settings[aspect]
                                   ELSE IF ok /\ mishap[1] = 0 THEN setting[aspect] ELSE Unknown]
    /\ calls' = calls + 1
    /\ UNCHANGED <<board, phase, class, shut, opens>>

If == Number(memory.regs[IfOffset])

Luck == {"first", "boosted", "never"}
Measurements == {"ok", "over", "under"}
WideRates == {rate \in Rates : D!Wide(rate)}
Ifs == {D!R820T_IF_FREQ} \cup {R!BandwidthIf(D!Recorded(rate) \div 1000) : rate \in WideRates}

\* The longer programs of all calls, so that TLC computes each once
R820tTune == [freq \in R820tFreqs, if \in Ifs, luck \in Luck |-> R!Tune(freq, if, luck)]
Fc0012Tune == [freq \in Fc0012Freqs, measured \in Measurements |-> F!Tune(freq, measured)]
RatioOf == [rate \in Rates, if \in Ifs \cup {0} |-> D!SetRatio(rate, if)]
WideRatio == [rate \in WideRates |->
                 LET khz == D!Recorded(rate) \div 1000
                 IN  R!Bandwidth(khz) \o D!SetIfFreq(R!BandwidthIf(khz)) \o D!SetRatio(rate, R!BandwidthIf(khz))]

\* set_frequency
SetFrequencyR820t(freq, luck) ==
    /\ MayCall("R820T")
    /\ Call(R820tTune[freq, If, luck], R!Tunes(freq, If, luck), [freq |-> <<freq, If, luck>>])
SetFrequencyFc0012(freq, measured) ==
    /\ MayCall("FC0012")
    /\ Call(Fc0012Tune[freq, measured], F!InReach(freq), [freq |-> <<freq, measured>>])

\* set_gain; a negative gain of the R820T other than SDRGG_GAIN_AUTO is refused before any access.
SetGainR820t(gain) ==
    /\ MayCall("R820T")
    /\ gain >= R!Auto
    /\ Call(R!Gain(gain), TRUE, [gain |-> <<gain>>])
SetGainFc0012(gain) ==
    /\ MayCall("FC0012")
    /\ Call(F!Gain(gain), TRUE, [gain |-> <<gain>>])

\* set_sample_rate; for a wide rate the R820T's filter and the IF come first.
SetWideRate(rate) ==
    /\ MayCall("R820T")
    /\ Call(WideRatio[rate], TRUE, [band |-> <<rate>>, rate |-> <<rate>>, nco |-> <<"set">>])
SetSampleRate(rate) ==
    /\ MayCall(class)
    /\ class = "R820T" => rate \notin WideRates
    /\ Call(RatioOf[rate, If], TRUE, [rate |-> <<rate>>, nco |-> <<"set">>])

SetDigitalAgc(enable) ==
    /\ MayCall(class)
    /\ Call(D!DigitalAgc(enable), TRUE, [agc |-> <<enable>>])

\* A stream from start to stop: the reader starts the endpoint, and stop halts it again for
\* the R820T but leaves the FC0012's flowing.
Stream ==
    /\ MayCall(class)
    /\ Call(Abandoned(D!StartBulk) \o (IF class = "R820T" THEN D!StopBulk ELSE <<>>), TRUE, << >>)

\* The application uses the public demod::write on a register of the library.
AppWrite ==
    /\ MayCall(class)
    /\ calls' = calls + 1
    /\ memory' = Run(memory, << DemodWrite(0, \h01B1, \h1A) >>)
    /\ touched' = touched \cup {Demod(1, \hB1)}
    /\ UNCHANGED <<board, phase, class, settings, shut, opens, errors>>

Next ==
    \/ Open \/ Boot \/ ProbeR820t
    \/ ProbeFc0012(4, "probe pin 7") \/ ProbeFc0012(7, "undo")
    \/ StartTuner \/ Undo \/ Register \/ NoSlot \/ Close
    \/ \E freq \in R820tFreqs, luck \in Luck : SetFrequencyR820t(freq, luck)
    \/ \E freq \in Fc0012Freqs, measured \in Measurements : SetFrequencyFc0012(freq, measured)
    \/ \E gain \in Gains : SetGainR820t(gain) \/ SetGainFc0012(gain)
    \/ \E rate \in WideRates : SetWideRate(rate)
    \/ \E rate \in Rates : SetSampleRate(rate)
    \/ \E enable \in BOOLEAN : SetDigitalAgc(enable)
    \/ Stream \/ AppWrite

Spec == Init /\ [][Next]_vars

-----------------------------------------------------------------------------
(* Properties.                                                             *)

Byte(at) == Number(memory.regs[at])

\* Zero IF with two ADC channels, or low IF with one and an inverted spectrum
ModeOf(tuner) ==
    IF tuner = "FC0012" THEN Demod(1, \hB1) :> \h1B @@ Demod(0, \h08) :> \hCD @@ Demod(1, \h15) :> 0
    ELSE Demod(1, \hB1) :> \h1A @@ Demod(0, \h08) :> \h4D @@ Demod(1, \h15) :> 1

Signed(number, bits) == IF number >= 2^(bits - 1) THEN number - 2^bits ELSE number
\* A tap of the filter as the demodulator unpacks it
Tap(i) ==
    LET byte(k) == Byte(Demod(1, \h1C + k))
        pair == 8 + 3 * ((i - 9) \div 2)
    IN  IF i <= 8 THEN Signed(byte(i - 1), 8)
        ELSE IF i % 2 = 1 THEN Signed(16 * byte(pair) + byte(pair + 1) \div 16, 12)
        ELSE Signed(256 * (byte(pair + 1) % 16) + byte(pair + 2), 12)

\* The NCO turns by minus the IF, rounded to its step of 28800 kHz / 2^22.
NcoAt(khz) ==
    LET word == 2^16 * Byte(Demod(1, \h19)) + 2^8 * Byte(Demod(1, \h1A)) + Byte(Demod(1, \h1B))
        down == (2^22 - word) % 2^22
    IN  down * 225 <= khz * 2^15 /\ khz * 2^15 < (down + 1) * 225

\* What programs leave in the registers, whatever these held before
R820tTuneImage == [freq \in R820tFreqs, if \in Ifs, luck \in Luck |-> Image(R820tTune[freq, if, luck])]
Fc0012TuneImage == [freq \in Fc0012Freqs, measured \in Measurements |-> Image(Fc0012Tune[freq, measured])]
R820tGainImage == [gain \in {g \in Gains : g >= R!Auto} |-> Image(R!Gain(gain))]
Fc0012GainImage == [gain \in Gains \cup {-99} |-> Image(F!Gain(gain))]
BandImage == [rate \in WideRates |-> Image(R!Bandwidth(D!Recorded(rate) \div 1000))]
RateImage == [rate \in Rates |-> Image(D!Resampler(rate))]
AgcImage == [enable \in BOOLEAN |-> Image(D!DigitalAgc(enable))]
StandbyImage == Image(R!Standby)

\* Whatever the registers held before and whichever accesses failed on the way, the device
\* that open returns has been detected as what it is and its demodulator is in the mode of
\* that tuner: powered, ADC channels and spectrum inversion as for its kind of IF, packets of
\* 512 bytes, coefficients that unpack to the filter kernel, and an NCO that cancels the IF
\* the library remembers.  A register that the application writes itself is its own affair
\* until the library writes it again.
\* (open_path, rtl::init, configure_r820t, configure_fc0012, set_if_freq)
ModeFitsTuner ==
    phase = "open" =>
        /\ class = board.tuner
        /\ \A at \in DOMAIN ModeOf(class) \ touched : Byte(at) = ModeOf(class)[at]
        /\ Byte(DEMOD_CTL) = \hE8 /\ Byte(DEMOD_CTL_1) = \h22 /\ Byte(EPA_MAXPKT) = 2
        /\ \A i \in DOMAIN D!filter_kernel : Tap(i) = D!filter_kernel[i]
        /\ settings.nco # Unknown => NcoAt(If)

\* What a call has set stays set, bit for bit, until a call about the same thing: no other
\* call, succeeding, refused or failing at any of its accesses, disturbs the bits it shares
\* registers with, though the library rewrites them from a shadow file that a failed write
\* may have left behind.  (tuner::rmw, r820t::set_freq, set_bandwidth, the gain setters,
\* fc0012::set_freq, rtl::set_sample_rate, set_digital_agc)
SettingsStand ==
    phase = "open" =>
        /\ settings.freq # Unknown =>
               Shows(memory, IF class = "R820T" THEN R820tTuneImage[settings.freq]
                             ELSE Fc0012TuneImage[settings.freq], DOMAIN ModeOf(class))
        /\ settings.gain # Unknown =>
               Shows(memory, IF class = "R820T" THEN R820tGainImage[settings.gain[1]]
                             ELSE Fc0012GainImage[settings.gain[1]], {})
        /\ settings.band # Unknown => Shows(memory, BandImage[settings.band[1]], {})
        /\ settings.rate # Unknown => Shows(memory, RateImage[settings.rate[1]], {})
        /\ settings.agc # Unknown => Shows(memory, AgcImage[settings.agc[1]], {})

SumOf(steps, index) == FoldLeft(+, 0, SubSeq(steps, 1, index + 1))

\* The steps in the chip add up to the gain asked for: for the R820T the LNA's and the
\* mixer's increments together reach the request, and no listed gain below theirs would
\* have (the largest if none does); for the FC0012 the code is that of the highest floor
\* not above the request (the lowest if none).
\* (select_gain_profile, set_lna_gain, set_mixer_gain, resolve_gain_state, fc0012::set_gain)
GainAddsUp ==
    phase = "open" /\ settings.gain # Unknown /\ settings.gain[1] # R!Auto =>
        LET asked == settings.gain[1]
        IN  IF class = "R820T"
            THEN LET total == SumOf(R!lna_db, Number(memory.regs[R!LNA_BIAS] \cap 0..3))
                              + SumOf(R!mixer_db, Number(memory.regs[R!MIXER_DRIVE] \cap 0..3))
                 IN  /\ total >= asked \/ \A i \in DOMAIN R!Profiles : total >= R!Profiles[i][1]
                     /\ \A i \in DOMAIN R!Profiles : R!Profiles[i][1] < total => R!Profiles[i][1] < asked
            ELSE LET code == Number(memory.regs[F!LNA_GAIN] \cap 0..4)
                     state == CHOOSE i \in DOMAIN F!gain_states : F!gain_states[i][2] = code
                 IN  /\ code \in {F!gain_states[i][2] : i \in DOMAIN F!gain_states}
                     /\ F!gain_states[state][1] <= asked \/ state = 1
                     /\ \A i \in DOMAIN F!gain_states : F!gain_states[i][1] <= asked => i <= state

\* A device that was shut down is quiet: the endpoint is halted, the demodulator without
\* power, and a tuner that had started dormant, each unless its own write failed.  One
\* failing write does not keep the others from being tried.
\* (close, rollback_session, rtl::deinit, r820t::standby)
ClosedIsQuiet ==
    phase = "closed" /\ shut.ran =>
        /\ EPA_CTL \notin shut.missed => Byte(EPA_CTL) = \h1002
        /\ DEMOD_CTL \notin shut.missed => Byte(DEMOD_CTL) = \h20
        /\ shut.tuner /\ class = "R820T" => Shows(memory, StandbyImage, shut.missed)

\* A comment of fc0012::set_freq: the mode registers, written before every tune, ensure the
\* mode whatever was written to them since the device was opened.
ModeReasserted ==
    [][class = "FC0012" /\ settings'.freq \notin {settings.freq, Unknown}
           => \A at \in DOMAIN ModeOf(class) : Byte(at)' = ModeOf(class)[at]]_vars
=============================================================================
