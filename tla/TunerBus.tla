------------------------------ MODULE TunerBus ------------------------------
(***************************************************************************)
(* Configuration of one device down to its registers: set_frequency,       *)
(* set_sample_rate and set_gain (src/sdrgg_core.cpp 432-548), reset_demod  *)
(* and reset_tuner (src/sdrgg_reset.cpp 33-93), the tuner access they are  *)
(* made of and the batch of writes an application can make itself          *)
(* (src/sdrgg_rtl.cpp 258-486), the R820T with its shadow registers and    *)
(* the FC0012 without.                                                     *)
(*                                                                         *)
(* A call is a program of register operations, run one control transfer at *)
(* a time.  A transfer may be lost, or may time out after the device did   *)
(* it.  The tuner is reached through a gate: one bit of the demodulator    *)
(* register 1:01, whose other bit resets the DDC and which every write     *)
(* replaces as a whole.  An I2C transfer through a closed gate fails.      *)
(* set_* take dev->lock; the resets and the batch do not.                  *)
(*                                                                         *)
(* A tuner register holds the fields its users mask out (Layout), as       *)
(* small numbers.  Left out: mode, GPIO and endpoint registers, and the    *)
(* pause of the bulk endpoint.                                             *)
(***************************************************************************)
EXTENDS Integers, Sequences

CONSTANTS
    Threads,
    NoThread,
    Tuners,          \* the tuners to look at, of "R820T" and "FC0012"
    Freqs, Rates, Gains,
    DefaultIf,       \* SDRGG_R820T_IF_FREQ
    WideIf,          \* the IF of set_bandwidth for each rate, 0 for those below 2 MS/s
    UnlockedOverlap, \* may a call that takes no lock run beside another?
    MaxCalls,        \* bound on the calls made
    MaxErrors        \* bound on the transfers that fail

GainAuto == 0            \* SDRGG_GAIN_AUTO
Junk == 99           \* a register of several bytes of which only some were written

ASSUME TunerBusAssumption ==
    /\ NoThread \notin Threads
    /\ Tuners \subseteq {"R820T", "FC0012"}
    /\ Freqs \cup Rates \cup Gains \cup {DefaultIf} \subseteq 0..(Junk - 1)
    /\ GainAuto \in Gains /\ DefaultIf # 0
    /\ WideIf \in [Rates -> 0..(Junk - 1)]
    /\ UnlockedOverlap \in BOOLEAN
    /\ MaxCalls \in Nat /\ MaxErrors \in Nat

Layout ==
    [MUX_ROUTING |-> {"path", "step"}, PLL_WORD |-> {"freq", "if"}, VCO_DRIVE |-> {"current"},
     LNA_BIAS |-> {"headroom", "gain"}, MIXER_DRIVE |-> {"gain"}, IF_STAGE |-> {"gain"},
     FILT_BIAS |-> {"current", "band"},
     LNA_OVERRIDE |-> {"manual"}, LNA_GAIN |-> {"gain"}]

Registers == DOMAIN Layout
Blank == [r \in Registers |-> [f \in Layout[r] |-> 0]]

NoCall == [api |-> "none", arg |-> 0]
Locked == {"set_frequency", "set_sample_rate", "set_gain"}
Unlocked == {"reset_demod", "reset_tuner", "write_batch"}
Calls == [api : {"set_frequency"}, arg : Freqs]
         \cup [api : {"set_sample_rate"}, arg : Rates]
         \cup [api : {"set_gain"}, arg : Gains]
         \cup [api : Unlocked, arg : {0}]

VARIABLES
    tuner,       \* identity.tuner_class
    demod,       \* the demodulator: gate and reset bit of 1:01, NCO word, resampler ratio
    chip,        \* the registers of the tuner
    shadow,      \* shadow.r820t_file
    record,      \* dev->tuning
    lock,        \* dev->lock
    call, todo,  \* what each thread is called for and has left of it
    pc, image,   \* where it is in an operation, and the byte it writes or has read
    failed,      \* its rc
    calls, errors,
    sure,        \* records the last call that concerns them left OK
    doubt,       \* tuner registers whose last write failed
    gate_doubt   \* did the last write of the gate fail?

device == <<tuner, demod, chip, shadow>>
thread == <<call, todo, pc, image, failed>>
history == <<sure, doubt, gate_doubt>>
vars == <<device, record, lock, thread, calls, errors, history>>

Init ==
    /\ tuner \in Tuners
    /\ demod = [gate |-> tuner = "FC0012", reset |-> FALSE,
                nco |-> IF tuner = "R820T" THEN DefaultIf ELSE 0, ratio |-> 0]
    /\ chip = Blank
    /\ shadow = Blank
    /\ record = [center |-> 0, rate |-> 0, if_offset |-> demod.nco, gain |-> 1]
    /\ lock = NoThread
    /\ call = [t \in Threads |-> NoCall]
    /\ todo = [t \in Threads |-> <<>>]
    /\ pc = [t \in Threads |-> "idle"]
    /\ image = [t \in Threads |-> <<>>]
    /\ failed = [t \in Threads |-> FALSE]
    /\ calls = 0
    /\ errors = 0
    /\ sure = {"nco"}
    /\ doubt = {}
    /\ gate_doubt = FALSE

-----------------------------------------------------------------------------
(* The operations calls are made of, and the programs of the calls.        *)

Rmw(reg, fields) == [op |-> "rmw", reg |-> reg, fields |-> fields]      \* tuner::rmw, write_reg
Probe(last) == [op |-> "probe", reg |-> "VCO_DRIVE", last |-> last]     \* probe_lock_status
WireRead(reg) == [op |-> "wire_read", reg |-> reg]
WireWrite(reg, fields) == [op |-> "wire_write", reg |-> reg, fields |-> fields, soft |-> FALSE]
Ignored(write) == [write EXCEPT !.soft = TRUE]                          \* its rc is not looked at
SessionWrite(reg) == [op |-> "session_write", reg |-> reg]              \* of zeros
Set(name, value) == [op |-> name, value |-> value]                      \* of the demodulator

Unchanged == [f \in {} |-> 0]

\* r820t::set_freq for lo_target = freq + if: path, synthesis, lock, analog profile.
R820tTune(freq, if) ==
    << Rmw("MUX_ROUTING", [path |-> freq]),
       Rmw("MUX_ROUTING", [step |-> 0]),
       Rmw("VCO_DRIVE", [current |-> 0]),
       Rmw("PLL_WORD", [freq |-> freq, if |-> if]),
       Probe(FALSE),
       Rmw("MUX_ROUTING", [step |-> 1]),
       Rmw("FILT_BIAS", [current |-> 1]),
       Rmw("LNA_BIAS", [headroom |-> 1]) >>

Fc0012Tune(freq) == << WireWrite("PLL_WORD", [freq |-> freq, if |-> 0]) >>

\* The mixer keeps the step it has when the gain becomes automatic.
R820tGain(gain) ==
    << Rmw("LNA_BIAS", [gain |-> gain]),
       Rmw("MIXER_DRIVE", IF gain = GainAuto THEN Unchanged ELSE [gain |-> gain]),
       Rmw("IF_STAGE", [gain |-> gain]) >>

Fc0012Gain(gain) ==
    IF gain = GainAuto
    THEN << WireRead("LNA_OVERRIDE"), WireWrite("LNA_OVERRIDE", [manual |-> 0]) >>
    ELSE << WireRead("LNA_OVERRIDE"), WireWrite("LNA_OVERRIDE", [manual |-> 1]),
            WireRead("LNA_GAIN"), WireWrite("LNA_GAIN", [gain |-> gain]) >>

\* rtl::set_if_freq
IfProgram(if) == << Set("nco", if) >>

\* r820t::set_bandwidth
Bandwidth(rate) ==
    IF tuner = "R820T" /\ WideIf[rate] # 0
    THEN << Rmw("FILT_BIAS", [band |-> rate]) >> \o IfProgram(WideIf[rate])
    ELSE <<>>

\* Mutant of RateProgram: the NCO stays as the reset of the DDC left it.
RateProgramNoNco(rate) == Bandwidth(rate) \o << Set("ratio", rate), Set("ddc", TRUE), Set("ddc", FALSE) >>

\* rtl::set_sample_rate after it has stored the rate; the NCO is written again last
RateProgram(rate) ==
    Bandwidth(rate) \o << Set("ratio", rate), Set("ddc", TRUE), Set("ddc", FALSE), Set("nco_again", 0) >>

DemodProgram == << Set("peek", 0), Set("poke", TRUE), Set("poke", FALSE) >>

\* All registers from the shadow file, under a gate of its own; or fc0012::init.
TunerProgram ==
    IF tuner = "R820T"
    THEN << Set("gate", TRUE),
            Rmw("LNA_BIAS", Unchanged), Rmw("MIXER_DRIVE", Unchanged), Rmw("FILT_BIAS", Unchanged),
            Rmw("IF_STAGE", Unchanged), Rmw("VCO_DRIVE", Unchanged), Rmw("PLL_WORD", Unchanged),
            Rmw("MUX_ROUTING", Unchanged),
            Set("gate", FALSE) >>
    ELSE << WireWrite("PLL_WORD", [freq |-> 0, if |-> 0]),
            WireWrite("LNA_OVERRIDE", [manual |-> 0]),
            WireWrite("LNA_GAIN", [gain |-> 0]),
            Ignored(WireWrite("LNA_OVERRIDE", [manual |-> 1])),
            Ignored(WireWrite("LNA_GAIN", [gain |-> 1])) >>

\* tuner::write_batch, with registers of the gain: one gate around all writes
BatchProgram ==
    << Set("session", TRUE) >>
    \o (IF tuner = "R820T" THEN << SessionWrite("LNA_BIAS"), SessionWrite("FILT_BIAS") >>
        ELSE << SessionWrite("LNA_OVERRIDE"), SessionWrite("LNA_GAIN") >>)
    \o << Set("session", FALSE) >>

Program(c) ==
    CASE c.api = "set_frequency" ->
           IF tuner = "R820T" THEN R820tTune(c.arg, record.if_offset) ELSE Fc0012Tune(c.arg)
      [] c.api = "set_sample_rate" -> RateProgram(c.arg)
      [] c.api = "set_gain" -> IF tuner = "R820T" THEN R820tGain(c.arg) ELSE Fc0012Gain(c.arg)
      [] c.api = "reset_demod" -> DemodProgram
      [] c.api = "reset_tuner" -> TunerProgram
      [] c.api = "write_batch" -> BatchProgram

-----------------------------------------------------------------------------
(* Calls begin and end.                                                    *)

InCall(t) == call[t] # NoCall
AtRest == \A t \in Threads : ~InCall(t)

\* May a call of this function begin beside the ones under way?
MayBegin(api) ==
    \/ UnlockedOverlap
    \/ \A u \in Threads : InCall(u) => api \notin Unlocked /\ call[u].api \notin Unlocked

Invoke(t, c) ==
    /\ ~InCall(t)
    /\ calls < MaxCalls
    /\ MayBegin(c.api)
    /\ calls' = calls + 1
    /\ call' = [call EXCEPT ![t] = c]
    /\ failed' = [failed EXCEPT ![t] = FALSE]
    /\ pc' = [pc EXCEPT ![t] = IF c.api \in Locked THEN "lock" ELSE "run"]
    /\ todo' = IF c.api \in Locked THEN todo ELSE [todo EXCEPT ![t] = Program(c)]
    /\ UNCHANGED <<device, record, lock, image, errors, history>>

\* Mutant of Acquire: a call does not wait for the lock.
AcquireUnlocked(t) ==
    /\ pc[t] = "lock"
    /\ lock' = t
    /\ pc' = [pc EXCEPT ![t] = "run"]
    /\ todo' = [todo EXCEPT ![t] = Program(call[t])]
    /\ record' = IF call[t].api = "set_sample_rate" THEN [record EXCEPT !.rate = call[t].arg] ELSE record
    /\ UNCHANGED <<device, call, image, failed, calls, errors, history>>

\* The rate is recorded before anything is written for it.
Acquire(t) ==
    /\ pc[t] = "lock"
    /\ lock = NoThread
    /\ lock' = t
    /\ pc' = [pc EXCEPT ![t] = "run"]
    /\ todo' = [todo EXCEPT ![t] = Program(call[t])]
    /\ record' = IF call[t].api = "set_sample_rate" THEN [record EXCEPT !.rate = call[t].arg] ELSE record
    /\ UNCHANGED <<device, call, image, failed, calls, errors, history>>

\* What a call leaves unsure if it fails, and what it makes sure if not.  A new IF
\* moves the frequency received until the next set_frequency.
Concerns(c) ==
    CASE c.api = "set_frequency" -> {"freq"}
      [] c.api = "set_sample_rate" ->
           {"rate", "nco"} \cup IF Bandwidth(c.arg) = <<>> THEN {} ELSE {"freq"}
      [] c.api \in {"set_gain", "write_batch"} -> {"gain"}
      [] c.api = "reset_demod" -> {"nco"}
      [] c.api = "reset_tuner" -> IF tuner = "R820T" THEN {} ELSE {"freq", "gain"}

Settles(c) == CASE c.api = "set_sample_rate" -> {"rate", "nco"}
                [] c.api \in Unlocked -> {}
                [] OTHER -> Concerns(c)

Recorded(c) ==
    CASE c.api = "set_frequency" -> [record EXCEPT !.center = c.arg]
      [] c.api = "set_gain" -> [record EXCEPT !.gain = c.arg]
      [] OTHER -> record

Return(t) ==
    /\ InCall(t)
    /\ pc[t] = "run"
    /\ todo[t] = <<>>
    /\ record' = IF failed[t] THEN record ELSE Recorded(call[t])
    /\ sure' = (sure \ Concerns(call[t])) \cup (IF failed[t] THEN {} ELSE Settles(call[t]))
    /\ lock' = IF lock = t THEN NoThread ELSE lock
    /\ call' = [call EXCEPT ![t] = NoCall]
    /\ pc' = [pc EXCEPT ![t] = "idle"]
    /\ image' = [image EXCEPT ![t] = <<>>]
    /\ failed' = [failed EXCEPT ![t] = FALSE]
    /\ UNCHANGED <<device, todo, calls, errors, doubt, gate_doubt>>

-----------------------------------------------------------------------------
(* Control transfers.  A lost one has no effect, a late one timed out when *)
(* the device had done it, a torn one wrote some of several bytes.         *)

Outcomes == {"ok", "lost", "late"}

Transfer(outcome) ==
    /\ outcome # "ok" => errors < MaxErrors
    /\ errors' = IF outcome = "ok" THEN errors ELSE errors + 1

Doing(t, ops) ==
    /\ pc[t] = "run"
    /\ todo[t] # <<>>
    /\ Head(todo[t]).op \in ops

Value(t) == Head(todo[t]).value

\* reset_tuner and write_batch close their gate also when a register cannot be written.
Cleanup(t) ==
    IF \/ call[t].api = "reset_tuner" /\ Len(todo[t]) > 1 /\ Head(todo[t]).op = "rmw"
       \/ Head(todo[t]).op = "session_write"
    THEN << Set("gate", FALSE) >>
    ELSE <<>>

\* The operation at hand is over; an error ends the call.
Done(t, ok) ==
    /\ todo' = [todo EXCEPT ![t] = IF ok THEN Tail(@) ELSE Cleanup(t)]
    /\ failed' = [failed EXCEPT ![t] = @ \/ ~ok]
    /\ pc' = [pc EXCEPT ![t] = "run"]

\* A write of demodulator register 1:01; setting its reset bit clears the NCO.
WriteControl(outcome, gate, reset) ==
    demod' = IF outcome = "lost" THEN demod
             ELSE [demod EXCEPT !.gate = gate, !.reset = reset, !.nco = IF reset THEN 0 ELSE @]

\* The gate around all of reset_tuner, or of a session: opening it can fail; closing is
\* only looked at by write_batch, when all is written.
SwitchGate(t, outcome) ==
    /\ Doing(t, {"gate", "session"})
    /\ Transfer(outcome)
    /\ WriteControl(outcome, Value(t), FALSE)
    /\ gate_doubt' = (outcome # "ok")
    /\ Done(t, outcome = "ok" \/ (Head(todo[t]).op = "gate" /\ ~Value(t)))
    /\ UNCHANGED <<tuner, chip, shadow, record, lock, call, image, calls, sure, doubt>>

\* set_sample_rate writes 0x14, then 0x10: neither value has the gate bit.
ResetDdc(t, outcome) ==
    /\ Doing(t, {"ddc"})
    /\ Transfer(outcome)
    /\ WriteControl(outcome, FALSE, Value(t))
    /\ gate_doubt' = (outcome # "ok")
    /\ Done(t, outcome = "ok")
    /\ UNCHANGED <<tuner, chip, shadow, record, lock, call, image, calls, sure, doubt>>

\* reset_demod reads the register once and writes it twice.
Peek(t, outcome) ==
    /\ Doing(t, {"peek"})
    /\ Transfer(outcome)
    /\ image' = [image EXCEPT ![t] = [gate |-> demod.gate]]
    /\ Done(t, outcome = "ok")
    /\ UNCHANGED <<device, record, lock, call, calls, history>>

Poke(t, outcome) ==
    /\ Doing(t, {"poke"})
    /\ Transfer(outcome)
    /\ WriteControl(outcome, image[t].gate, Value(t))
    /\ gate_doubt' = (gate_doubt \/ outcome # "ok")
    /\ Done(t, outcome = "ok")
    /\ UNCHANGED <<tuner, chip, shadow, record, lock, call, image, calls, sure, doubt>>

\* Registers of several bytes: an error leaves the old, the new or a mixed value.
SetRatio(t, outcome) ==
    /\ Doing(t, {"ratio"})
    /\ Transfer(outcome)
    /\ demod' = [demod EXCEPT !.ratio = CASE outcome = "lost" -> @
                                          [] outcome = "torn" -> Junk
                                          [] OTHER -> Value(t)]
    /\ Done(t, outcome = "ok")
    /\ UNCHANGED <<tuner, chip, shadow, record, lock, call, image, calls, history>>

\* The value set_if_freq is called with; after a DDC reset it is the stored one.
IfTarget(t) == IF Head(todo[t]).op = "nco_again" THEN record.if_offset ELSE Value(t)

SetNco(t, outcome) ==
    /\ Doing(t, {"nco", "nco_again"})
    /\ IfTarget(t) # 0
    /\ Transfer(outcome)
    /\ demod' = [demod EXCEPT !.nco = CASE outcome = "lost" -> @
                                        [] outcome = "torn" -> Junk
                                        [] OTHER -> IfTarget(t)]
    /\ record' = IF outcome = "ok" THEN [record EXCEPT !.if_offset = IfTarget(t)] ELSE record
    /\ Done(t, outcome = "ok")
    /\ UNCHANGED <<tuner, chip, shadow, lock, call, image, calls, history>>

\* A zero-IF tuner needs no NCO after the reset.
SkipNco(t) ==
    /\ Doing(t, {"nco_again"})
    /\ IfTarget(t) = 0
    /\ Done(t, TRUE)
    /\ UNCHANGED <<device, record, lock, call, image, calls, errors, history>>

-----------------------------------------------------------------------------
(* Tuner registers.  tuner::read and write open the gate, transfer, close; *)
(* wire_read and wire_write of the FC0012 open it and leave it open.       *)

Scoped == {"rmw", "probe"}
Wired == {"wire_read", "wire_write"}

\* The byte with the fields given replaced
Over(fields, byte) == [f \in DOMAIN byte |-> IF f \in DOMAIN fields THEN fields[f] ELSE byte[f]]

\* Mutant of Composed: the fields not given are cleared, as by an inverted mask.
ComposedCleared(t) ==
    IF Head(todo[t]).op \in {"rmw", "wire_write"}
    THEN Over(Head(todo[t]).fields, Blank[Head(todo[t]).reg])
    ELSE <<>>

\* The byte to write: the fields given, the others from the shadow file, or from
\* what was read before.
Composed(t) ==
    LET operation == Head(todo[t])
        byte == IF operation.op = "rmw" THEN shadow[operation.reg]
                ELSE IF image[t] # <<>> THEN image[t] ELSE Blank[operation.reg]
    IN  IF operation.op \in {"rmw", "wire_write"} THEN Over(operation.fields, byte) ELSE <<>>

\* set_gain of the FC0012 does not write an LNA override that is already there.
AlreadySet(t) ==
    LET operation == Head(todo[t])
    IN  /\ operation.op = "wire_write"
        /\ call[t].api = "set_gain" /\ call[t].arg # GainAuto
        /\ operation.reg = "LNA_OVERRIDE"
        /\ image[t].manual = 1

SkipWire(t) ==
    /\ Doing(t, {"wire_write"})
    /\ AlreadySet(t)
    /\ image' = [image EXCEPT ![t] = <<>>]
    /\ Done(t, TRUE)
    /\ UNCHANGED <<device, record, lock, call, calls, errors, history>>

OpenGate(t, outcome) ==
    /\ Doing(t, Scoped \cup Wired)
    /\ ~AlreadySet(t)
    /\ Transfer(outcome)
    /\ WriteControl(outcome, TRUE, FALSE)
    /\ gate_doubt' = (outcome # "ok")
    /\ image' = [image EXCEPT ![t] = Composed(t)]
    /\ IF outcome = "ok" \/ Doing(t, Wired)
       THEN /\ pc' = [pc EXCEPT ![t] = "xfer"]
            /\ UNCHANGED <<todo, failed>>
       ELSE Done(t, FALSE)
    /\ UNCHANGED <<tuner, chip, shadow, record, lock, call, calls, sure, doubt>>

\* Is this operation's register written, and does the I2C transfer reach the tuner?
Writes(t) == Head(todo[t]).op \in {"rmw", "wire_write", "session_write"}
Reaches(outcome) == demod.gate /\ outcome # "lost"
Succeeds(outcome) == demod.gate /\ outcome = "ok"

I2cEffect(t, outcome, byte) ==
    LET reg == Head(todo[t]).reg
    IN  /\ chip' = IF Writes(t) /\ Reaches(outcome) THEN [chip EXCEPT ![reg] = byte] ELSE chip
        /\ doubt' = IF ~Writes(t) THEN doubt
                    ELSE IF Succeeds(outcome) THEN doubt \ {reg} ELSE doubt \cup {reg}

\* The R820T's transfer inside the gate; its rc is returned after the gate is closed.
ScopedTransfer(t, outcome) ==
    /\ pc[t] = "xfer"
    /\ Head(todo[t]).op \in Scoped
    /\ Transfer(outcome)
    /\ I2cEffect(t, outcome, image[t])
    /\ failed' = [failed EXCEPT ![t] = ~Succeeds(outcome)]
    /\ pc' = [pc EXCEPT ![t] = "close"]
    /\ UNCHANGED <<tuner, demod, shadow, record, lock, call, todo, image, calls, sure, gate_doubt>>

\* Mutant of CloseGate: the range check leaves out the last register.
CloseGateShort(t, outcome) ==
    /\ pc[t] = "close"
    /\ Head(todo[t]).op = "rmw" \/ failed[t]
    /\ Transfer(outcome)
    /\ WriteControl(outcome, FALSE, FALSE)
    /\ gate_doubt' = (outcome # "ok")
    /\ shadow' = IF failed[t] \/ Head(todo[t]).reg = "MUX_ROUTING" THEN shadow
                 ELSE [shadow EXCEPT ![Head(todo[t]).reg] = image[t]]
    /\ Done(t, ~failed[t])
    /\ UNCHANGED <<tuner, chip, record, lock, call, image, calls, sure, doubt>>

\* The shadow takes the byte when the transfer had succeeded; the result of closing
\* is not looked at.
CloseGate(t, outcome) ==
    /\ pc[t] = "close"
    /\ Head(todo[t]).op = "rmw" \/ failed[t]
    /\ Transfer(outcome)
    /\ WriteControl(outcome, FALSE, FALSE)
    /\ gate_doubt' = (outcome # "ok")
    /\ shadow' = IF failed[t] THEN shadow ELSE [shadow EXCEPT ![Head(todo[t]).reg] = image[t]]
    /\ Done(t, ~failed[t])
    /\ UNCHANGED <<tuner, chip, record, lock, call, image, calls, sure, doubt>>

\* acquire_lock: when the PLL has not locked the VCO gets more current, once.
CloseAfterProbe(t, outcome, locked) ==
    /\ pc[t] = "close"
    /\ Head(todo[t]).op = "probe" /\ ~failed[t]
    /\ Transfer(outcome)
    /\ WriteControl(outcome, FALSE, FALSE)
    /\ gate_doubt' = (outcome # "ok")
    /\ IF locked \/ Head(todo[t]).last
       THEN Done(t, locked)
       ELSE /\ todo' = [todo EXCEPT ![t] = << Rmw("VCO_DRIVE", [current |-> 1]), Probe(TRUE) >> \o Tail(@)]
            /\ pc' = [pc EXCEPT ![t] = "run"]
            /\ UNCHANGED failed
    /\ UNCHANGED <<tuner, chip, shadow, record, lock, call, image, calls, sure, doubt>>

\* The FC0012's transfer, whatever became of the gate.
WireTransfer(t, outcome) ==
    /\ pc[t] = "xfer"
    /\ Head(todo[t]).op \in Wired
    /\ Transfer(outcome)
    /\ I2cEffect(t, outcome, image[t])
    /\ image' = [image EXCEPT ![t] = IF Writes(t) THEN <<>> ELSE chip[Head(todo[t]).reg]]
    /\ Done(t, Succeeds(outcome) \/ (Writes(t) /\ Head(todo[t]).soft))
    /\ UNCHANGED <<tuner, demod, shadow, record, lock, call, calls, sure, gate_doubt>>

\* A write of a session: the shadow of the R820T takes the byte with the answer.
SessionTransfer(t, outcome) ==
    /\ Doing(t, {"session_write"})
    /\ Transfer(outcome)
    /\ LET reg == Head(todo[t]).reg
       IN  /\ I2cEffect(t, outcome, Blank[reg])
           /\ shadow' = IF Succeeds(outcome) /\ tuner = "R820T"
                        THEN [shadow EXCEPT ![reg] = Blank[reg]] ELSE shadow
    /\ Done(t, Succeeds(outcome))
    /\ UNCHANGED <<tuner, demod, record, lock, call, image, calls, sure, gate_doubt>>

Step(t) ==
    \/ Acquire(t)
    \/ Return(t)
    \/ SkipNco(t)
    \/ SkipWire(t)
    \/ \E outcome \in Outcomes :
         \/ SwitchGate(t, outcome)
         \/ ResetDdc(t, outcome)
         \/ Peek(t, outcome)
         \/ Poke(t, outcome)
         \/ OpenGate(t, outcome)
         \/ ScopedTransfer(t, outcome)
         \/ CloseGate(t, outcome)
         \/ \E locked \in BOOLEAN : CloseAfterProbe(t, outcome, locked)
         \/ WireTransfer(t, outcome)
         \/ SessionTransfer(t, outcome)
    \/ \E outcome \in Outcomes \cup {"torn"} : SetRatio(t, outcome) \/ SetNco(t, outcome)

Next == \E t \in Threads : Step(t) \/ \E c \in Calls : Invoke(t, c)

Spec == Init /\ [][Next]_vars

-----------------------------------------------------------------------------
(* Properties.                                                             *)

TypeOK ==
    /\ tuner \in Tuners
    /\ demod \in [gate : BOOLEAN, reset : BOOLEAN, nco : 0..Junk, ratio : 0..Junk]
    /\ \A registers \in {chip, shadow} :
         /\ DOMAIN registers = Registers
         /\ \A r \in Registers : registers[r] \in [Layout[r] -> 0..(Junk - 1)]
    /\ record \in [center : Freqs \cup {0}, rate : Rates \cup {0},
                   if_offset : 0..(Junk - 1), gain : Gains \cup {1}]
    /\ lock \in Threads \cup {NoThread}
    /\ call \in [Threads -> Calls \cup {NoCall}]
    /\ pc \in [Threads -> {"idle", "lock", "run", "xfer", "close"}]
    /\ failed \in [Threads -> BOOLEAN]
    /\ calls \in 0..MaxCalls /\ errors \in 0..MaxErrors
    /\ sure \subseteq {"freq", "rate", "nco", "gain"}
    /\ doubt \subseteq Registers
    /\ gate_doubt \in BOOLEAN

\* The shadow file, which every read-modify-write and reset_tuner start from, is what
\* the R820T holds, but for a register whose last write failed or is not acknowledged.
\* (Every variable has its type.)
ShadowIsChip ==
    /\ TypeOK
    /\ tuner = "R820T" =>
           \A r \in Registers :
               \/ chip[r] = shadow[r]
               \/ r \in doubt
               \/ \E t \in Threads : pc[t] = "close" /\ Head(todo[t]).reg = r

\* A gain that set_gain reported as set stays set: whatever other calls do to the
\* registers the gain shares, complete, failed half-way or in progress.
GainStands ==
    ("gain" \in sure /\ \A t \in Threads : call[t].api \notin {"set_gain", "reset_tuner", "write_batch"}) =>
        IF tuner = "R820T"
        THEN /\ \A r \in {"LNA_BIAS", "IF_STAGE"} : chip[r].gain = record.gain
             /\ record.gain # GainAuto => chip.MIXER_DRIVE.gain = record.gain
        ELSE /\ chip.LNA_OVERRIDE.manual = (IF record.gain = GainAuto THEN 0 ELSE 1)
             /\ record.gain # GainAuto => chip.LNA_GAIN.gain = record.gain

\* At rest the device receives what dev->tuning says, as far as the last calls that
\* concern it succeeded: the rate, the IF of demodulator and tuner, the frequency.
ReceivesAsRecorded ==
    AtRest =>
        /\ "rate" \in sure => demod.ratio = record.rate
        /\ "nco" \in sure => demod.nco = record.if_offset
        /\ {"freq", "nco"} \subseteq sure => chip.PLL_WORD = [freq |-> record.center, if |-> demod.nco]

\* Unless the write of the gate failed, no I2C transfer meets a closed gate, and the
\* R820T's is closed at rest: gate writes of one call do not cross those of another.
GateServesI2c ==
    ~gate_doubt =>
        /\ \A t \in Threads : pc[t] = "xfer" => demod.gate
        /\ (tuner = "R820T" /\ AtRest) => ~demod.gate
=============================================================================
