----------------------------- MODULE Registers ------------------------------
(***************************************************************************)
(* Registers of the RTL2832U and of the tuner behind it, and the accesses  *)
(* the programs of the other register modules are made of                  *)
(* (src/sdrgg_rtl.cpp 80-188, 382-464, 510-525).                           *)
(*                                                                         *)
(* A program is a sequence of accesses.  Each names the register, the      *)
(* value, the bits of it that are written, and what happens to the rest of *)
(* the program if its transfer fails.  The bits that are not written come  *)
(* from the R820T's shadow file, for other registers from the chip.  The   *)
(* content of a register is the set of its bits that are one.              *)
(***************************************************************************)
EXTENDS Integers, Sequences, SequencesExt

Whole == 0..15

Bits(number) == {i \in Whole : (number \div 2^i) % 2 = 1}

Number(bits) ==
    LET sum[i \in 0..16] == IF i = 0 THEN 0 ELSE sum[i - 1] + (IF i - 1 \in bits THEN 2^(i - 1) ELSE 0)
    IN  sum[16]

Demod(page, reg) == <<"demod", 256 * page + reg>>
Usb(reg) == <<"usb", reg>>
Sys(reg) == <<"sys", reg>>
R820t(reg) == <<"r820t", reg>>
Fc0012(reg) == <<"fc0012", reg>>
IfOffset == <<"memory", 0>>      \* tuning.if_offset_hz, in kHz: no transfer
ShadowOf(at) == <<"shadow", at[2]>>  \* a register of the R820T's shadow file: no transfer either

EPA_CTL == Usb(\h2148)
EPA_MAXPKT == Usb(\h2158)
SYSCTL == Usb(\h2000)
DEMOD_CTL == Sys(\h3000)
DEMOD_CTL_1 == Sys(\h300B)
GPO == Sys(\h3001)
GPOE == Sys(\h3003)
GPD == Sys(\h3004)

Put(at, value) == [at |-> at, value |-> Bits(value), mask |-> Whole, fails |-> "stop"]
Field(at, value, mask) == [Put(at, value) EXCEPT !.mask = Bits(mask)]  \* tuner::rmw
Ignored(access) == [access EXCEPT !.fails = "go"]                      \* nobody looks at its rc
Remember(khz) == Put(IfOffset, khz)

\* The accesses of a program whose result is ignored: a failure skips the rest of it.
Abandoned(program) == [i \in DOMAIN program |-> [program[i] EXCEPT !.fails = "skip"]]

\* rtl::set_gpio_output and set_gpio_bit; a pin is a bit of the three registers
SetGpioOutput(pin) == << Ignored(Field(GPD, 0, 2^pin)), Ignored(Field(GPOE, 2^pin, 2^pin)) >>
SetGpioBit(pin, level) == << Ignored(Field(GPO, level * 2^pin, 2^pin)) >>
OfGpio(access) == access.at \in {GPO, GPOE, GPD}

\* demod::write of a block, 0, 1 or 2, and a register
DemodWrite(block, reg, value) ==
    CASE block = 0 -> Put(<<"demod", reg>>, value)
      [] block = 1 -> Put(Usb(reg), value)
      [] block = 2 -> Put(Sys(reg), value)

-----------------------------------------------------------------------------
(* A memory is the registers, the shadow file and the GPIO pins that have  *)
(* been pulsed.                                                            *)

Merged(old, value, mask) == (old \ mask) \cup (value \cap mask)

\* A rising reset bit of 1:01 clears the NCO.
AfterWrite(regs, at, value) ==
    IF at = Demod(1, 1) /\ 2 \in value
    THEN [regs EXCEPT ![at] = value, ![Demod(1, \h19)] = {}, ![Demod(1, \h1A)] = {}, ![Demod(1, \h1B)] = {}]
    ELSE [regs EXCEPT ![at] = value]

Shadowed(at) == at[1] \in {"r820t", "shadow"}
NoTransfer(at) == at[1] \in {"memory", "shadow"}

Old(m, access) == IF Shadowed(access.at) THEN m.shadow[access.at[2]] ELSE m.regs[access.at]

\* The device has done it, and the library knows unless the answer was lost.
Do(m, access, old, answered) ==
    LET value == Merged(old, access.value, access.mask)
    IN  [regs |-> IF access.at[1] = "shadow" THEN m.regs ELSE AfterWrite(m.regs, access.at, value),
         shadow |-> IF Shadowed(access.at) /\ answered
                    THEN [m.shadow EXCEPT ![access.at[2]] = value] ELSE m.shadow,
         pulsed |-> IF access.at = GPO THEN m.pulsed \cup ((m.regs[GPO] \ value) \cap {4, 7}) ELSE m.pulsed]

Succeed(m, access) == Do(m, access, Old(m, access), TRUE)

Run(m, program) ==
    LET after[i \in 0..Len(program)] == IF i = 0 THEN m ELSE Succeed(after[i - 1], program[i])
    IN  after[Len(program)]

\* The ways an access may fail.  A failing read of a GPIO register leaves the byte that is
\* then written back uninitialised: all zeros or all ones stand for what it may be.
Failures(access) ==
    IF NoTransfer(access.at) THEN {}
    ELSE IF access.fails = "retry" THEN {"lost"}
    ELSE {"lost", "late"} \cup (IF OfGpio(access) THEN {"zeros", "ones"} ELSE {})

Failed(m, access, how) ==
    CASE how = "lost" -> m
      [] how = "late" -> Do(m, access, Old(m, access), FALSE)
      [] how = "zeros" -> Do(m, access, {}, TRUE)
      [] how = "ones" -> Do(m, access, 0..7, TRUE)

\* What follows access k of a program when it fails.
Rest(program, k) ==
    LET after == SubSeq(program, k + 1, Len(program))
    IN  CASE program[k].fails = "stop" -> <<>>
          [] program[k].fails = "go" -> after
          [] program[k].fails = "skip" -> SelectSeq(after, LAMBDA access : access.fails # "skip")
          [] program[k].fails = "retry" -> <<program[k]>> \o after

\* A program whose access k fails, and one during which nothing does (k = 0).
RunWith(m, program, k, how) ==
    IF k = 0 THEN Run(m, program)
    ELSE Run(Failed(Run(m, SubSeq(program, 1, k - 1)), program[k], how), Rest(program, k))

ReturnsOk(program, k) == k = 0 \/ program[k].fails # "stop"

-----------------------------------------------------------------------------
(* What a program makes of registers, whatever they were before: the bits  *)
(* it writes and what they become.                                         *)

Targets(program) == {program[i].at : i \in DOMAIN program}

Image(program) ==
    LET last(at, bit) == SelectLastInSeq(program, LAMBDA access : access.at = at /\ bit \in access.mask)
    IN  [at \in Targets(program) |->
            [mask |-> {bit \in Whole : last(at, bit) # 0},
             value |-> {bit \in Whole : last(at, bit) # 0 /\ bit \in program[last(at, bit)].value}]]

\* All of them but some, in a memory
Shows(m, image, others) ==
    \A at \in DOMAIN image \ others : m.regs[at] \cap image[at].mask = image[at].value
=============================================================================
