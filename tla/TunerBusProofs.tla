--------------------------- MODULE TunerBusProofs ---------------------------
(***************************************************************************)
(* Proofs about TunerBus where no call that takes no lock runs beside      *)
(* another, for any threads, tuners, frequencies, rates and gains, and any *)
(* number of calls and errors.                                             *)
(*                                                                         *)
(* From Inv: the shadow file of the R820T is what the chip holds           *)
(* (ShadowIsChip) and no I2C transfer meets a closed gate (GateServesI2c). *)
(* It says that one thread at most is between the lock and its return,     *)
(* what is left of its call (Fits), what its image holds, and what gate,   *)
(* chip and shadow file owe to where it is.                                *)
(*                                                                         *)
(* From Lasting besides: a gain that was set stands (GainStands), and at   *)
(* rest the device receives what dev->tuning says (ReceivesAsRecorded).    *)
(* It says which fields of the registers finished calls have settled, that *)
(* the operations a call has left spare those (Apt), and that they bring   *)
(* about what the call promises unless one fails.                          *)
(***************************************************************************)
EXTENDS TunerBus, SequenceTheorems, TLAPS

-----------------------------------------------------------------------------
(* Values, operations, and what is left of a call.                         *)

Small == 0..(Junk - 1)
FieldNames == {"path", "step", "freq", "if", "current", "headroom", "gain", "band", "manual"}
Fields == UNION {[names -> Small] : names \in SUBSET FieldNames}
Byte(reg) == [Layout[reg] -> Small]
RegisterFile(f) == DOMAIN f = Registers /\ \A r \in Registers : f[r] \in Byte(r)
Demodulator == [gate : BOOLEAN, reset : BOOLEAN, nco : 0..Junk, ratio : 0..Junk]
Tuning == [center : Freqs \cup {0}, rate : Rates \cup {0}, if_offset : Small, gain : Gains \cup {1}]

Operations ==
    [op : {"rmw"}, reg : Registers, fields : Fields]
    \cup [op : {"probe"}, reg : {"VCO_DRIVE"}, last : BOOLEAN]
    \cup [op : {"wire_read"}, reg : Registers]
    \cup [op : {"wire_write"}, reg : Registers, fields : Fields, soft : BOOLEAN]
    \cup [op : {"session_write"}, reg : Registers]
    \cup [op : {"gate", "session", "ddc", "poke"}, value : BOOLEAN]
    \cup [op : {"nco", "ratio", "peek", "nco_again"}, value : Small]

\* The kinds of operation a call is made of, for each tuner
Kinds(tun, c) ==
    CASE c.api = "set_frequency" -> IF tun = "R820T" THEN {"rmw", "probe"} ELSE {"wire_write"}
      [] c.api = "set_sample_rate" ->
           {"nco", "ratio", "ddc", "nco_again"} \cup IF tun = "R820T" THEN {"rmw"} ELSE {}
      [] c.api = "set_gain" -> IF tun = "R820T" THEN {"rmw"} ELSE {"wire_read", "wire_write"}
      [] c.api = "reset_demod" -> {"peek", "poke"}
      [] c.api = "reset_tuner" -> IF tun = "R820T" THEN {"gate", "rmw"} ELSE {"wire_write"}
      [] c.api = "write_batch" -> {"session", "session_write", "gate"}

\* Does this call hold the gate open over its operations?
HoldsGate(tun, c) == c.api = "write_batch" \/ (c.api = "reset_tuner" /\ tun = "R820T")

Closes(operation) == operation.op \in {"gate", "session"} /\ ~operation.value

\* What may be left of a call: operations of its kinds, a read of the FC0012 before the
\* write of the same register, and last the closing of a gate held open.
Fits(tun, c, ops) ==
    /\ \A i \in 1..Len(ops) : ops[i].op \in Kinds(tun, c)
    /\ \A i \in 1..Len(ops) :
         ops[i].op = "wire_read" =>
             i < Len(ops) /\ ops[i + 1].op = "wire_write" /\ ops[i + 1].reg = ops[i].reg
    /\ HoldsGate(tun, c) /\ ops # <<>> => Closes(ops[Len(ops)])

-----------------------------------------------------------------------------
(* The inductive invariant.                                                *)

Active(t) == pc[t] \in {"run", "xfer", "close"}

\* A thread works under the lock or, for a call that takes none, alone.
Exclusive ==
    /\ \A t \in Threads : pc[t] = "idle" <=> call[t] = NoCall
    /\ \A t \in Threads : pc[t] = "lock" => call[t].api \in Locked
    /\ \A t \in Threads : Active(t) /\ call[t].api \in Locked => lock = t
    /\ \A t, u \in Threads : t # u /\ InCall(t) /\ InCall(u) => call[t].api \in Locked

TodoFits(t) ==
    /\ Fits(tuner, call[t], todo[t])
    /\ pc[t] \in {"xfer", "close"} => todo[t] # <<>>
    /\ pc[t] = "xfer" => Head(todo[t]).op \in Scoped \cup Wired
    /\ pc[t] = "close" => Head(todo[t]).op \in Scoped

\* The image is what the FC0012 held in the register written next, or what is written.
ImageFits(t) ==
    /\ pc[t] = "run" =>
         \/ image[t] = <<>>
         \/ call[t].api = "reset_demod"
         \/ tuner = "R820T"
         \/ todo[t] = <<>>
         \/ Head(todo[t]).op = "wire_write" /\ image[t] \in Byte(Head(todo[t]).reg)
    /\ (pc[t] \in {"xfer", "close"} /\ Head(todo[t]).op \in {"rmw", "wire_write"}) =>
         image[t] \in Byte(Head(todo[t]).reg)

\* reset_demod writes back the gate it has read.
PokeFits(t) ==
    (pc[t] = "run" /\ todo[t] # <<>> /\ Head(todo[t]).op = "poke") =>
        image[t].gate \in BOOLEAN /\ (gate_doubt \/ image[t].gate = demod.gate)

\* Before the gate is closed the chip holds the byte written, or the register is in doubt.
CloseFits(t) ==
    (pc[t] = "close" /\ Head(todo[t]).op = "rmw") =>
        IF failed[t] THEN Head(todo[t]).reg \in doubt ELSE chip[Head(todo[t]).reg] = image[t]

\* The gate is open around a transfer, the R820T's only then or within a call that holds it.
GateFits(t) ==
    ~gate_doubt =>
        /\ pc[t] = "xfer" => demod.gate
        /\ (tuner = "R820T" /\ demod.gate) =>
             \/ pc[t] \in {"xfer", "close"}
             \/ pc[t] = "run" /\ todo[t] # <<>> /\ HoldsGate(tuner, call[t])

\* The shadow file lags behind the chip by the register being written.
ChipFits(t) ==
    tuner = "R820T" =>
        \A r \in Registers :
            \/ chip[r] = shadow[r]
            \/ r \in doubt
            \/ pc[t] = "close" /\ ~failed[t] /\ Head(todo[t]).op = "rmw" /\ Head(todo[t]).reg = r

ThreadFits(t) ==
    TodoFits(t) /\ ImageFits(t) /\ PokeFits(t) /\ CloseFits(t) /\ GateFits(t) /\ ChipFits(t)

\* With no thread at work the shadow file is the chip, and the gate is closed.
Rest ==
    ((\A t \in Threads : ~Active(t)) /\ tuner = "R820T") =>
        /\ \A r \in Registers : chip[r] = shadow[r] \/ r \in doubt
        /\ ~gate_doubt => ~demod.gate

\* The types, as TypeOK has them and for todo and image
Types ==
    /\ tuner \in Tuners
    /\ demod \in Demodulator
    /\ RegisterFile(chip)
    /\ RegisterFile(shadow)
    /\ record \in Tuning
    /\ lock \in Threads \cup {NoThread}
    /\ call \in [Threads -> Calls \cup {NoCall}]
    /\ todo \in [Threads -> Seq(Operations)]
    /\ pc \in [Threads -> {"idle", "lock", "run", "xfer", "close"}]
    /\ DOMAIN image = Threads
    /\ failed \in [Threads -> BOOLEAN]
    /\ calls \in 0..MaxCalls
    /\ errors \in 0..MaxErrors
    /\ sure \subseteq {"freq", "rate", "nco", "gain"}
    /\ doubt \subseteq Registers
    /\ gate_doubt \in BOOLEAN

Inv ==
    /\ Types
    /\ Exclusive
    /\ \A t \in Threads : ~Active(t) => image[t] = <<>>
    /\ \A t \in Threads : Active(t) => ThreadFits(t)
    /\ Rest

-----------------------------------------------------------------------------
(* Bytes and register files.                                               *)

\* The values the assumptions give to the calls' arguments.
LEMMA SmallArguments ==
    /\ Freqs \subseteq Small /\ Rates \subseteq Small /\ Gains \subseteq Small
    /\ DefaultIf \in Small /\ WideIf \in [Rates -> Small]
    /\ 0 \in Small /\ 1 \in Small /\ Small \subseteq 0..Junk /\ Junk \in 0..Junk
  BY TunerBusAssumption DEF Small, Junk

\* One field given: a member of Fields.
LEMMA OneField ==
    ASSUME NEW x \in Small
    PROVE  /\ [path |-> x] \in Fields /\ [step |-> x] \in Fields /\ [current |-> x] \in Fields
           /\ [headroom |-> x] \in Fields /\ [gain |-> x] \in Fields /\ [band |-> x] \in Fields
           /\ [manual |-> x] \in Fields
  <1>1. [path |-> x] \in [{"path"} -> Small] /\ {"path"} \in SUBSET FieldNames
    BY DEF FieldNames
  <1>2. [step |-> x] \in [{"step"} -> Small] /\ {"step"} \in SUBSET FieldNames
    BY DEF FieldNames
  <1>3. [current |-> x] \in [{"current"} -> Small] /\ {"current"} \in SUBSET FieldNames
    BY DEF FieldNames
  <1>4. [headroom |-> x] \in [{"headroom"} -> Small] /\ {"headroom"} \in SUBSET FieldNames
    BY DEF FieldNames
  <1>5. [gain |-> x] \in [{"gain"} -> Small] /\ {"gain"} \in SUBSET FieldNames
    BY DEF FieldNames
  <1>6. [band |-> x] \in [{"band"} -> Small] /\ {"band"} \in SUBSET FieldNames
    BY DEF FieldNames
  <1>7. [manual |-> x] \in [{"manual"} -> Small] /\ {"manual"} \in SUBSET FieldNames
    BY DEF FieldNames
  <1> QED BY <1>1, <1>2, <1>3, <1>4, <1>5, <1>6, <1>7 DEF Fields

\* The word of the PLL, and no field at all.
LEMMA OtherFields ==
    /\ \A x, y \in Small : [freq |-> x, if |-> y] \in Fields
    /\ Unchanged \in Fields
  <1>1. ASSUME NEW x \in Small, NEW y \in Small
        PROVE  [freq |-> x, if |-> y] \in Fields
    <2>1. [freq |-> x, if |-> y] \in [{"freq", "if"} -> Small]
      OBVIOUS
    <2>2. {"freq", "if"} \in SUBSET FieldNames
      BY DEF FieldNames
    <2> QED BY <2>1, <2>2 DEF Fields
  <1>2. Unchanged \in [{} -> Small]
    BY DEF Unchanged
  <1>3. {} \in SUBSET FieldNames
    OBVIOUS
  <1> QED BY <1>1, <1>2, <1>3 DEF Fields

\* A byte with fields replaced is a byte.
LEMMA OverByte ==
    ASSUME NEW r \in Registers, NEW fields \in Fields, NEW byte \in Byte(r)
    PROVE  Over(fields, byte) \in Byte(r)
  <1>1. ASSUME NEW f \in DOMAIN fields
        PROVE  fields[f] \in Small
    BY DEF Fields
  <1> QED BY <1>1 DEF Over, Byte

\* Blank is a register file.
LEMMA BlankFile == RegisterFile(Blank)
  <1>1. DOMAIN Blank = Registers
    BY DEF Blank
  <1>2. ASSUME NEW r \in Registers
        PROVE  Blank[r] \in Byte(r)
    BY SmallArguments DEF Blank, Byte
  <1> QED BY <1>1, <1>2 DEF RegisterFile

\* Writing a byte leaves a register file, which holds it.
LEMMA WriteFile ==
    ASSUME NEW f, RegisterFile(f), NEW r \in Registers, NEW byte \in Byte(r)
    PROVE  /\ RegisterFile([f EXCEPT ![r] = byte])
           /\ [f EXCEPT ![r] = byte][r] = byte
           /\ \A s \in Registers : s # r => [f EXCEPT ![r] = byte][s] = f[s]
  BY DEF RegisterFile

-----------------------------------------------------------------------------
(* Operations and programs.                                                *)

\* What the fields of an operation are, by its kind.
LEMMA OperationFields ==
    ASSUME NEW o \in Operations
    PROVE  /\ o.op \in {"rmw", "probe", "wire_read", "wire_write", "session_write"} => o.reg \in Registers
           /\ o.op \in {"rmw", "wire_write"} => o.fields \in Fields
           /\ o.op = "wire_write" => o.soft \in BOOLEAN
           /\ o.op = "probe" => o.last \in BOOLEAN
           /\ o.op \in {"gate", "session", "ddc", "poke"} => o.value \in BOOLEAN
           /\ o.op \in {"nco", "ratio", "peek", "nco_again"} => o.value \in Small
  <1>1. "VCO_DRIVE" \in Registers
    BY DEF Registers, Layout
  <1> QED BY <1>1 DEF Operations

\* The operations that access the tuner.
LEMMA TunerOperations ==
    ASSUME NEW r \in Registers, NEW fields \in Fields
    PROVE  /\ Rmw(r, fields) \in Operations /\ Rmw(r, fields).op = "rmw"
           /\ WireRead(r) \in Operations /\ WireRead(r).op = "wire_read" /\ WireRead(r).reg = r
           /\ WireWrite(r, fields) \in Operations /\ WireWrite(r, fields).op = "wire_write"
           /\ WireWrite(r, fields).reg = r
           /\ Ignored(WireWrite(r, fields)) \in Operations
           /\ Ignored(WireWrite(r, fields)).op = "wire_write"
           /\ SessionWrite(r) \in Operations /\ SessionWrite(r).op = "session_write"
  BY DEF Operations, Rmw, WireRead, WireWrite, Ignored, SessionWrite

\* The operations on the demodulator, and the probe.
LEMMA DemodOperations ==
    /\ \A name \in {"gate", "session", "ddc", "poke"}, value \in BOOLEAN :
         Set(name, value) \in Operations /\ Set(name, value).op = name /\ Set(name, value).value = value
    /\ \A name \in {"nco", "ratio", "peek", "nco_again"}, value \in Small :
         Set(name, value) \in Operations /\ Set(name, value).op = name /\ Set(name, value).value = value
    /\ \A last \in BOOLEAN : Probe(last) \in Operations /\ Probe(last).op = "probe"
  BY DEF Operations, Set, Probe

\* The registers there are.
LEMMA RegisterNames ==
    /\ "MUX_ROUTING" \in Registers /\ "PLL_WORD" \in Registers /\ "VCO_DRIVE" \in Registers
    /\ "LNA_BIAS" \in Registers /\ "MIXER_DRIVE" \in Registers /\ "IF_STAGE" \in Registers
    /\ "FILT_BIAS" \in Registers /\ "LNA_OVERRIDE" \in Registers /\ "LNA_GAIN" \in Registers
  BY DEF Registers, Layout

\* Which calls an operation at hand can belong to, and whose gate is held.
LEMMA KindsTell ==
    ASSUME NEW tun \in {"R820T", "FC0012"}, NEW c \in Calls, NEW o, o.op \in Kinds(tun, c)
    PROVE  /\ c.api = "reset_demod" <=> o.op \in {"peek", "poke"}
           /\ o.op \in {"rmw", "probe"} => tun = "R820T"
           /\ o.op \in {"wire_read", "wire_write"} => tun = "FC0012"
           /\ o.op = "probe" => c.api = "set_frequency"
           /\ o.op \in {"session", "session_write"} => c.api = "write_batch"
           /\ o.op = "gate" => HoldsGate(tun, c)
           /\ HoldsGate(tun, c) => o.op \in {"gate", "session", "session_write", "rmw"}
           /\ (HoldsGate(tun, c) /\ o.op = "rmw") => c.api = "reset_tuner"
           /\ o.op \in {"nco", "nco_again", "ratio", "ddc"} => c.api = "set_sample_rate"
           /\ o.op \in {"rmw", "probe", "wire_read", "wire_write", "session", "session_write", "gate",
                        "nco", "nco_again", "ratio", "ddc", "peek", "poke"}
  <1>1. c.api \in {"set_frequency", "set_sample_rate", "set_gain",
                   "reset_demod", "reset_tuner", "write_batch"}
    BY DEF Calls, Unlocked
  <1>2. CASE c.api = "set_frequency"
    BY <1>2 DEF Kinds, HoldsGate
  <1>3. CASE c.api = "set_sample_rate"
    BY <1>3 DEF Kinds, HoldsGate
  <1>4. CASE c.api = "set_gain"
    BY <1>4 DEF Kinds, HoldsGate
  <1>5. CASE c.api = "reset_demod"
    BY <1>5 DEF Kinds, HoldsGate
  <1>6. CASE c.api = "reset_tuner"
    BY <1>6 DEF Kinds, HoldsGate
  <1>7. CASE c.api = "write_batch"
    BY <1>7 DEF Kinds, HoldsGate
  <1> QED BY <1>1, <1>2, <1>3, <1>4, <1>5, <1>6, <1>7

-----------------------------------------------------------------------------
(* What is left of a call, as it goes on.                                  *)

\* A sequence is empty when its length is zero.
LEMMA SomeLeft ==
    ASSUME NEW S, NEW s \in Seq(S)
    PROVE  Len(s) \in Nat /\ (s # <<>> <=> Len(s) > 0)
  OBVIOUS

\* One and two operations.
LEMMA ShortSeq ==
    ASSUME NEW S, NEW a \in S, NEW b \in S
    PROVE  /\ << a >> \in Seq(S) /\ Len(<< a >>) = 1 /\ << a >>[1] = a
           /\ << a >> # <<>> /\ Head(<< a >>) = a
           /\ << a, b >> \in Seq(S) /\ Len(<< a, b >>) = 2
           /\ << a, b >>[1] = a /\ << a, b >>[2] = b
  OBVIOUS

\* The next operation done, what is left still fits.
LEMMA TailFits ==
    ASSUME NEW tun, NEW c, NEW ops \in Seq(Operations), ops # <<>>, Fits(tun, c, ops)
    PROVE  /\ Head(ops) \in Operations
           /\ Head(ops).op \in Kinds(tun, c)
           /\ Tail(ops) \in Seq(Operations)
           /\ Fits(tun, c, Tail(ops))
           /\ Head(ops).op = "wire_read" =>
                /\ Tail(ops) # <<>>
                /\ Head(Tail(ops)).op = "wire_write"
                /\ Head(Tail(ops)).reg = Head(ops).reg
           /\ (HoldsGate(tun, c) /\ ~Closes(Head(ops))) => Len(ops) > 1 /\ Tail(ops) # <<>>
  <1> DEFINE rest == Tail(ops)
  <1>1. /\ Head(ops) \in Operations
        /\ rest \in Seq(Operations)
        /\ Len(ops) \in Nat \ {0}
        /\ Len(rest) = Len(ops) - 1
        /\ \A i \in 1..Len(rest) : rest[i] = ops[i + 1]
        /\ Head(ops) = ops[1]
    BY HeadTailProperties, EmptySeq
  <1>2. rest # <<>> <=> Len(rest) > 0
    BY <1>1, SomeLeft
  <1>3. rest # <<>> => Head(rest) = rest[1]
    BY <1>1
  <1>4. Head(ops).op \in Kinds(tun, c)
    BY <1>1 DEF Fits
  <1>5. \A i \in 1..Len(rest) : i + 1 \in 1..Len(ops)
    BY <1>1
  <1>6. \A i \in 1..Len(rest) : rest[i].op \in Kinds(tun, c)
    BY <1>1, <1>5 DEF Fits
  <1>7. ASSUME NEW i \in 1..Len(rest), rest[i].op = "wire_read"
        PROVE  i < Len(rest) /\ rest[i + 1].op = "wire_write" /\ rest[i + 1].reg = rest[i].reg
    <2>1. /\ i + 1 < Len(ops)
          /\ ops[(i + 1) + 1].op = "wire_write"
          /\ ops[(i + 1) + 1].reg = ops[i + 1].reg
      BY <1>1, <1>5, <1>7 DEF Fits
    <2>2. i + 1 \in 1..Len(rest)
      BY <1>1, <2>1
    <2> QED BY <1>1, <2>1, <2>2
  <1>8. HoldsGate(tun, c) /\ rest # <<>> => Closes(rest[Len(rest)])
    <2>1. rest # <<>> => rest[Len(rest)] = ops[Len(ops)]
      BY <1>1, <1>2
    <2> QED BY <2>1 DEF Fits
  <1>9. Fits(tun, c, rest)
    BY <1>6, <1>7, <1>8 DEF Fits
  <1>10. Head(ops).op = "wire_read" =>
            /\ rest # <<>> /\ Head(rest).op = "wire_write" /\ Head(rest).reg = Head(ops).reg
    BY <1>1, <1>2, <1>3 DEF Fits
  <1>11. (HoldsGate(tun, c) /\ ~Closes(Head(ops))) => Len(ops) > 1 /\ rest # <<>>
    <2>1. Len(ops) = 1 => ops[Len(ops)] = Head(ops)
      BY <1>1
    <2> QED BY <1>1, <1>2, <2>1 DEF Fits
  <1> QED BY <1>1, <1>4, <1>9, <1>10, <1>11

\* Where what is left has neither reads nor a gate to close, only the kinds matter.
LEMMA PlainFits ==
    ASSUME NEW tun, NEW c, NEW ops \in Seq(Operations), ~HoldsGate(tun, c),
           \A i \in 1..Len(ops) : ops[i].op \in Kinds(tun, c) /\ ops[i].op # "wire_read"
    PROVE  Fits(tun, c, ops)
  BY DEF Fits

\* Nothing is left, or the closing of the gate a call holds: what errors leave.
LEMMA CleanupFits ==
    /\ \A tun, c : Fits(tun, c, <<>>)
    /\ \A tun, c :
         HoldsGate(tun, c) /\ "gate" \in Kinds(tun, c) => Fits(tun, c, << Set("gate", FALSE) >>)
    /\ << Set("gate", FALSE) >> \in Seq(Operations)
    /\ << Set("gate", FALSE) >> # <<>>
    /\ Head(<< Set("gate", FALSE) >>).op = "gate"
  <1> DEFINE last == Set("gate", FALSE)
  <1>1. last \in Operations /\ last.op = "gate" /\ last.value = FALSE
    BY DemodOperations
  <1> HIDE DEF last
  <1> DEFINE ops == << last >>
  <1>2. /\ ops \in Seq(Operations) /\ Len(ops) = 1 /\ ops[1] = last /\ ops # <<>>
        /\ Head(ops) = last
    BY <1>1, ShortSeq
  <1> HIDE DEF ops
  <1>3. ASSUME NEW tun, NEW c
        PROVE  Fits(tun, c, <<>>)
    BY DEF Fits
  <1>4. ASSUME NEW tun, NEW c, HoldsGate(tun, c), "gate" \in Kinds(tun, c)
        PROVE  Fits(tun, c, ops)
    <2>1. Closes(ops[Len(ops)])
      BY <1>1, <1>2 DEF Closes
    <2> QED BY <1>1, <1>2, <1>4, <2>1 DEF Fits
  <1>5. ops \in Seq(Operations) /\ ops # <<>> /\ Head(ops).op = "gate"
    BY <1>1, <1>2
  <1> QED BY <1>3, <1>4, <1>5 DEF ops, last

\* The second attempt of the PLL.
LEMMA ProbeAgainFits ==
    ASSUME NEW c \in Calls, c.api = "set_frequency", NEW ops \in Seq(Operations),
           ops # <<>>, Fits("R820T", c, ops)
    PROVE  LET again == << Rmw("VCO_DRIVE", [current |-> 1]), Probe(TRUE) >> \o Tail(ops)
           IN  again \in Seq(Operations) /\ Fits("R820T", c, again) /\ Head(again).op = "rmw"
  <1>1. [current |-> 1] \in Fields
    BY SmallArguments, OneField
  <1> DEFINE more == Rmw("VCO_DRIVE", [current |-> 1])
  <1> DEFINE probe == Probe(TRUE)
  <1>2. more \in Operations /\ more.op = "rmw" /\ probe \in Operations /\ probe.op = "probe"
    <2>1. more \in Operations /\ more.op = "rmw"
      BY <1>1, TunerOperations, RegisterNames
    <2>2. probe \in Operations /\ probe.op = "probe"
      BY DEF Probe, Operations
    <2> QED BY <2>1, <2>2
  <1> HIDE DEF more, probe
  <1> DEFINE first == << more, probe >>
  <1> DEFINE rest == Tail(ops)
  <1> DEFINE again == first \o rest
  <1>3. /\ first \in Seq(Operations) /\ Len(first) = 2 /\ first[1].op = "rmw"
        /\ first[2].op = "probe"
    BY <1>2
  <1>4. rest \in Seq(Operations) /\ Fits("R820T", c, rest) /\ Len(rest) \in Nat
    BY TailFits, LenProperties
  <1>5. Kinds("R820T", c) = {"rmw", "probe"} /\ ~HoldsGate("R820T", c)
    BY DEF Kinds, HoldsGate
  <1> HIDE DEF first, rest
  <1>6. /\ again \in Seq(Operations)
        /\ Len(again) = Len(first) + Len(rest)
        /\ \A i \in 1..Len(first) + Len(rest) :
             again[i] = IF i <= Len(first) THEN first[i] ELSE rest[i - Len(first)]
    BY <1>3, <1>4, ConcatProperties
  <1>7. ASSUME NEW i \in 1..Len(again)
        PROVE  again[i].op \in {"rmw", "probe"}
    <2>1. CASE i <= 2
      <3>1. i = 1 \/ i = 2
        BY <2>1, <1>6, <1>3, <1>4
      <3> QED BY <3>1, <2>1, <1>3, <1>4, <1>6
    <2>2. CASE ~(i <= 2)
      <3>1. i - 2 \in 1..Len(rest) /\ again[i] = rest[i - 2]
        BY <2>2, <1>3, <1>4, <1>6
      <3> QED BY <3>1, <1>4, <1>5 DEF Fits
    <2> QED BY <2>1, <2>2
  <1> HIDE DEF again
  <1>8. Fits("R820T", c, again)
    BY <1>5, <1>6, <1>7, PlainFits
  <1>9. Head(again) = again[1] /\ again[1] = first[1]
    BY <1>3, <1>4, <1>6
  <1> QED BY <1>3, <1>6, <1>8, <1>9 DEF again, first, rest, more, probe

-----------------------------------------------------------------------------
(* The programs fit their calls.                                           *)

\* Operations of a call that ask for nothing to follow
Plain(tun, c) == {o \in Operations : o.op \in Kinds(tun, c) /\ o.op # "wire_read"}

\* A program of plain operations, with the gate closed last if the call holds it.
LEMMA PlainProgram ==
    ASSUME NEW tun, NEW c, NEW ops \in Seq(Plain(tun, c)),
           HoldsGate(tun, c) /\ ops # <<>> => Closes(ops[Len(ops)])
    PROVE  ops \in Seq(Operations) /\ Fits(tun, c, ops)
  <1>1. Plain(tun, c) \subseteq Operations
    BY DEF Plain
  <1>2. ops \in Seq(Operations)
    BY <1>1, SeqMonotonic
  <1>3. \A i \in 1..Len(ops) : ops[i] \in Plain(tun, c)
    BY ElementOfSeq
  <1> QED BY <1>2, <1>3 DEF Fits, Plain

\* set_frequency
LEMMA FrequencyFits ==
    ASSUME NEW tun \in {"R820T", "FC0012"}, NEW c \in Calls, c.api = "set_frequency",
           NEW freq \in Small, NEW if \in Small
    PROVE  /\ tun = "R820T" => /\ R820tTune(freq, if) \in Seq(Operations)
                               /\ Fits(tun, c, R820tTune(freq, if))
           /\ tun = "FC0012" => /\ Fc0012Tune(freq) \in Seq(Operations)
                                /\ Fits(tun, c, Fc0012Tune(freq))
  <1>1. ~HoldsGate(tun, c)
    BY DEF HoldsGate
  <1>2. CASE tun = "R820T"
    <2>1. Kinds(tun, c) = {"rmw", "probe"}
      BY <1>2 DEF Kinds
    <2>2. /\ [path |-> freq] \in Fields /\ [step |-> 0] \in Fields /\ [current |-> 0] \in Fields
          /\ [freq |-> freq, if |-> if] \in Fields /\ [step |-> 1] \in Fields
          /\ [current |-> 1] \in Fields /\ [headroom |-> 1] \in Fields
      BY OneField, OtherFields, SmallArguments
    <2>3. \A r \in Registers, fields \in Fields : Rmw(r, fields) \in Plain(tun, c)
      BY <2>1, TunerOperations DEF Plain
    <2>4. Probe(FALSE) \in Plain(tun, c)
      BY <2>1 DEF Plain, Probe, Operations
    <2>5. R820tTune(freq, if) \in Seq(Plain(tun, c))
      <3> DEFINE op1 == Rmw("MUX_ROUTING", [path |-> freq])
                 op2 == Rmw("MUX_ROUTING", [step |-> 0])
                 op3 == Rmw("VCO_DRIVE", [current |-> 0])
                 op4 == Rmw("PLL_WORD", [freq |-> freq, if |-> if])
                 op5 == Probe(FALSE)
                 op6 == Rmw("MUX_ROUTING", [step |-> 1])
                 op7 == Rmw("FILT_BIAS", [current |-> 1])
                 op8 == Rmw("LNA_BIAS", [headroom |-> 1])
                 these == << op1, op2, op3, op4, op5, op6, op7, op8 >>
      <3>1. /\ op1 \in Plain(tun, c) /\ op2 \in Plain(tun, c) /\ op3 \in Plain(tun, c)
            /\ op4 \in Plain(tun, c) /\ op5 \in Plain(tun, c) /\ op6 \in Plain(tun, c)
            /\ op7 \in Plain(tun, c) /\ op8 \in Plain(tun, c)
        BY <2>2, <2>3, <2>4, RegisterNames
      <3>2. R820tTune(freq, if) = these
        BY DEF R820tTune
      <3> HIDE DEF op1, op2, op3, op4, op5, op6, op7, op8
      <3>3. these \in Seq(Plain(tun, c))
        BY <3>1
      <3> QED BY <3>2, <3>3
    <2> QED BY <1>1, <1>2, <2>5, PlainProgram
  <1>3. CASE tun = "FC0012"
    <2> DEFINE write == WireWrite("PLL_WORD", [freq |-> freq, if |-> 0])
    <2>1. [freq |-> freq, if |-> 0] \in Fields
      BY OtherFields, SmallArguments
    <2>2. Kinds(tun, c) = {"wire_write"}
      BY <1>3 DEF Kinds
    <2>3. write \in Plain(tun, c)
      BY <2>1, <2>2, TunerOperations, RegisterNames DEF Plain
    <2>4. Fc0012Tune(freq) = << write >>
      BY DEF Fc0012Tune
    <2> HIDE DEF write
    <2>5. << write >> \in Seq(Plain(tun, c))
      BY <2>3
    <2> QED BY <1>1, <1>3, <2>4, <2>5, PlainProgram
  <1> QED BY <1>2, <1>3

\* set_gain
LEMMA GainFits ==
    ASSUME NEW tun \in {"R820T", "FC0012"}, NEW c \in Calls, c.api = "set_gain", NEW gain \in Small
    PROVE  /\ tun = "R820T" => R820tGain(gain) \in Seq(Operations) /\ Fits(tun, c, R820tGain(gain))
           /\ tun = "FC0012" => /\ Fc0012Gain(gain) \in Seq(Operations)
                                /\ Fits(tun, c, Fc0012Gain(gain))
  <1>1. ~HoldsGate(tun, c)
    BY DEF HoldsGate
  <1>2. CASE tun = "R820T"
    <2> DEFINE op1 == Rmw("LNA_BIAS", [gain |-> gain])
               op2 == Rmw("MIXER_DRIVE", IF gain = GainAuto THEN Unchanged ELSE [gain |-> gain])
               op3 == Rmw("IF_STAGE", [gain |-> gain])
    <2>1. Kinds(tun, c) = {"rmw"}
      BY <1>2 DEF Kinds
    <2>2. /\ [gain |-> gain] \in Fields
          /\ (IF gain = GainAuto THEN Unchanged ELSE [gain |-> gain]) \in Fields
      BY OneField, OtherFields
    <2>3. \A r \in Registers, fields \in Fields : Rmw(r, fields) \in Plain(tun, c)
      BY <2>1, TunerOperations DEF Plain
    <2>4. op1 \in Plain(tun, c) /\ op2 \in Plain(tun, c) /\ op3 \in Plain(tun, c)
      BY <2>2, <2>3, RegisterNames
    <2>5. R820tGain(gain) = << op1, op2, op3 >>
      BY DEF R820tGain
    <2> HIDE DEF op1, op2, op3
    <2>6. << op1, op2, op3 >> \in Seq(Plain(tun, c))
      BY <2>4
    <2> QED BY <1>1, <1>2, <2>5, <2>6, PlainProgram
  <1>3. CASE tun = "FC0012"
    <2>1. Kinds(tun, c) = {"wire_read", "wire_write"}
      BY <1>3 DEF Kinds
    <2>2. ASSUME NEW a \in Operations, NEW b \in Operations,
                 NEW d \in Operations, NEW e \in Operations,
                 a.op = "wire_read", b.op = "wire_write", b.reg = a.reg,
                 d.op = "wire_read", e.op = "wire_write", e.reg = d.reg
          PROVE  /\ << a, b >> \in Seq(Operations) /\ Fits(tun, c, << a, b >>)
                 /\ << a, b, d, e >> \in Seq(Operations) /\ Fits(tun, c, << a, b, d, e >>)
      <3>1. << a, b >> \in Seq(Operations) /\ << a, b, d, e >> \in Seq(Operations)
        OBVIOUS
      <3>2. Fits(tun, c, << a, b >>)
        BY <1>1, <2>1, <2>2 DEF Fits
      <3>3. Fits(tun, c, << a, b, d, e >>)
        BY <1>1, <2>1, <2>2 DEF Fits
      <3> QED BY <3>1, <3>2, <3>3
    <2> DEFINE read1 == WireRead("LNA_OVERRIDE")
               write0 == WireWrite("LNA_OVERRIDE", [manual |-> 0])
               write1 == WireWrite("LNA_OVERRIDE", [manual |-> 1])
               read2 == WireRead("LNA_GAIN")
               write2 == WireWrite("LNA_GAIN", [gain |-> gain])
    <2>3. [manual |-> 0] \in Fields /\ [manual |-> 1] \in Fields /\ [gain |-> gain] \in Fields
      BY OneField, SmallArguments
    <2>4. /\ read1 \in Operations /\ read1.op = "wire_read" /\ read1.reg = "LNA_OVERRIDE"
          /\ read2 \in Operations /\ read2.op = "wire_read" /\ read2.reg = "LNA_GAIN"
          /\ write0 \in Operations /\ write0.op = "wire_write" /\ write0.reg = "LNA_OVERRIDE"
          /\ write1 \in Operations /\ write1.op = "wire_write" /\ write1.reg = "LNA_OVERRIDE"
          /\ write2 \in Operations /\ write2.op = "wire_write" /\ write2.reg = "LNA_GAIN"
      BY <2>3, TunerOperations, RegisterNames
    <2>5. Fc0012Gain(gain) = IF gain = GainAuto THEN << read1, write0 >>
                             ELSE << read1, write1, read2, write2 >>
      BY DEF Fc0012Gain
    <2> HIDE DEF read1, read2, write0, write1, write2
    <2>6. /\ << read1, write0 >> \in Seq(Operations) /\ Fits(tun, c, << read1, write0 >>)
          /\ << read1, write1, read2, write2 >> \in Seq(Operations)
          /\ Fits(tun, c, << read1, write1, read2, write2 >>)
      BY <2>2, <2>4
    <2> QED BY <1>3, <2>5, <2>6
  <1> QED BY <1>2, <1>3

\* set_sample_rate
LEMMA RateFits ==
    ASSUME tuner \in {"R820T", "FC0012"}, NEW c \in Calls, c.api = "set_sample_rate", NEW rate \in Rates
    PROVE  RateProgram(rate) \in Seq(Operations) /\ Fits(tuner, c, RateProgram(rate))
  <1> DEFINE P == Plain(tuner, c)
             end1 == Set("ratio", rate)
             end2 == Set("ddc", TRUE)
             end3 == Set("ddc", FALSE)
             end4 == Set("nco_again", 0)
             filter == Rmw("FILT_BIAS", [band |-> rate])
             nco == Set("nco", WideIf[rate])
  <1>1. ~HoldsGate(tuner, c)
    BY DEF HoldsGate
  <1>2. /\ {"nco", "ratio", "ddc", "nco_again"} \subseteq Kinds(tuner, c)
        /\ tuner = "R820T" => "rmw" \in Kinds(tuner, c)
    BY DEF Kinds
  <1>3. rate \in Small /\ WideIf[rate] \in Small /\ 0 \in Small
    BY SmallArguments
  <1>4. end1 \in P
    BY <1>2, <1>3, DemodOperations DEF Plain
  <1>5. end2 \in P /\ end3 \in P
    BY <1>2 DEF Plain, Set, Operations
  <1>6. end4 \in P /\ nco \in P
    BY <1>2, <1>3, DemodOperations DEF Plain
  <1>7. tuner = "R820T" => filter \in P
    <2>1. [band |-> rate] \in Fields
      BY <1>3, OneField
    <2>2. filter \in Operations /\ filter.op = "rmw"
      BY <2>1, TunerOperations, RegisterNames
    <2> QED BY <1>2, <2>2 DEF Plain
  <1> HIDE DEF P
  <1>8. Bandwidth(rate) \in Seq(P)
    <2>1. Bandwidth(rate) = IF tuner = "R820T" /\ WideIf[rate] # 0
                              THEN << filter >> \o << nco >>
                              ELSE <<>>
      BY DEF Bandwidth, IfProgram
    <2> HIDE DEF filter, nco
    <2>2. <<>> \in Seq(P)
      BY EmptySeq
    <2>3. tuner = "R820T" => << filter >> \in Seq(P) /\ << nco >> \in Seq(P)
      BY <1>6, <1>7
    <2>4. tuner = "R820T" => << filter >> \o << nco >> \in Seq(P)
      BY <2>3, ConcatProperties
    <2> QED BY <2>1, <2>2, <2>4
  <1>9. RateProgram(rate) = Bandwidth(rate) \o << end1, end2, end3, end4 >>
    BY DEF RateProgram
  <1> HIDE DEF end1, end2, end3, end4
  <1>10. << end1, end2, end3, end4 >> \in Seq(P)
    BY <1>4, <1>5, <1>6
  <1>11. RateProgram(rate) \in Seq(P)
    BY <1>8, <1>9, <1>10, ConcatProperties
  <1> QED BY <1>1, <1>11, PlainProgram DEF P

\* reset_demod
LEMMA DemodFits ==
    ASSUME NEW tun, NEW c \in Calls, c.api = "reset_demod"
    PROVE  /\ DemodProgram \in Seq(Operations) /\ Fits(tun, c, DemodProgram)
           /\ DemodProgram # <<>> /\ Head(DemodProgram).op = "peek"
  <1> DEFINE op1 == Set("peek", 0)
             op2 == Set("poke", TRUE)
             op3 == Set("poke", FALSE)
  <1>1. ~HoldsGate(tun, c) /\ Kinds(tun, c) = {"peek", "poke"}
    BY DEF HoldsGate, Kinds
  <1>2. op1 \in Plain(tun, c) /\ op1.op = "peek"
    BY <1>1, SmallArguments DEF Plain, Set, Operations
  <1>3. op2 \in Plain(tun, c) /\ op3 \in Plain(tun, c)
    BY <1>1 DEF Plain, Set, Operations
  <1>4. DemodProgram = << op1, op2, op3 >>
    BY DEF DemodProgram
  <1> HIDE DEF op1, op2, op3
  <1>5. << op1, op2, op3 >> \in Seq(Plain(tun, c)) /\ << op1, op2, op3 >> # <<>>
    BY <1>2, <1>3
  <1>6. Head(<< op1, op2, op3 >>) = op1
    OBVIOUS
  <1> QED BY <1>1, <1>2, <1>4, <1>5, <1>6, PlainProgram

\* reset_tuner
LEMMA TunerFits ==
    ASSUME tuner \in {"R820T", "FC0012"}, NEW c \in Calls, c.api = "reset_tuner"
    PROVE  TunerProgram \in Seq(Operations) /\ Fits(tuner, c, TunerProgram)
  <1> DEFINE P == Plain(tuner, c)
  <1>1. CASE tuner = "R820T"
    <2> DEFINE op1 == Set("gate", TRUE)
               op2 == Rmw("LNA_BIAS", Unchanged)
               op3 == Rmw("MIXER_DRIVE", Unchanged)
               op4 == Rmw("FILT_BIAS", Unchanged)
               op5 == Rmw("IF_STAGE", Unchanged)
               op6 == Rmw("VCO_DRIVE", Unchanged)
               op7 == Rmw("PLL_WORD", Unchanged)
               op8 == Rmw("MUX_ROUTING", Unchanged)
               op9 == Set("gate", FALSE)
               these == << op1, op2, op3, op4, op5, op6, op7, op8, op9 >>
    <2>1. Kinds(tuner, c) = {"gate", "rmw"}
      BY <1>1 DEF Kinds
    <2>2. \A r \in Registers : Rmw(r, Unchanged) \in P
      BY <2>1, OtherFields, TunerOperations DEF Plain
    <2>3. /\ op2 \in P /\ op3 \in P /\ op4 \in P /\ op5 \in P /\ op6 \in P /\ op7 \in P /\ op8 \in P
      BY <2>2, RegisterNames
    <2>4. op1 \in P /\ op9 \in P /\ Closes(op9)
      BY <2>1 DEF Plain, Set, Operations, Closes
    <2>5. TunerProgram = these
      BY <1>1 DEF TunerProgram
    <2> HIDE DEF op1, op2, op3, op4, op5, op6, op7, op8, op9, P
    <2>6. these \in Seq(P) /\ Len(these) = 9 /\ these[9] = op9
      BY <2>3, <2>4
    <2>7. Closes(these[Len(these)])
      BY <2>4, <2>6
    <2> QED BY <2>5, <2>6, <2>7, PlainProgram DEF P
  <1>2. CASE tuner = "FC0012"
    <2> DEFINE op1 == WireWrite("PLL_WORD", [freq |-> 0, if |-> 0])
               op2 == WireWrite("LNA_OVERRIDE", [manual |-> 0])
               op3 == WireWrite("LNA_GAIN", [gain |-> 0])
               op4 == Ignored(WireWrite("LNA_OVERRIDE", [manual |-> 1]))
               op5 == Ignored(WireWrite("LNA_GAIN", [gain |-> 1]))
               these == << op1, op2, op3, op4, op5 >>
    <2>1. Kinds(tuner, c) = {"wire_write"} /\ ~HoldsGate(tuner, c)
      BY <1>2 DEF Kinds, HoldsGate
    <2>2. /\ [freq |-> 0, if |-> 0] \in Fields /\ [manual |-> 0] \in Fields /\ [manual |-> 1] \in Fields
          /\ [gain |-> 0] \in Fields /\ [gain |-> 1] \in Fields
      BY OneField, OtherFields, SmallArguments
    <2>3. \A r \in Registers, fields \in Fields :
             WireWrite(r, fields) \in P /\ Ignored(WireWrite(r, fields)) \in P
      BY <2>1, TunerOperations DEF Plain
    <2>4. op1 \in P /\ op2 \in P /\ op3 \in P /\ op4 \in P /\ op5 \in P
      BY <2>2, <2>3, RegisterNames
    <2>5. TunerProgram = these
      BY <1>2 DEF TunerProgram
    <2> HIDE DEF op1, op2, op3, op4, op5, P
    <2>6. these \in Seq(P)
      BY <2>4
    <2> QED BY <2>1, <2>5, <2>6, PlainProgram DEF P
  <1> QED BY <1>1, <1>2

\* write_batch
LEMMA BatchFits ==
    ASSUME tuner \in {"R820T", "FC0012"}, NEW c \in Calls, c.api = "write_batch"
    PROVE  BatchProgram \in Seq(Operations) /\ Fits(tuner, c, BatchProgram)
  <1> DEFINE P == Plain(tuner, c)
             begin == Set("session", TRUE)
             end == Set("session", FALSE)
             op1 == SessionWrite("LNA_BIAS")
             op2 == SessionWrite("FILT_BIAS")
             op3 == SessionWrite("LNA_OVERRIDE")
             op4 == SessionWrite("LNA_GAIN")
             between == IF tuner = "R820T" THEN << op1, op2 >> ELSE << op3, op4 >>
  <1>1. Kinds(tuner, c) = {"session", "session_write", "gate"}
    BY DEF Kinds
  <1>2. begin \in P /\ end \in P /\ Closes(end)
    BY <1>1 DEF Plain, Set, Operations, Closes
  <1>3. \A r \in Registers : SessionWrite(r) \in P
    BY <1>1 DEF Plain, SessionWrite, Operations
  <1>4. op1 \in P /\ op2 \in P /\ op3 \in P /\ op4 \in P
    BY <1>3, RegisterNames
  <1>5. BatchProgram = (<< begin >> \o between) \o << end >>
    BY DEF BatchProgram
  <1> HIDE DEF P, begin, end, op1, op2, op3, op4
  <1>6. /\ << begin >> \in Seq(P) /\ << end >> \in Seq(P) /\ Len(<< end >>) = 1
        /\ << end >>[1] = end
    BY <1>2
  <1>7. between \in Seq(P)
    BY <1>4
  <1> HIDE DEF between
  <1> DEFINE start == << begin >> \o between
  <1>8. start \in Seq(P) /\ Len(start) \in Nat
    BY <1>6, <1>7, ConcatProperties, LenProperties
  <1> HIDE DEF start
  <1> DEFINE all == start \o << end >>
  <1>9. /\ all \in Seq(P)
        /\ Len(all) = Len(start) + Len(<< end >>)
        /\ all[Len(start) + 1] = << end >>[(Len(start) + 1) - Len(start)]
    <2>1. /\ all \in Seq(P)
          /\ Len(all) = Len(start) + Len(<< end >>)
          /\ \A i \in 1..Len(start) + Len(<< end >>) :
               all[i] = IF i <= Len(start) THEN start[i] ELSE << end >>[i - Len(start)]
      BY <1>6, <1>8, ConcatProperties
    <2> HIDE DEF all
    <2> QED BY <1>6, <1>8, <2>1
  <1> HIDE DEF all
  <1>10. all[Len(all)] = end
    BY <1>6, <1>8, <1>9
  <1>11. BatchProgram = all
    BY <1>5 DEF all, start
  <1> QED BY <1>2, <1>9, <1>10, <1>11, PlainProgram DEF P

\* Every call's.
LEMMA ProgramFits ==
    ASSUME tuner \in Tuners, record \in Tuning, NEW c \in Calls
    PROVE  /\ Program(c) \in Seq(Operations)
           /\ Fits(tuner, c, Program(c))
           /\ c.api = "reset_demod" => Program(c) # <<>> /\ Head(Program(c)).op = "peek"
  <1>1. tuner \in {"R820T", "FC0012"}
    BY TunerBusAssumption
  <1>2. CASE c.api = "set_frequency"
    <2>1. c.arg \in Small /\ record.if_offset \in Small
      BY <1>2, SmallArguments DEF Calls, Unlocked, Tuning
    <2>2. Program(c) = IF tuner = "R820T" THEN R820tTune(c.arg, record.if_offset) ELSE Fc0012Tune(c.arg)
      BY <1>2 DEF Program
    <2> QED BY <1>1, <1>2, <2>1, <2>2, FrequencyFits
  <1>3. CASE c.api = "set_sample_rate"
    <2>1. c.arg \in Rates
      BY <1>3 DEF Calls, Unlocked
    <2>2. Program(c) = RateProgram(c.arg)
      BY <1>3 DEF Program
    <2> QED BY <1>1, <1>3, <2>1, <2>2, RateFits
  <1>4. CASE c.api = "set_gain"
    <2>1. c.arg \in Small
      BY <1>4, SmallArguments DEF Calls, Unlocked
    <2>2. Program(c) = IF tuner = "R820T" THEN R820tGain(c.arg) ELSE Fc0012Gain(c.arg)
      BY <1>4 DEF Program
    <2> QED BY <1>1, <1>4, <2>1, <2>2, GainFits
  <1>5. CASE c.api = "reset_demod"
    <2>1. Program(c) = DemodProgram
      BY <1>5 DEF Program
    <2> QED BY <1>5, <2>1, DemodFits
  <1>6. CASE c.api = "reset_tuner"
    <2>1. Program(c) = TunerProgram
      BY <1>6 DEF Program
    <2> QED BY <1>1, <1>6, <2>1, TunerFits
  <1>7. CASE c.api = "write_batch"
    <2>1. Program(c) = BatchProgram
      BY <1>7 DEF Program
    <2> QED BY <1>1, <1>7, <2>1, BatchFits
  <1> QED BY <1>2, <1>3, <1>4, <1>5, <1>6, <1>7 DEF Calls, Unlocked

-----------------------------------------------------------------------------
(* A step of one thread.                                                   *)

\* One thread at most is at work.
LEMMA Alone ==
    ASSUME Inv, NEW t \in Threads, Active(t), NEW u \in Threads, u # t
    PROVE  ~Active(u)
  <1> SUFFICES ASSUME Active(u)
               PROVE  FALSE
    OBVIOUS
  <1>1. InCall(t) /\ InCall(u)
    BY DEF Inv, Exclusive, Active, InCall
  <1>2. call[t].api \in Locked /\ call[u].api \in Locked
    BY <1>1 DEF Inv, Exclusive
  <1>3. lock = t /\ lock = u
    BY <1>2 DEF Inv, Exclusive
  <1> QED BY <1>3

\* So the invariant after a step that stays at work follows from what it says of t.
LEMMA Stepped ==
    ASSUME Inv, NEW t \in Threads, Active(t),
           NEW p \in {"run", "xfer", "close"}, pc' = [pc EXCEPT ![t] = p],
           UNCHANGED <<lock, call>>,
           \A u \in Threads : u # t => image'[u] = image[u],
           Types', ThreadFits(t)'
    PROVE  Inv'
  <1>1. pc'[t] = p /\ \A u \in Threads : u # t => pc'[u] = pc[u]
    BY DEF Inv, Types
  <1>2. Active(t)'
    BY <1>1 DEF Active
  <1>3. \A u \in Threads : u # t => ~Active(u) /\ ~Active(u)'
    BY <1>1, Alone DEF Active
  <1>4. Exclusive'
    <2>1. \A u \in Threads : (pc[u] = "idle" <=> call[u] = NoCall)'
      BY <1>1 DEF Inv, Exclusive, Active
    <2>2. \A u \in Threads : (pc[u] = "lock" => call[u].api \in Locked)'
      BY <1>1 DEF Inv, Exclusive
    <2>3. \A u \in Threads : (Active(u) /\ call[u].api \in Locked => lock = u)'
      BY <1>3 DEF Inv, Exclusive
    <2>4. \A u, v \in Threads : (u # v /\ InCall(u) /\ InCall(v) => call[u].api \in Locked)'
      BY DEF Inv, Exclusive, InCall
    <2> QED BY <2>1, <2>2, <2>3, <2>4 DEF Exclusive
  <1>5. \A u \in Threads : (~Active(u) => image[u] = <<>>)'
    BY <1>2, <1>3 DEF Inv
  <1>6. \A u \in Threads : (Active(u) => ThreadFits(u))'
    BY <1>3
  <1>7. Rest'
    BY <1>2 DEF Rest
  <1> QED BY <1>4, <1>5, <1>6, <1>7 DEF Inv

\* What is known of a thread with an operation at hand.
LEMMA AtWork ==
    ASSUME Inv, NEW t \in Threads, Active(t), todo[t] # <<>>
    PROVE  /\ tuner \in {"R820T", "FC0012"}
           /\ call[t] \in Calls
           /\ ThreadFits(t)
           /\ Head(todo[t]) \in Operations
           /\ Head(todo[t]).op \in Kinds(tuner, call[t])
           /\ Tail(todo[t]) \in Seq(Operations)
           /\ Fits(tuner, call[t], Tail(todo[t]))
           /\ Head(todo[t]).op = "wire_read" =>
                /\ Tail(todo[t]) # <<>>
                /\ Head(Tail(todo[t])).op = "wire_write"
                /\ Head(Tail(todo[t])).reg = Head(todo[t]).reg
           /\ (HoldsGate(tuner, call[t]) /\ ~Closes(Head(todo[t]))) => Tail(todo[t]) # <<>>
           /\ Cleanup(t) \in Seq(Operations)
           /\ Fits(tuner, call[t], Cleanup(t))
           /\ Cleanup(t) # <<>> => HoldsGate(tuner, call[t]) /\ Head(Cleanup(t)).op = "gate"
           /\ (HoldsGate(tuner, call[t]) /\ Head(todo[t]).op \in {"rmw", "session_write"}) =>
                Cleanup(t) # <<>>
  <1>1. tuner \in {"R820T", "FC0012"}
    BY TunerBusAssumption DEF Inv, Types
  <1>2. call[t] \in Calls
    BY DEF Inv, Types, Exclusive, Active
  <1>3. ThreadFits(t)
    BY DEF Inv
  <1>4. todo[t] \in Seq(Operations) /\ Fits(tuner, call[t], todo[t])
    BY <1>3 DEF ThreadFits, TodoFits, Inv, Types
  <1>5. /\ Head(todo[t]) \in Operations
        /\ Head(todo[t]).op \in Kinds(tuner, call[t])
        /\ Tail(todo[t]) \in Seq(Operations)
        /\ Fits(tuner, call[t], Tail(todo[t]))
        /\ Head(todo[t]).op = "wire_read" =>
             /\ Tail(todo[t]) # <<>>
             /\ Head(Tail(todo[t])).op = "wire_write"
             /\ Head(Tail(todo[t])).reg = Head(todo[t]).reg
        /\ (HoldsGate(tuner, call[t]) /\ ~Closes(Head(todo[t]))) =>
             Len(todo[t]) > 1 /\ Tail(todo[t]) # <<>>
    BY <1>4, TailFits
  <1>6. /\ Head(todo[t]).op \in {"rmw", "probe"} => tuner = "R820T"
        /\ Head(todo[t]).op \in {"session", "session_write"} => call[t].api = "write_batch"
        /\ (HoldsGate(tuner, call[t]) /\ Head(todo[t]).op = "rmw") =>
             call[t].api = "reset_tuner"
    BY <1>1, <1>2, <1>5, KindsTell
  <1>7. (HoldsGate(tuner, call[t]) /\ Head(todo[t]).op \in {"rmw", "session_write"}) =>
           Cleanup(t) = << Set("gate", FALSE) >>
    BY <1>5, <1>6 DEF Cleanup, Closes
  <1>8. \/ Cleanup(t) = <<>>
        \/ /\ Cleanup(t) = << Set("gate", FALSE) >>
           /\ HoldsGate(tuner, call[t]) /\ "gate" \in Kinds(tuner, call[t])
    <2>1. CASE call[t].api = "reset_tuner" /\ Len(todo[t]) > 1 /\ Head(todo[t]).op = "rmw"
      BY <2>1, <1>6 DEF Cleanup, HoldsGate, Kinds
    <2>2. CASE Head(todo[t]).op = "session_write"
      BY <2>2, <1>6 DEF Cleanup, HoldsGate, Kinds
    <2> QED BY <2>1, <2>2 DEF Cleanup
  <1>9. /\ Cleanup(t) \in Seq(Operations)
        /\ Fits(tuner, call[t], Cleanup(t))
        /\ Cleanup(t) # <<>> => HoldsGate(tuner, call[t]) /\ Head(Cleanup(t)).op = "gate"
    BY <1>8, CleanupFits, EmptySeq
  <1>10. (HoldsGate(tuner, call[t]) /\ Head(todo[t]).op \in {"rmw", "session_write"}) =>
            Cleanup(t) # <<>>
    BY <1>7, CleanupFits
  <1> QED BY <1>1, <1>2, <1>3, <1>5, <1>9, <1>10

\* The operation done or given up, the thread runs on with what is left.
LEMMA DoneLeaves ==
    ASSUME Inv, NEW t \in Threads, Active(t), todo[t] # <<>>, NEW ok \in BOOLEAN, Done(t, ok),
           UNCHANGED <<tuner, call>>
    PROVE  /\ todo' \in [Threads -> Seq(Operations)]
           /\ failed' \in [Threads -> BOOLEAN]
           /\ pc' = [pc EXCEPT ![t] = "run"]
           /\ pc' \in [Threads -> {"idle", "lock", "run", "xfer", "close"}]
           /\ pc'[t] = "run"
           /\ todo'[t] = IF ok THEN Tail(todo[t]) ELSE Cleanup(t)
           /\ TodoFits(t)'
           /\ call[t].api # "reset_demod" => PokeFits(t)'
           /\ CloseFits(t)'
  <1>1. /\ Tail(todo[t]) \in Seq(Operations) /\ Fits(tuner, call[t], Tail(todo[t]))
        /\ Cleanup(t) \in Seq(Operations) /\ Fits(tuner, call[t], Cleanup(t))
        /\ tuner \in {"R820T", "FC0012"} /\ call[t] \in Calls
    BY AtWork
  <1>2. /\ todo \in [Threads -> Seq(Operations)]
        /\ failed \in [Threads -> BOOLEAN]
        /\ pc \in [Threads -> {"idle", "lock", "run", "xfer", "close"}]
    BY DEF Inv, Types
  <1>3. /\ todo' = [todo EXCEPT ![t] = IF ok THEN Tail(@) ELSE Cleanup(t)]
        /\ failed' = [failed EXCEPT ![t] = @ \/ ~ok]
        /\ pc' = [pc EXCEPT ![t] = "run"]
    BY DEF Done
  <1>4. todo'[t] = IF ok THEN Tail(todo[t]) ELSE Cleanup(t)
    BY <1>2, <1>3
  <1>5. todo' \in [Threads -> Seq(Operations)]
    BY <1>1, <1>2, <1>3
  <1>6. failed' \in [Threads -> BOOLEAN]
    BY <1>2, <1>3
  <1>7. pc' \in [Threads -> {"idle", "lock", "run", "xfer", "close"}] /\ pc'[t] = "run"
    BY <1>2, <1>3
  <1>8. todo'[t] \in Seq(Operations) /\ Fits(tuner, call[t], todo'[t])
    BY <1>1, <1>4
  <1>9. TodoFits(t)'
    BY <1>7, <1>8 DEF TodoFits
  <1>10. CloseFits(t)'
    BY <1>7 DEF CloseFits
  <1>11. ASSUME call[t].api # "reset_demod"
         PROVE  PokeFits(t)'
    <2>1. \A o : o.op \in Kinds(tuner, call[t]) => o.op # "poke"
      BY <1>1, <1>11, KindsTell
    <2>2. todo'[t] # <<>> => Head(todo'[t]).op \in Kinds(tuner, call[t])
      BY <1>8, TailFits
    <2> QED BY <2>1, <2>2 DEF PokeFits
  <1> QED BY <1>3, <1>4, <1>5, <1>6, <1>7, <1>9, <1>10, <1>11

\* A control transfer is counted, within the bound.
LEMMA TransferCounts ==
    ASSUME Inv, NEW outcome \in Outcomes \cup {"torn"}, Transfer(outcome)
    PROVE  errors' \in 0..MaxErrors
  BY TunerBusAssumption DEF Inv, Types, Transfer

\* What a write of register 1:01 leaves.
LEMMA ControlWritten ==
    ASSUME Inv, NEW outcome \in Outcomes, NEW gate \in BOOLEAN, NEW reset \in BOOLEAN,
           WriteControl(outcome, gate, reset)
    PROVE  /\ demod' \in Demodulator
           /\ outcome = "lost" => demod' = demod
           /\ outcome # "lost" => demod'.gate = gate
  <1>1. demod \in Demodulator
    BY DEF Inv, Types
  <1> QED BY <1>1, SmallArguments DEF WriteControl, Demodulator, Small

-----------------------------------------------------------------------------
(* One lemma for each action of a thread at work.                          *)

\* The gate around all of reset_tuner or of a session.
LEMMA SwitchGateStep ==
    ASSUME Inv, NEW t \in Threads, NEW outcome \in Outcomes, SwitchGate(t, outcome)
    PROVE  Inv'
  <1> DEFINE operation == Head(todo[t])
             ok == outcome = "ok" \/ (operation.op = "gate" /\ ~operation.value)
  <1>1. Active(t) /\ pc[t] = "run" /\ todo[t] # <<>> /\ operation.op \in {"gate", "session"}
    BY DEF SwitchGate, Doing, Active
  <1>2. ThreadFits(t) /\ tuner \in {"R820T", "FC0012"} /\ operation.op \in Kinds(tuner, call[t])
    BY <1>1, AtWork
  <1>3. HoldsGate(tuner, call[t]) /\ operation.value \in BOOLEAN /\ call[t].api # "reset_demod"
    <2>1. operation.op = "session" => call[t].api = "write_batch"
      BY <1>1, <1>2, AtWork, KindsTell
    <2>2. operation.op = "gate" => HoldsGate(tuner, call[t])
      BY <1>1, <1>2, AtWork, KindsTell
    <2>3. operation.value \in BOOLEAN
      BY <1>1, AtWork, OperationFields
    <2> QED BY <1>1, <2>1, <2>2, <2>3 DEF HoldsGate
  <1>4. Done(t, ok)
    BY DEF SwitchGate, Value
  <1>5. /\ todo' \in [Threads -> Seq(Operations)]
        /\ failed' \in [Threads -> BOOLEAN]
        /\ pc' = [pc EXCEPT ![t] = "run"] /\ pc'[t] = "run"
        /\ pc' \in [Threads -> {"idle", "lock", "run", "xfer", "close"}]
        /\ todo'[t] = IF ok THEN Tail(todo[t]) ELSE Cleanup(t)
        /\ TodoFits(t)' /\ PokeFits(t)' /\ CloseFits(t)'
    BY <1>1, <1>3, <1>4, DoneLeaves DEF SwitchGate
  <1>6. /\ demod' \in Demodulator
        /\ outcome # "lost" => demod'.gate = operation.value
    BY <1>3, ControlWritten DEF SwitchGate, Value
  <1>7. errors' \in 0..MaxErrors
    BY TransferCounts DEF SwitchGate
  <1>8. Types'
    BY <1>5, <1>6, <1>7 DEF SwitchGate, Inv, Types, Outcomes
  <1>9. ImageFits(t)'
    BY <1>1, <1>2, <1>3, <1>5 DEF SwitchGate, ThreadFits, ImageFits
  <1>10. GateFits(t)'
    <2> SUFFICES ASSUME ~gate_doubt'
                 PROVE  (tuner = "R820T" /\ demod'.gate) => todo'[t] # <<>>
      BY <1>3, <1>5 DEF GateFits, SwitchGate
    <2>1. outcome = "ok"
      BY DEF SwitchGate
    <2>2. demod'.gate = operation.value
      BY <1>6, <2>1
    <2>3. operation.value => Tail(todo[t]) # <<>>
      BY <1>1, <1>3, AtWork DEF Closes
    <2> QED BY <1>5, <2>1, <2>2, <2>3
  <1>11. ChipFits(t)'
    BY <1>1, <1>2, <1>5 DEF SwitchGate, ThreadFits, ChipFits
  <1>12. ThreadFits(t)'
    BY <1>5, <1>9, <1>10, <1>11 DEF ThreadFits
  <1> QED BY <1>1, <1>5, <1>8, <1>12, Stepped DEF SwitchGate

\* set_sample_rate resets the DDC.
LEMMA ResetDdcStep ==
    ASSUME Inv, NEW t \in Threads, NEW outcome \in Outcomes, ResetDdc(t, outcome)
    PROVE  Inv'
  <1> DEFINE operation == Head(todo[t])
             ok == outcome = "ok"
  <1>1. Active(t) /\ pc[t] = "run" /\ todo[t] # <<>> /\ operation.op = "ddc"
    BY DEF ResetDdc, Doing, Active
  <1>2. ThreadFits(t) /\ call[t].api = "set_sample_rate" /\ operation.value \in BOOLEAN
    BY <1>1, AtWork, KindsTell, OperationFields
  <1>3. /\ todo' \in [Threads -> Seq(Operations)]
        /\ failed' \in [Threads -> BOOLEAN]
        /\ pc' = [pc EXCEPT ![t] = "run"] /\ pc'[t] = "run"
        /\ pc' \in [Threads -> {"idle", "lock", "run", "xfer", "close"}]
        /\ TodoFits(t)' /\ PokeFits(t)' /\ CloseFits(t)'
    BY <1>1, <1>2, DoneLeaves DEF ResetDdc
  <1>4. demod' \in Demodulator /\ (outcome # "lost" => demod'.gate = FALSE)
    BY <1>2, ControlWritten DEF ResetDdc, Value
  <1>5. errors' \in 0..MaxErrors
    BY TransferCounts DEF ResetDdc
  <1>6. Types'
    BY <1>3, <1>4, <1>5 DEF ResetDdc, Inv, Types, Outcomes
  <1>7. ImageFits(t)'
    BY <1>1, <1>2, <1>3 DEF ResetDdc, ThreadFits, ImageFits
  <1>8. GateFits(t)'
    BY <1>3, <1>4 DEF ResetDdc, GateFits
  <1>9. ChipFits(t)'
    BY <1>1, <1>2, <1>3 DEF ResetDdc, ThreadFits, ChipFits
  <1>10. ThreadFits(t)'
    BY <1>3, <1>7, <1>8, <1>9 DEF ThreadFits
  <1> QED BY <1>1, <1>3, <1>6, <1>10, Stepped DEF ResetDdc

\* reset_demod reads the register ...
LEMMA PeekStep ==
    ASSUME Inv, NEW t \in Threads, NEW outcome \in Outcomes, Peek(t, outcome)
    PROVE  Inv'
  <1> DEFINE operation == Head(todo[t])
             ok == outcome = "ok"
  <1>1. Active(t) /\ pc[t] = "run" /\ todo[t] # <<>> /\ operation.op = "peek"
    BY DEF Peek, Doing, Active
  <1>2. ThreadFits(t) /\ call[t].api = "reset_demod"
    BY <1>1, AtWork, KindsTell
  <1>3. /\ todo' \in [Threads -> Seq(Operations)]
        /\ failed' \in [Threads -> BOOLEAN]
        /\ pc' = [pc EXCEPT ![t] = "run"] /\ pc'[t] = "run"
        /\ pc' \in [Threads -> {"idle", "lock", "run", "xfer", "close"}]
        /\ TodoFits(t)' /\ CloseFits(t)'
    BY <1>1, DoneLeaves DEF Peek, device
  <1>4. /\ DOMAIN image' = Threads /\ image'[t] = [gate |-> demod.gate]
        /\ \A u \in Threads : u # t => image'[u] = image[u]
    BY DEF Peek, Inv, Types
  <1>5. errors' \in 0..MaxErrors
    BY TransferCounts DEF Peek
  <1>6. demod.gate \in BOOLEAN
    BY DEF Inv, Types, Demodulator
  <1>7. Types'
    BY <1>3, <1>4, <1>5 DEF Peek, device, history, Inv, Types
  <1>8. ImageFits(t)' /\ PokeFits(t)'
    BY <1>2, <1>3, <1>4, <1>6 DEF Peek, device, ImageFits, PokeFits
  <1>9. GateFits(t)'
    BY <1>1, <1>2, <1>3 DEF Peek, device, history, ThreadFits, GateFits, HoldsGate
  <1>10. ChipFits(t)'
    BY <1>1, <1>2, <1>3 DEF Peek, device, history, ThreadFits, ChipFits
  <1>11. ThreadFits(t)'
    BY <1>3, <1>8, <1>9, <1>10 DEF ThreadFits
  <1> QED BY <1>1, <1>3, <1>4, <1>7, <1>11, Stepped DEF Peek

\* ... and writes the gate back as it was.
LEMMA PokeStep ==
    ASSUME Inv, NEW t \in Threads, NEW outcome \in Outcomes, Poke(t, outcome)
    PROVE  Inv'
  <1> DEFINE operation == Head(todo[t])
             ok == outcome = "ok"
  <1>1. Active(t) /\ pc[t] = "run" /\ todo[t] # <<>> /\ operation.op = "poke"
    BY DEF Poke, Doing, Active
  <1>2. ThreadFits(t) /\ call[t].api = "reset_demod" /\ operation.value \in BOOLEAN
    BY <1>1, AtWork, KindsTell, OperationFields
  <1>3. /\ todo' \in [Threads -> Seq(Operations)]
        /\ failed' \in [Threads -> BOOLEAN]
        /\ pc' = [pc EXCEPT ![t] = "run"] /\ pc'[t] = "run"
        /\ pc' \in [Threads -> {"idle", "lock", "run", "xfer", "close"}]
        /\ TodoFits(t)' /\ CloseFits(t)'
    BY <1>1, DoneLeaves DEF Poke
  <1>4. image[t].gate \in BOOLEAN /\ (gate_doubt \/ image[t].gate = demod.gate)
    BY <1>1, <1>2 DEF ThreadFits, PokeFits
  <1>5. demod' \in Demodulator /\ (outcome # "lost" => demod'.gate = image[t].gate)
    BY <1>2, <1>4, ControlWritten DEF Poke, Value
  <1>6. errors' \in 0..MaxErrors
    BY TransferCounts DEF Poke
  <1>7. gate_doubt' \in BOOLEAN /\ (~gate_doubt' => ~gate_doubt /\ outcome = "ok")
    BY DEF Poke
  <1>8. Types'
    BY <1>3, <1>5, <1>6, <1>7 DEF Poke, Inv, Types
  <1>9. ImageFits(t)'
    BY <1>2, <1>3 DEF Poke, ImageFits
  <1>10. PokeFits(t)'
    BY <1>4, <1>5, <1>7 DEF Poke, PokeFits
  <1>11. GateFits(t)'
    BY <1>1, <1>2, <1>3, <1>4, <1>5, <1>7 DEF Poke, ThreadFits, GateFits, HoldsGate
  <1>12. ChipFits(t)'
    BY <1>1, <1>2, <1>3 DEF Poke, ThreadFits, ChipFits
  <1>13. ThreadFits(t)'
    BY <1>3, <1>9, <1>10, <1>11, <1>12 DEF ThreadFits
  <1> QED BY <1>1, <1>3, <1>8, <1>13, Stepped DEF Poke

\* The resampler ratio.
LEMMA SetRatioStep ==
    ASSUME Inv, NEW t \in Threads, NEW outcome \in Outcomes \cup {"torn"}, SetRatio(t, outcome)
    PROVE  Inv'
  <1> DEFINE operation == Head(todo[t])
             ok == outcome = "ok"
  <1>1. Active(t) /\ pc[t] = "run" /\ todo[t] # <<>> /\ operation.op = "ratio"
    BY DEF SetRatio, Doing, Active
  <1>2. ThreadFits(t) /\ call[t].api = "set_sample_rate" /\ operation.value \in Small
    BY <1>1, AtWork, KindsTell, OperationFields
  <1>3. /\ todo' \in [Threads -> Seq(Operations)]
        /\ failed' \in [Threads -> BOOLEAN]
        /\ pc' = [pc EXCEPT ![t] = "run"] /\ pc'[t] = "run"
        /\ pc' \in [Threads -> {"idle", "lock", "run", "xfer", "close"}]
        /\ TodoFits(t)' /\ PokeFits(t)' /\ CloseFits(t)'
    BY <1>1, <1>2, DoneLeaves DEF SetRatio
  <1>4. demod' \in Demodulator /\ demod'.gate = demod.gate
    BY <1>2, SmallArguments DEF SetRatio, Value, Demodulator, Inv, Types
  <1>5. errors' \in 0..MaxErrors
    BY TransferCounts DEF SetRatio
  <1>6. Types'
    BY <1>3, <1>4, <1>5 DEF SetRatio, history, Inv, Types
  <1>7. ImageFits(t)'
    BY <1>1, <1>2, <1>3 DEF SetRatio, ThreadFits, ImageFits
  <1>8. GateFits(t)'
    BY <1>1, <1>2, <1>3, <1>4 DEF SetRatio, history, ThreadFits, GateFits, HoldsGate
  <1>9. ChipFits(t)'
    BY <1>1, <1>2, <1>3 DEF SetRatio, history, ThreadFits, ChipFits
  <1>10. ThreadFits(t)'
    BY <1>3, <1>7, <1>8, <1>9 DEF ThreadFits
  <1> QED BY <1>1, <1>3, <1>6, <1>10, Stepped DEF SetRatio

\* The NCO, whose IF is recorded.
LEMMA SetNcoStep ==
    ASSUME Inv, NEW t \in Threads, NEW outcome \in Outcomes \cup {"torn"}, SetNco(t, outcome)
    PROVE  Inv'
  <1> DEFINE operation == Head(todo[t])
             ok == outcome = "ok"
  <1>1. Active(t) /\ pc[t] = "run" /\ todo[t] # <<>> /\ operation.op \in {"nco", "nco_again"}
    BY DEF SetNco, Doing, Active
  <1>2. ThreadFits(t) /\ call[t].api = "set_sample_rate" /\ operation.value \in Small
    BY <1>1, AtWork, KindsTell, OperationFields
  <1>3. /\ todo' \in [Threads -> Seq(Operations)]
        /\ failed' \in [Threads -> BOOLEAN]
        /\ pc' = [pc EXCEPT ![t] = "run"] /\ pc'[t] = "run"
        /\ pc' \in [Threads -> {"idle", "lock", "run", "xfer", "close"}]
        /\ TodoFits(t)' /\ PokeFits(t)' /\ CloseFits(t)'
    BY <1>1, <1>2, DoneLeaves DEF SetNco
  <1>4. IfTarget(t) \in Small
    BY <1>2 DEF IfTarget, Value, Inv, Types, Tuning
  <1>5. demod' \in Demodulator /\ demod'.gate = demod.gate
    BY <1>4, SmallArguments DEF SetNco, Demodulator, Inv, Types
  <1>6. record' \in Tuning
    BY <1>4 DEF SetNco, Tuning, Inv, Types
  <1>7. errors' \in 0..MaxErrors
    BY TransferCounts DEF SetNco
  <1>8. Types'
    BY <1>3, <1>5, <1>6, <1>7 DEF SetNco, history, Inv, Types
  <1>9. ImageFits(t)'
    BY <1>1, <1>2, <1>3 DEF SetNco, ThreadFits, ImageFits
  <1>10. GateFits(t)'
    BY <1>1, <1>2, <1>3, <1>5 DEF SetNco, history, ThreadFits, GateFits, HoldsGate
  <1>11. ChipFits(t)'
    BY <1>1, <1>2, <1>3 DEF SetNco, history, ThreadFits, ChipFits
  <1>12. ThreadFits(t)'
    BY <1>3, <1>9, <1>10, <1>11 DEF ThreadFits
  <1> QED BY <1>1, <1>3, <1>8, <1>12, Stepped DEF SetNco

\* With a zero IF it is left alone.
LEMMA SkipNcoStep ==
    ASSUME Inv, NEW t \in Threads, SkipNco(t)
    PROVE  Inv'
  <1> DEFINE operation == Head(todo[t])
  <1>1. Active(t) /\ pc[t] = "run" /\ todo[t] # <<>> /\ operation.op = "nco_again"
    BY DEF SkipNco, Doing, Active
  <1>2. ThreadFits(t) /\ call[t].api = "set_sample_rate"
    BY <1>1, AtWork, KindsTell
  <1>3. /\ todo' \in [Threads -> Seq(Operations)]
        /\ failed' \in [Threads -> BOOLEAN]
        /\ pc' = [pc EXCEPT ![t] = "run"] /\ pc'[t] = "run"
        /\ pc' \in [Threads -> {"idle", "lock", "run", "xfer", "close"}]
        /\ TodoFits(t)' /\ PokeFits(t)' /\ CloseFits(t)'
    BY <1>1, <1>2, DoneLeaves DEF SkipNco, device
  <1>4. Types'
    BY <1>3 DEF SkipNco, device, history, Inv, Types
  <1>5. ImageFits(t)'
    BY <1>1, <1>2, <1>3 DEF SkipNco, device, ThreadFits, ImageFits
  <1>6. GateFits(t)'
    BY <1>1, <1>2, <1>3 DEF SkipNco, device, history, ThreadFits, GateFits, HoldsGate
  <1>7. ChipFits(t)'
    BY <1>1, <1>2, <1>3 DEF SkipNco, device, history, ThreadFits, ChipFits
  <1>8. ThreadFits(t)'
    BY <1>3, <1>5, <1>6, <1>7 DEF ThreadFits
  <1> QED BY <1>1, <1>3, <1>4, <1>8, Stepped DEF SkipNco

\* A write of the FC0012 that is not needed.
LEMMA SkipWireStep ==
    ASSUME Inv, NEW t \in Threads, SkipWire(t)
    PROVE  Inv'
  <1> DEFINE operation == Head(todo[t])
  <1>1. Active(t) /\ pc[t] = "run" /\ todo[t] # <<>> /\ operation.op = "wire_write"
    BY DEF SkipWire, Doing, Active
  <1>2. ThreadFits(t) /\ tuner # "R820T" /\ call[t].api # "reset_demod"
    BY <1>1, AtWork, KindsTell
  <1>3. /\ todo' \in [Threads -> Seq(Operations)]
        /\ failed' \in [Threads -> BOOLEAN]
        /\ pc' = [pc EXCEPT ![t] = "run"] /\ pc'[t] = "run"
        /\ pc' \in [Threads -> {"idle", "lock", "run", "xfer", "close"}]
        /\ TodoFits(t)' /\ PokeFits(t)' /\ CloseFits(t)'
    BY <1>1, <1>2, DoneLeaves DEF SkipWire, device
  <1>4. /\ DOMAIN image' = Threads /\ image'[t] = <<>>
        /\ \A u \in Threads : u # t => image'[u] = image[u]
    BY DEF SkipWire, Inv, Types
  <1>5. Types'
    BY <1>3, <1>4 DEF SkipWire, device, history, Inv, Types
  <1>6. ImageFits(t)'
    BY <1>3, <1>4 DEF ImageFits
  <1>7. GateFits(t)' /\ ChipFits(t)'
    BY <1>2, <1>3 DEF SkipWire, device, GateFits, ChipFits
  <1>8. ThreadFits(t)'
    BY <1>3, <1>6, <1>7 DEF ThreadFits
  <1> QED BY <1>1, <1>3, <1>4, <1>5, <1>8, Stepped DEF SkipWire

\* The byte composed is one of the register.
LEMMA ComposedFits ==
    ASSUME Inv, NEW t \in Threads, Active(t), pc[t] = "run", todo[t] # <<>>,
           Head(todo[t]).op \in {"rmw", "wire_write"}
    PROVE  Composed(t) \in Byte(Head(todo[t]).reg)
  <1> DEFINE operation == Head(todo[t])
  <1>1. /\ ThreadFits(t) /\ operation.reg \in Registers /\ operation.fields \in Fields
        /\ operation.op = "wire_write" => tuner # "R820T" /\ call[t].api # "reset_demod"
    BY AtWork, KindsTell, OperationFields
  <1>2. /\ shadow[operation.reg] \in Byte(operation.reg)
        /\ Blank[operation.reg] \in Byte(operation.reg)
    BY <1>1, BlankFile DEF Inv, Types, RegisterFile
  <1>3. CASE operation.op = "rmw"
    BY <1>1, <1>2, <1>3, OverByte DEF Composed
  <1>4. CASE operation.op = "wire_write" /\ image[t] # <<>>
    <2>1. image[t] \in Byte(operation.reg)
      BY <1>1, <1>4 DEF ThreadFits, ImageFits
    <2>2. Composed(t) = Over(operation.fields, image[t])
      BY <1>4 DEF Composed
    <2> QED BY <1>1, <2>1, <2>2, OverByte
  <1>5. CASE operation.op = "wire_write" /\ ~(image[t] # <<>>)
    <2>1. Composed(t) = Over(operation.fields, Blank[operation.reg])
      BY <1>5 DEF Composed
    <2> QED BY <1>1, <1>2, <2>1, OverByte
  <1> QED BY <1>3, <1>4, <1>5

\* The gate is opened for one transfer; an error of it ends an access of the R820T.
LEMMA OpenGateStep ==
    ASSUME Inv, NEW t \in Threads, NEW outcome \in Outcomes, OpenGate(t, outcome)
    PROVE  Inv'
  <1> DEFINE operation == Head(todo[t])
  <1>1. /\ Active(t) /\ pc[t] = "run" /\ todo[t] # <<>>
        /\ operation.op \in Scoped \cup Wired
        /\ operation.op \in {"rmw", "probe", "wire_read", "wire_write"}
    BY DEF OpenGate, Doing, Active, Scoped, Wired
  <1>2. ThreadFits(t) /\ call[t].api # "reset_demod"
    BY <1>1, AtWork, KindsTell
  <1>3. /\ DOMAIN image' = Threads /\ image'[t] = Composed(t)
        /\ \A u \in Threads : u # t => image'[u] = image[u]
    BY DEF OpenGate, Inv, Types
  <1>4. /\ demod' \in Demodulator
        /\ outcome # "lost" => demod'.gate = TRUE
    BY ControlWritten DEF OpenGate
  <1>5. errors' \in 0..MaxErrors
    BY TransferCounts DEF OpenGate
  <1>6. CASE outcome = "ok" \/ Doing(t, Wired)
    <2>1. pc' = [pc EXCEPT ![t] = "xfer"] /\ UNCHANGED <<todo, failed>>
      BY <1>6 DEF OpenGate
    <2>2. pc'[t] = "xfer" /\ pc' \in [Threads -> {"idle", "lock", "run", "xfer", "close"}]
      BY <2>1 DEF Inv, Types
    <2>3. Types'
      BY <1>3, <1>4, <1>5, <2>1, <2>2 DEF OpenGate, Inv, Types
    <2>4. TodoFits(t)'
      BY <1>1, <1>2, <2>1, <2>2 DEF OpenGate, ThreadFits, TodoFits
    <2>5. ImageFits(t)'
      BY <1>1, <1>3, <2>1, <2>2, ComposedFits DEF ImageFits
    <2>6. PokeFits(t)' /\ CloseFits(t)'
      BY <2>2 DEF PokeFits, CloseFits
    <2>7. GateFits(t)'
      <3>1. ~gate_doubt' => demod'.gate
        BY <1>4 DEF OpenGate
      <3> QED BY <2>2, <3>1 DEF GateFits
    <2>8. ChipFits(t)'
      BY <1>1, <1>2, <2>2 DEF OpenGate, ThreadFits, ChipFits
    <2>9. ThreadFits(t)'
      BY <2>4, <2>5, <2>6, <2>7, <2>8 DEF ThreadFits
    <2> QED BY <1>1, <1>3, <2>1, <2>3, <2>9, Stepped DEF OpenGate
  <1>7. CASE ~(outcome = "ok" \/ Doing(t, Wired))
    <2>1. Done(t, FALSE) /\ operation.op \in Scoped
      BY <1>1, <1>7 DEF OpenGate, Doing
    <2>2. /\ todo' \in [Threads -> Seq(Operations)]
          /\ failed' \in [Threads -> BOOLEAN]
          /\ pc' = [pc EXCEPT ![t] = "run"] /\ pc'[t] = "run"
          /\ pc' \in [Threads -> {"idle", "lock", "run", "xfer", "close"}]
          /\ TodoFits(t)' /\ PokeFits(t)' /\ CloseFits(t)'
      BY <1>1, <1>2, <2>1, DoneLeaves DEF OpenGate
    <2>3. tuner = "R820T"
      BY <1>1, <2>1, AtWork, KindsTell DEF Scoped
    <2>4. Types'
      BY <1>3, <1>4, <1>5, <2>2 DEF OpenGate, Inv, Types
    <2>5. ImageFits(t)'
      BY <2>2, <2>3 DEF OpenGate, ImageFits
    <2>6. GateFits(t)'
      BY <1>7 DEF OpenGate, GateFits
    <2>7. ChipFits(t)'
      BY <1>1, <1>2, <2>2 DEF OpenGate, ThreadFits, ChipFits
    <2>8. ThreadFits(t)'
      BY <2>2, <2>5, <2>6, <2>7 DEF ThreadFits
    <2> QED BY <1>1, <1>3, <2>2, <2>4, <2>8, Stepped DEF OpenGate
  <1> QED BY <1>6, <1>7

\* What a transfer does to the register it writes.
LEMMA EffectFits ==
    ASSUME Inv, NEW t \in Threads, Active(t), todo[t] # <<>>, NEW outcome \in Outcomes, NEW byte,
           Head(todo[t]).op \in {"rmw", "probe", "wire_read", "wire_write", "session_write"},
           Writes(t) => byte \in Byte(Head(todo[t]).reg),
           I2cEffect(t, outcome, byte)
    PROVE  /\ RegisterFile(chip') /\ doubt' \subseteq Registers
           /\ \A r \in Registers :
                ~(Writes(t) /\ r = Head(todo[t]).reg) =>
                    chip'[r] = chip[r] /\ (r \in doubt => r \in doubt')
           /\ (Writes(t) /\ Succeeds(outcome)) => chip'[Head(todo[t]).reg] = byte
           /\ (Writes(t) /\ ~Succeeds(outcome)) => Head(todo[t]).reg \in doubt'
           /\ Head(todo[t]).reg \in Registers
  <1> DEFINE reg == Head(todo[t]).reg
  <1>1. reg \in Registers
    BY AtWork, OperationFields
  <1>2. RegisterFile(chip) /\ doubt \subseteq Registers
    BY DEF Inv, Types
  <1>3. Succeeds(outcome) => Reaches(outcome)
    BY DEF Succeeds, Reaches
  <1>4. /\ chip' = IF Writes(t) /\ Reaches(outcome) THEN [chip EXCEPT ![reg] = byte] ELSE chip
        /\ doubt' = IF ~Writes(t) THEN doubt
                    ELSE IF Succeeds(outcome) THEN doubt \ {reg} ELSE doubt \cup {reg}
    BY DEF I2cEffect
  <1> HIDE DEF reg
  <1>5. CASE Writes(t) /\ Reaches(outcome)
    <2>1. byte \in Byte(reg)
      BY <1>5 DEF reg
    <2>2. /\ RegisterFile(chip') /\ chip'[reg] = byte
          /\ \A r \in Registers : r # reg => chip'[r] = chip[r]
      <3> DEFINE after == [chip EXCEPT ![reg] = byte]
      <3>1. chip' = after
        BY <1>4, <1>5
      <3>2. /\ RegisterFile(after) /\ after[reg] = byte
            /\ \A r \in Registers : r # reg => after[r] = chip[r]
        BY <1>1, <1>2, <2>1, WriteFile
      <3> QED BY <3>1, <3>2
    <2> QED BY <1>1, <1>2, <1>4, <1>5, <2>2 DEF reg
  <1>6. CASE ~(Writes(t) /\ Reaches(outcome))
    BY <1>1, <1>2, <1>3, <1>4, <1>6 DEF reg
  <1> QED BY <1>5, <1>6

\* The R820T's transfer.
LEMMA ScopedTransferStep ==
    ASSUME Inv, NEW t \in Threads, NEW outcome \in Outcomes, ScopedTransfer(t, outcome)
    PROVE  Inv'
  <1> DEFINE operation == Head(todo[t])
             reg == operation.reg
  <1>1. /\ Active(t) /\ pc[t] = "xfer" /\ operation.op \in Scoped
        /\ operation.op \in {"rmw", "probe"}
    BY DEF ScopedTransfer, Active, Scoped
  <1>2. ThreadFits(t) /\ todo[t] # <<>>
    BY <1>1 DEF Inv, ThreadFits, TodoFits
  <1>3. Writes(t) <=> operation.op = "rmw"
    BY <1>1 DEF Writes
  <1>4. Writes(t) => image[t] \in Byte(reg)
    BY <1>1, <1>2, <1>3 DEF ThreadFits, ImageFits
  <1>5. /\ RegisterFile(chip') /\ doubt' \subseteq Registers
        /\ \A r \in Registers :
             ~(Writes(t) /\ r = reg) => chip'[r] = chip[r] /\ (r \in doubt => r \in doubt')
        /\ Writes(t) /\ Succeeds(outcome) => chip'[reg] = image[t]
        /\ Writes(t) /\ ~Succeeds(outcome) => reg \in doubt'
        /\ reg \in Registers
    BY <1>1, <1>2, <1>4, EffectFits DEF ScopedTransfer
  <1>6. pc' = [pc EXCEPT ![t] = "close"]
    BY DEF ScopedTransfer
  <1>7. pc'[t] = "close" /\ pc' \in [Threads -> {"idle", "lock", "run", "xfer", "close"}]
    BY <1>6 DEF Inv, Types
  <1>8. demod.gate \in BOOLEAN
    BY DEF Inv, Types, Demodulator
  <1>9. failed' \in [Threads -> BOOLEAN] /\ (failed'[t] <=> ~Succeeds(outcome))
    BY <1>8 DEF ScopedTransfer, Succeeds, Inv, Types
  <1>10. errors' \in 0..MaxErrors
    BY TransferCounts DEF ScopedTransfer
  <1>11. Types'
    BY <1>5, <1>7, <1>9, <1>10 DEF ScopedTransfer, Inv, Types
  <1>12. TodoFits(t)'
    BY <1>1, <1>2, <1>7 DEF ScopedTransfer, ThreadFits, TodoFits
  <1>13. ImageFits(t)'
    BY <1>1, <1>3, <1>4, <1>7 DEF ScopedTransfer, ImageFits
  <1>14. PokeFits(t)'
    BY <1>7 DEF PokeFits
  <1>15. CloseFits(t)'
    BY <1>3, <1>5, <1>9 DEF ScopedTransfer, CloseFits
  <1>16. GateFits(t)'
    BY <1>7 DEF GateFits
  <1>17. ChipFits(t)'
    <2> SUFFICES ASSUME tuner = "R820T", NEW r \in Registers
                 PROVE  \/ chip'[r] = shadow[r]
                        \/ r \in doubt'
                        \/ ~failed'[t] /\ operation.op = "rmw" /\ reg = r
      BY <1>7 DEF ScopedTransfer, ChipFits
    <2>1. chip[r] = shadow[r] \/ r \in doubt
      BY <1>1, <1>2 DEF ThreadFits, ChipFits
    <2> QED BY <1>3, <1>5, <1>9, <2>1
  <1>18. ThreadFits(t)'
    BY <1>12, <1>13, <1>14, <1>15, <1>16, <1>17 DEF ThreadFits
  <1> QED BY <1>1, <1>6, <1>11, <1>18, Stepped DEF ScopedTransfer

\* The gate is closed, and the shadow file takes the byte.
LEMMA CloseGateStep ==
    ASSUME Inv, NEW t \in Threads, NEW outcome \in Outcomes, CloseGate(t, outcome)
    PROVE  Inv'
  <1> DEFINE operation == Head(todo[t])
             reg == operation.reg
             ok == ~failed[t]
  <1>1. Active(t) /\ pc[t] = "close"
    BY DEF CloseGate, Active
  <1>2. ThreadFits(t) /\ todo[t] # <<>> /\ operation.op \in {"rmw", "probe"}
    BY <1>1 DEF Inv, ThreadFits, TodoFits, Scoped
  <1>3. /\ tuner = "R820T" /\ call[t].api # "reset_demod" /\ reg \in Registers
        /\ ~failed[t] => operation.op = "rmw"
    BY <1>1, <1>2, AtWork, KindsTell, OperationFields DEF CloseGate
  <1>4. failed[t] \in BOOLEAN
    BY DEF Inv, Types
  <1>5. /\ todo' \in [Threads -> Seq(Operations)]
        /\ failed' \in [Threads -> BOOLEAN]
        /\ pc' = [pc EXCEPT ![t] = "run"] /\ pc'[t] = "run"
        /\ pc' \in [Threads -> {"idle", "lock", "run", "xfer", "close"}]
        /\ TodoFits(t)' /\ PokeFits(t)' /\ CloseFits(t)'
    BY <1>1, <1>2, <1>3, <1>4, DoneLeaves DEF CloseGate
  <1>6. demod' \in Demodulator /\ (outcome # "lost" => demod'.gate = FALSE)
    BY ControlWritten DEF CloseGate
  <1>7. errors' \in 0..MaxErrors
    BY TransferCounts DEF CloseGate
  <1>8. /\ RegisterFile(shadow')
        /\ \A r \in Registers : (failed[t] \/ r # reg) => shadow'[r] = shadow[r]
        /\ ~failed[t] => shadow'[reg] = chip[reg]
    <2>1. ~failed[t] => image[t] \in Byte(reg) /\ chip[reg] = image[t]
      BY <1>1, <1>2, <1>3 DEF ThreadFits, ImageFits, CloseFits
    <2>2. RegisterFile(shadow)
      BY DEF Inv, Types
    <2>3. shadow' = IF failed[t] THEN shadow ELSE [shadow EXCEPT ![reg] = image[t]]
      BY DEF CloseGate
    <2> HIDE DEF reg
    <2> QED BY <1>3, <2>1, <2>2, <2>3, WriteFile
  <1>9. Types'
    BY <1>5, <1>6, <1>7, <1>8 DEF CloseGate, Inv, Types
  <1>10. ImageFits(t)'
    BY <1>3, <1>5 DEF CloseGate, ImageFits
  <1>11. GateFits(t)'
    BY <1>5, <1>6 DEF CloseGate, GateFits
  <1>12. ChipFits(t)'
    <2> SUFFICES ASSUME NEW r \in Registers
                 PROVE  chip[r] = shadow'[r] \/ r \in doubt
      BY DEF CloseGate, ChipFits
    <2>1. chip[r] = shadow[r] \/ r \in doubt \/ (~failed[t] /\ reg = r)
      BY <1>2, <1>3 DEF ThreadFits, ChipFits
    <2> QED BY <1>8, <2>1
  <1>13. ThreadFits(t)'
    BY <1>5, <1>10, <1>11, <1>12 DEF ThreadFits
  <1> QED BY <1>1, <1>5, <1>9, <1>13, Stepped DEF CloseGate

\* The gate is closed after a read of the PLL, which may ask for a second attempt.
LEMMA CloseAfterProbeStep ==
    ASSUME Inv, NEW t \in Threads, NEW outcome \in Outcomes, NEW locked \in BOOLEAN,
           CloseAfterProbe(t, outcome, locked)
    PROVE  Inv'
  <1> DEFINE operation == Head(todo[t])
             again == << Rmw("VCO_DRIVE", [current |-> 1]), Probe(TRUE) >> \o Tail(todo[t])
  <1>1. Active(t) /\ pc[t] = "close" /\ operation.op = "probe"
    BY DEF CloseAfterProbe, Active
  <1>2. ThreadFits(t) /\ todo[t] # <<>>
    BY <1>1 DEF Inv, ThreadFits, TodoFits
  <1>3. /\ tuner = "R820T" /\ call[t].api = "set_frequency" /\ call[t] \in Calls
        /\ operation.last \in BOOLEAN
    BY <1>1, <1>2, AtWork, KindsTell, OperationFields
  <1>4. demod' \in Demodulator /\ (outcome # "lost" => demod'.gate = FALSE)
    BY ControlWritten DEF CloseAfterProbe
  <1>5. errors' \in 0..MaxErrors
    BY TransferCounts DEF CloseAfterProbe
  <1>6. /\ todo' \in [Threads -> Seq(Operations)]
        /\ failed' \in [Threads -> BOOLEAN]
        /\ pc' = [pc EXCEPT ![t] = "run"] /\ pc'[t] = "run"
        /\ pc' \in [Threads -> {"idle", "lock", "run", "xfer", "close"}]
        /\ TodoFits(t)' /\ PokeFits(t)' /\ CloseFits(t)'
    <2>1. CASE locked \/ operation.last
      <3>1. Done(t, locked)
        BY <2>1 DEF CloseAfterProbe
      <3> QED BY <1>1, <1>2, <1>3, <3>1, DoneLeaves DEF CloseAfterProbe
    <2>2. CASE ~(locked \/ operation.last)
      <3>1. /\ todo' = [todo EXCEPT ![t] = again]
            /\ pc' = [pc EXCEPT ![t] = "run"] /\ failed' = failed
        BY <2>2 DEF CloseAfterProbe
      <3>2. todo[t] \in Seq(Operations) /\ Fits("R820T", call[t], todo[t])
        BY <1>2, <1>3 DEF ThreadFits, TodoFits, Inv, Types
      <3>3. again \in Seq(Operations) /\ Fits("R820T", call[t], again) /\ Head(again).op = "rmw"
        BY <1>2, <1>3, <3>2, ProbeAgainFits
      <3> HIDE DEF again
      <3>4. todo' \in [Threads -> Seq(Operations)] /\ todo'[t] = again
        BY <3>1, <3>3 DEF Inv, Types
      <3>5. pc'[t] = "run" /\ pc' \in [Threads -> {"idle", "lock", "run", "xfer", "close"}]
        BY <3>1 DEF Inv, Types
      <3>6. failed' \in [Threads -> BOOLEAN]
        BY <3>1 DEF Inv, Types
      <3>7. TodoFits(t)'
        BY <1>3, <3>3, <3>4, <3>5 DEF CloseAfterProbe, TodoFits
      <3>8. PokeFits(t)' /\ CloseFits(t)'
        BY <3>3, <3>4, <3>5 DEF PokeFits, CloseFits
      <3> QED BY <3>1, <3>4, <3>5, <3>6, <3>7, <3>8
    <2> QED BY <2>1, <2>2
  <1>7. Types'
    BY <1>4, <1>5, <1>6 DEF CloseAfterProbe, Inv, Types
  <1>8. ImageFits(t)'
    BY <1>3, <1>6 DEF CloseAfterProbe, ImageFits
  <1>9. GateFits(t)'
    BY <1>4, <1>6 DEF CloseAfterProbe, GateFits
  <1>10. ChipFits(t)'
    BY <1>1, <1>2 DEF CloseAfterProbe, ThreadFits, ChipFits
  <1>11. ThreadFits(t)'
    BY <1>6, <1>8, <1>9, <1>10 DEF ThreadFits
  <1> QED BY <1>1, <1>6, <1>7, <1>11, Stepped DEF CloseAfterProbe

\* The FC0012's transfer.
LEMMA WireTransferStep ==
    ASSUME Inv, NEW t \in Threads, NEW outcome \in Outcomes, WireTransfer(t, outcome)
    PROVE  Inv'
  <1> DEFINE operation == Head(todo[t])
             reg == operation.reg
             ok == Succeeds(outcome) \/ (Writes(t) /\ operation.soft)
  <1>1. Active(t) /\ pc[t] = "xfer" /\ operation.op \in {"wire_read", "wire_write"}
    BY DEF WireTransfer, Active, Wired
  <1>2. ThreadFits(t) /\ todo[t] # <<>>
    BY <1>1 DEF Inv, ThreadFits, TodoFits
  <1>3. tuner # "R820T" /\ call[t].api # "reset_demod" /\ reg \in Registers
    BY <1>1, <1>2, AtWork, KindsTell, OperationFields
  <1>4. Writes(t) <=> operation.op = "wire_write"
    BY <1>1 DEF Writes
  <1>5. Writes(t) => image[t] \in Byte(reg)
    BY <1>1, <1>2, <1>4 DEF ThreadFits, ImageFits
  <1>6. RegisterFile(chip') /\ doubt' \subseteq Registers
    BY <1>1, <1>2, <1>5, EffectFits DEF WireTransfer
  <1>7. ok \in BOOLEAN
    OBVIOUS
  <1>8. Done(t, ok)
    BY DEF WireTransfer
  <1> HIDE DEF ok
  <1>9. /\ todo' \in [Threads -> Seq(Operations)]
        /\ failed' \in [Threads -> BOOLEAN]
        /\ pc' = [pc EXCEPT ![t] = "run"] /\ pc'[t] = "run"
        /\ pc' \in [Threads -> {"idle", "lock", "run", "xfer", "close"}]
        /\ todo'[t] = IF ok THEN Tail(todo[t]) ELSE Cleanup(t)
        /\ TodoFits(t)' /\ PokeFits(t)' /\ CloseFits(t)'
    BY <1>1, <1>2, <1>3, <1>7, <1>8, DoneLeaves DEF WireTransfer
  <1>10. /\ DOMAIN image' = Threads
         /\ image'[t] = IF Writes(t) THEN <<>> ELSE chip[reg]
         /\ \A u \in Threads : u # t => image'[u] = image[u]
    BY DEF WireTransfer, Inv, Types
  <1>11. errors' \in 0..MaxErrors
    BY TransferCounts DEF WireTransfer
  <1>12. Types'
    BY <1>6, <1>9, <1>10, <1>11 DEF WireTransfer, Inv, Types
  <1>13. ImageFits(t)'
    <2>1. CASE Writes(t)
      BY <2>1, <1>9, <1>10 DEF ImageFits
    <2>2. CASE ~Writes(t)
      <3>1. operation.op = "wire_read"
        BY <1>1, <1>4, <2>2
      <3>2. chip[reg] \in Byte(reg)
        BY <1>3 DEF Inv, Types, RegisterFile
      <3>3. CASE ok
        <4>1. Head(todo'[t]).op = "wire_write" /\ Head(todo'[t]).reg = reg
          BY <1>1, <1>2, <1>9, <3>1, <3>3, AtWork
        <4> QED BY <1>9, <1>10, <2>2, <3>2, <4>1 DEF ImageFits
      <3>4. CASE ~ok
        <4>1. ~HoldsGate(tuner, call[t])
          BY <1>1, <1>2, <1>3, AtWork, KindsTell
        <4>2. todo'[t] = <<>>
          BY <1>1, <1>2, <1>9, <3>4, <4>1, AtWork
        <4> QED BY <1>9, <4>2 DEF ImageFits
      <3> QED BY <3>3, <3>4
    <2> QED BY <2>1, <2>2
  <1>14. GateFits(t)' /\ ChipFits(t)'
    BY <1>3, <1>9 DEF WireTransfer, GateFits, ChipFits
  <1>15. ThreadFits(t)'
    BY <1>9, <1>13, <1>14 DEF ThreadFits
  <1> QED BY <1>1, <1>9, <1>10, <1>12, <1>15, Stepped DEF WireTransfer

\* A write of a session.
LEMMA SessionTransferStep ==
    ASSUME Inv, NEW t \in Threads, NEW outcome \in Outcomes, SessionTransfer(t, outcome)
    PROVE  Inv'
  <1> DEFINE operation == Head(todo[t])
             reg == operation.reg
             ok == Succeeds(outcome)
  <1>1. Active(t) /\ pc[t] = "run" /\ todo[t] # <<>> /\ operation.op = "session_write"
    BY DEF SessionTransfer, Doing, Active
  <1>2. ThreadFits(t) /\ call[t].api = "write_batch" /\ reg \in Registers /\ Writes(t)
    BY <1>1, AtWork, KindsTell, OperationFields DEF Writes
  <1>3. HoldsGate(tuner, call[t]) /\ ~Closes(operation)
    BY <1>1, <1>2 DEF HoldsGate, Closes
  <1>4. Blank[reg] \in Byte(reg)
    BY <1>2, BlankFile DEF RegisterFile
  <1>5. /\ RegisterFile(chip') /\ doubt' \subseteq Registers
        /\ \A r \in Registers :
             ~(Writes(t) /\ r = reg) => chip'[r] = chip[r] /\ (r \in doubt => r \in doubt')
        /\ (Writes(t) /\ Succeeds(outcome)) => chip'[reg] = Blank[reg]
        /\ (Writes(t) /\ ~Succeeds(outcome)) => reg \in doubt'
    BY <1>1, <1>4, EffectFits DEF SessionTransfer
  <1>6. ok \in BOOLEAN
    BY DEF Succeeds, Inv, Types, Demodulator
  <1>7. Done(t, ok)
    BY DEF SessionTransfer
  <1> HIDE DEF ok
  <1>8. /\ todo' \in [Threads -> Seq(Operations)]
        /\ failed' \in [Threads -> BOOLEAN]
        /\ pc' = [pc EXCEPT ![t] = "run"] /\ pc'[t] = "run"
        /\ pc' \in [Threads -> {"idle", "lock", "run", "xfer", "close"}]
        /\ todo'[t] = IF ok THEN Tail(todo[t]) ELSE Cleanup(t)
        /\ TodoFits(t)' /\ PokeFits(t)' /\ CloseFits(t)'
    BY <1>1, <1>2, <1>6, <1>7, DoneLeaves DEF SessionTransfer
  <1>9. todo'[t] # <<>>
    BY <1>1, <1>3, <1>8, AtWork
  <1>10. /\ RegisterFile(shadow')
         /\ \A r \in Registers : r # reg => shadow'[r] = shadow[r]
         /\ (tuner = "R820T" /\ Succeeds(outcome)) => shadow'[reg] = Blank[reg]
    <2>1. RegisterFile(shadow)
      BY DEF Inv, Types
    <2>2. shadow' = IF Succeeds(outcome) /\ tuner = "R820T"
                    THEN [shadow EXCEPT ![reg] = Blank[reg]] ELSE shadow
      BY DEF SessionTransfer
    <2> HIDE DEF reg
    <2> QED BY <1>2, <1>4, <2>1, <2>2, WriteFile
  <1>11. errors' \in 0..MaxErrors
    BY TransferCounts DEF SessionTransfer
  <1>12. Types'
    BY <1>5, <1>8, <1>10, <1>11 DEF SessionTransfer, Inv, Types
  <1>13. ImageFits(t)'
    BY <1>1, <1>2, <1>8 DEF SessionTransfer, ThreadFits, ImageFits
  <1>14. GateFits(t)'
    BY <1>3, <1>8, <1>9 DEF SessionTransfer, GateFits
  <1>15. ChipFits(t)'
    <2> SUFFICES ASSUME tuner = "R820T", NEW r \in Registers
                 PROVE  chip'[r] = shadow'[r] \/ r \in doubt'
      BY DEF SessionTransfer, ChipFits
    <2>1. chip[r] = shadow[r] \/ r \in doubt
      BY <1>1, <1>2 DEF ThreadFits, ChipFits
    <2> QED BY <1>2, <1>5, <1>10, <2>1
  <1>16. ThreadFits(t)'
    BY <1>8, <1>13, <1>14, <1>15 DEF ThreadFits
  <1> QED BY <1>1, <1>8, <1>12, <1>16, Stepped DEF SessionTransfer

-----------------------------------------------------------------------------
(* Calls begin and end.                                                    *)

\* The functions of the calls, each with or without the lock.
LEMMA CallKinds ==
    /\ \A c \in Calls : c # NoCall /\ (c.api \in Locked \/ c.api \in Unlocked)
    /\ Locked \cap Unlocked = {}
  <1>1. Locked \cap Unlocked = {}
    BY DEF Locked, Unlocked
  <1>2. ASSUME NEW c \in Calls
        PROVE  c # NoCall /\ (c.api \in Locked \/ c.api \in Unlocked)
    <2>1. c.api \in Locked \/ c.api \in Unlocked
      BY DEF Calls, Locked
    <2>2. NoCall.api \notin Locked /\ NoCall.api \notin Unlocked
      BY DEF NoCall, Locked, Unlocked
    <2> QED BY <2>1, <2>2
  <1> QED BY <1>1, <1>2

\* With no thread at work, one that sets out on its program finds all at rest.
LEMMA SetsOut ==
    ASSUME Inv, NEW t \in Threads, \A u \in Threads : ~Active(u), NEW c \in Calls,
           pc' = [pc EXCEPT ![t] = "run"], todo' = [todo EXCEPT ![t] = Program(c)],
           call'[t] = c,
           UNCHANGED <<tuner, demod, chip, shadow, image, doubt, gate_doubt>>,
           Types', Exclusive'
    PROVE  Inv'
  <1>1. pc'[t] = "run" /\ \A u \in Threads : u # t => pc'[u] = pc[u]
    BY DEF Inv, Types
  <1>2. Active(t)' /\ \A u \in Threads : u # t => ~Active(u)'
    BY <1>1 DEF Active
  <1>3. /\ Program(c) \in Seq(Operations) /\ Fits(tuner, c, Program(c))
        /\ c.api = "reset_demod" => Program(c) # <<>> /\ Head(Program(c)).op = "peek"
    BY ProgramFits DEF Inv, Types
  <1>4. todo'[t] = Program(c)
    BY DEF Inv, Types
  <1>5. image'[t] = <<>>
    BY DEF Inv
  <1>6. TodoFits(t)'
    BY <1>1, <1>3, <1>4 DEF TodoFits
  <1>7. ImageFits(t)' /\ CloseFits(t)'
    BY <1>1, <1>5 DEF ImageFits, CloseFits
  <1>8. todo'[t] # <<>> => Head(todo'[t]).op # "poke"
    <2>1. CASE c.api = "reset_demod"
      BY <1>3, <1>4, <2>1
    <2>2. CASE c.api # "reset_demod"
      <3>1. tuner \in {"R820T", "FC0012"}
        BY TunerBusAssumption DEF Inv, Types
      <3>2. \A o : o.op \in Kinds(tuner, c) => o.op # "poke"
        BY <2>2, <3>1, KindsTell
      <3>3. Program(c) # <<>> => Head(Program(c)).op \in Kinds(tuner, c)
        BY <1>3, TailFits
      <3> QED BY <1>4, <3>2, <3>3
    <2> QED BY <2>1, <2>2
  <1>9. PokeFits(t)'
    BY <1>8 DEF PokeFits
  <1>10. tuner = "R820T" => /\ \A r \in Registers : chip[r] = shadow[r] \/ r \in doubt
                            /\ ~gate_doubt => ~demod.gate
    BY DEF Inv, Rest
  <1>11. GateFits(t)'
    BY <1>1, <1>10 DEF GateFits
  <1>12. ChipFits(t)'
    BY <1>10 DEF ChipFits
  <1>13. ThreadFits(t)'
    BY <1>6, <1>7, <1>9, <1>11, <1>12 DEF ThreadFits
  <1>14. \A u \in Threads : (~Active(u) => image[u] = <<>>)'
    BY DEF Inv
  <1>15. \A u \in Threads : (Active(u) => ThreadFits(u))'
    BY <1>2, <1>13
  <1>16. Rest'
    BY <1>2 DEF Rest
  <1> QED BY <1>14, <1>15, <1>16 DEF Inv

\* The lock is taken.
LEMMA AcquireStep ==
    ASSUME Inv, NEW t \in Threads, Acquire(t)
    PROVE  Inv'
  <1>1. /\ pc[t] = "lock" /\ lock = NoThread /\ call[t] \in Calls /\ call[t].api \in Locked
        /\ InCall(t)
    BY DEF Acquire, Inv, Types, Exclusive, InCall
  <1>2. ASSUME NEW u \in Threads, Active(u)
        PROVE  FALSE
    <2>1. u # t /\ InCall(u)
      BY <1>1, <1>2 DEF Active, InCall, Inv, Exclusive
    <2>2. call[u].api \in Locked
      BY <1>1, <2>1 DEF Inv, Exclusive
    <2>3. lock = u
      BY <1>2, <2>2 DEF Inv, Exclusive
    <2> QED BY <1>1, <2>3, TunerBusAssumption
  <1>3. /\ Program(call[t]) \in Seq(Operations)
        /\ record' \in Tuning
    <2>1. Program(call[t]) \in Seq(Operations)
      BY <1>1, ProgramFits DEF Inv, Types
    <2>2. call[t].api = "set_sample_rate" => call[t].arg \in Rates
      BY <1>1 DEF Calls, Unlocked
    <2>3. record' \in Tuning
      BY <2>2 DEF Acquire, Tuning, Inv, Types
    <2> QED BY <2>1, <2>3
  <1>4. /\ pc' = [pc EXCEPT ![t] = "run"]
        /\ todo' = [todo EXCEPT ![t] = Program(call[t])]
        /\ lock' = t /\ call' = call
    BY DEF Acquire
  <1>5. Types'
    BY <1>3, <1>4 DEF Acquire, device, history, Inv, Types
  <1>6. pc'[t] = "run" /\ \A u \in Threads : u # t => pc'[u] = pc[u]
    BY <1>4 DEF Inv, Types
  <1>7. Exclusive'
    <2>1. \A u \in Threads : (pc[u] = "idle" <=> call[u] = NoCall)'
      BY <1>1, <1>4, <1>6 DEF Inv, Exclusive, InCall
    <2>2. \A u \in Threads : (pc[u] = "lock" => call[u].api \in Locked)'
      BY <1>4, <1>6 DEF Inv, Exclusive
    <2>3. \A u \in Threads : (Active(u) /\ call[u].api \in Locked => lock = u)'
      BY <1>2, <1>4, <1>6 DEF Active
    <2>4. \A u, v \in Threads : (u # v /\ InCall(u) /\ InCall(v) => call[u].api \in Locked)'
      BY <1>4 DEF Inv, Exclusive, InCall
    <2> QED BY <2>1, <2>2, <2>3, <2>4 DEF Exclusive
  <1> QED BY <1>1, <1>2, <1>4, <1>5, <1>7, SetsOut DEF Acquire, device, history

\* A call begins: at the lock, or with no other call under way.
LEMMA InvokeStep ==
    ASSUME Inv, ~UnlockedOverlap, NEW t \in Threads, NEW c \in Calls, Invoke(t, c)
    PROVE  Inv'
  <1>1. pc[t] = "idle" /\ call[t] = NoCall /\ ~Active(t) /\ c # NoCall
    BY CallKinds DEF Invoke, InCall, Inv, Exclusive, Active
  <1>2. \A u \in Threads : InCall(u) => c.api \notin Unlocked /\ call[u].api \notin Unlocked
    BY DEF Invoke, MayBegin
  <1>3. call' = [call EXCEPT ![t] = c] /\ lock' = lock /\ image' = image
    BY DEF Invoke
  <1>4. call'[t] = c /\ \A u \in Threads : u # t => call'[u] = call[u]
    BY <1>3 DEF Inv, Types
  <1>5. calls' \in 0..MaxCalls
    BY TunerBusAssumption DEF Invoke, Inv, Types
  <1>6. failed' \in [Threads -> BOOLEAN] /\ call' \in [Threads -> Calls \cup {NoCall}]
    BY <1>3 DEF Invoke, Inv, Types
  <1>7. \A u, v \in Threads : (u # v /\ InCall(u) /\ InCall(v) => call[u].api \in Locked)'
    <2> SUFFICES ASSUME NEW u \in Threads, NEW v \in Threads, u # v,
                        call'[u] # NoCall, call'[v] # NoCall
                 PROVE  call'[u].api \in Locked
      BY DEF InCall
    <2>1. CASE u = t
      <3>1. InCall(v)
        BY <1>4, <2>1 DEF InCall
      <3>2. c.api \notin Unlocked
        BY <1>2, <3>1
      <3> QED BY <1>4, <2>1, <3>2, CallKinds
    <2>2. CASE u # t
      <3>1. InCall(u) /\ call'[u] = call[u] /\ call[u] \in Calls
        BY <1>4, <2>2 DEF InCall, Inv, Types
      <3>2. call[u].api \notin Unlocked
        BY <1>2, <3>1
      <3> QED BY <3>1, <3>2, CallKinds
    <2> QED BY <2>1, <2>2
  <1>8. CASE c.api \in Locked
    <2>1. pc' = [pc EXCEPT ![t] = "lock"] /\ todo' = todo
      BY <1>8 DEF Invoke
    <2>2. /\ pc'[t] = "lock" /\ \A u \in Threads : u # t => pc'[u] = pc[u]
          /\ pc' \in [Threads -> {"idle", "lock", "run", "xfer", "close"}]
      BY <2>1 DEF Inv, Types
    <2>3. Types'
      BY <1>3, <1>5, <1>6, <2>1, <2>2 DEF Invoke, device, history, Inv, Types
    <2>4. Exclusive'
      <3>1. \A u \in Threads : (pc[u] = "idle" <=> call[u] = NoCall)'
        BY <1>1, <1>4, <2>2 DEF Inv, Exclusive
      <3>2. \A u \in Threads : (pc[u] = "lock" => call[u].api \in Locked)'
        BY <1>4, <1>8, <2>2 DEF Inv, Exclusive
      <3>3. \A u \in Threads : (Active(u) /\ call[u].api \in Locked => lock = u)'
        BY <1>3, <1>4, <2>2 DEF Inv, Exclusive, Active
      <3> QED BY <1>7, <3>1, <3>2, <3>3 DEF Exclusive
    <2>5. ~Active(t)' /\ \A u \in Threads : u # t => (Active(u)' <=> Active(u))
      BY <2>2 DEF Active
    <2>6. \A u \in Threads : (~Active(u) => image[u] = <<>>)'
      BY <1>1, <1>3, <2>5 DEF Inv
    <2>7. ASSUME NEW u \in Threads, Active(u)'
          PROVE  ThreadFits(u)'
      <3>1. u # t /\ Active(u) /\ ThreadFits(u)
        BY <2>5, <2>7 DEF Inv
      <3>2. pc'[u] = pc[u] /\ call'[u] = call[u] /\ failed'[u] = failed[u]
        BY <1>4, <2>2, <3>1 DEF Invoke, Inv, Types
      <3>3. /\ tuner' = tuner /\ demod' = demod /\ chip' = chip /\ shadow' = shadow
            /\ image' = image /\ todo' = todo /\ doubt' = doubt /\ gate_doubt' = gate_doubt
        BY <2>1 DEF Invoke, device, history
      <3>4. TodoFits(u)' /\ ImageFits(u)' /\ PokeFits(u)'
        BY <3>1, <3>2, <3>3 DEF ThreadFits, TodoFits, ImageFits, PokeFits
      <3>5. CloseFits(u)' /\ GateFits(u)' /\ ChipFits(u)'
        BY <3>1, <3>2, <3>3 DEF ThreadFits, CloseFits, GateFits, ChipFits
      <3> QED BY <3>4, <3>5 DEF ThreadFits
    <2>8. Rest'
      BY <1>1, <2>5 DEF Invoke, device, history, Inv, Rest
    <2> QED BY <2>3, <2>4, <2>6, <2>7, <2>8 DEF Inv
  <1>9. CASE c.api \in Unlocked
    <2>1. c.api \notin Locked
      BY <1>9, CallKinds
    <2>2. pc' = [pc EXCEPT ![t] = "run"] /\ todo' = [todo EXCEPT ![t] = Program(c)]
      BY <2>1 DEF Invoke
    <2>3. \A u \in Threads : call[u] = NoCall /\ pc[u] = "idle" /\ ~Active(u)
      BY <1>2, <1>9 DEF InCall, Inv, Exclusive, Active
    <2>4. /\ pc'[t] = "run" /\ \A u \in Threads : u # t => pc'[u] = pc[u]
          /\ pc' \in [Threads -> {"idle", "lock", "run", "xfer", "close"}]
      BY <2>2 DEF Inv, Types
    <2>5. Program(c) \in Seq(Operations)
      BY ProgramFits DEF Inv, Types
    <2>6. Types'
      BY <1>3, <1>5, <1>6, <2>2, <2>4, <2>5 DEF Invoke, device, history, Inv, Types
    <2>7. Exclusive'
      <3>1. \A u \in Threads : (pc[u] = "idle" <=> call[u] = NoCall)'
        BY <1>1, <1>4, <2>4 DEF Inv, Exclusive
      <3>2. \A u \in Threads : (pc[u] = "lock" => call[u].api \in Locked)'
        BY <2>3, <2>4
      <3>3. \A u \in Threads : (Active(u) /\ call[u].api \in Locked => lock = u)'
        BY <1>4, <2>1, <2>3, <2>4 DEF Active
      <3> QED BY <1>7, <3>1, <3>2, <3>3 DEF Exclusive
    <2> QED BY <1>4, <2>2, <2>3, <2>6, <2>7, SetsOut DEF Invoke, device, history
  <1> QED BY <1>8, <1>9, CallKinds

\* A call returns, and leaves all at rest.
LEMMA ReturnStep ==
    ASSUME Inv, NEW t \in Threads, Return(t)
    PROVE  Inv'
  <1>1. Active(t) /\ pc[t] = "run" /\ todo[t] = <<>> /\ ThreadFits(t) /\ call[t] \in Calls
    BY DEF Return, Active, InCall, Inv, Types
  <1>2. /\ pc' = [pc EXCEPT ![t] = "idle"]
        /\ call' = [call EXCEPT ![t] = NoCall]
        /\ image' = [image EXCEPT ![t] = <<>>]
        /\ failed' = [failed EXCEPT ![t] = FALSE]
        /\ lock' = IF lock = t THEN NoThread ELSE lock
    BY DEF Return
  <1>3. /\ pc'[t] = "idle" /\ call'[t] = NoCall /\ image'[t] = <<>>
        /\ \A u \in Threads : u # t => pc'[u] = pc[u] /\ call'[u] = call[u] /\ image'[u] = image[u]
        /\ pc' \in [Threads -> {"idle", "lock", "run", "xfer", "close"}]
        /\ call' \in [Threads -> Calls \cup {NoCall}]
        /\ failed' \in [Threads -> BOOLEAN]
        /\ DOMAIN image' = Threads
        /\ lock' \in Threads \cup {NoThread}
    BY <1>2 DEF Inv, Types
  <1>4. \A u \in Threads : ~Active(u)'
    BY <1>1, <1>3, Alone DEF Active
  <1>5. record' \in Tuning
    <2>1. /\ call[t].api = "set_frequency" => call[t].arg \in Freqs
          /\ call[t].api = "set_gain" => call[t].arg \in Gains
      BY <1>1 DEF Calls, Unlocked
    <2>2. record \in Tuning
      BY DEF Inv, Types
    <2>3. Recorded(call[t]) \in Tuning
      BY <2>1, <2>2 DEF Recorded, Tuning
    <2> QED BY <2>2, <2>3 DEF Return
  <1>6. sure' \subseteq {"freq", "rate", "nco", "gain"}
    <2>1. Concerns(call[t]) \subseteq {"freq", "rate", "nco", "gain"}
      BY <1>1 DEF Concerns, Calls, Unlocked
    <2>2. Settles(call[t]) \subseteq {"freq", "rate", "nco", "gain"}
      BY <2>1 DEF Settles
    <2> QED BY <2>2 DEF Return, Inv, Types
  <1>7. Types'
    BY <1>3, <1>5, <1>6 DEF Return, device, Inv, Types
  <1>8. Exclusive'
    <2>1. \A u \in Threads : (pc[u] = "idle" <=> call[u] = NoCall)'
      BY <1>3 DEF Inv, Exclusive
    <2>2. \A u \in Threads : (pc[u] = "lock" => call[u].api \in Locked)'
      BY <1>3 DEF Inv, Exclusive
    <2>3. \A u \in Threads : (Active(u) /\ call[u].api \in Locked => lock = u)'
      BY <1>4
    <2>4. \A u, v \in Threads : (u # v /\ InCall(u) /\ InCall(v) => call[u].api \in Locked)'
      BY <1>3 DEF Inv, Exclusive, InCall
    <2> QED BY <2>1, <2>2, <2>3, <2>4 DEF Exclusive
  <1>9. \A u \in Threads : (~Active(u) => image[u] = <<>>)'
    BY <1>1, <1>3, Alone DEF Inv
  <1>10. \A u \in Threads : (Active(u) => ThreadFits(u))'
    BY <1>4
  <1>11. Rest'
    <2> SUFFICES ASSUME tuner = "R820T"
                 PROVE  /\ \A r \in Registers : chip[r] = shadow[r] \/ r \in doubt
                        /\ ~gate_doubt => ~demod.gate
      BY DEF Return, device, Rest
    <2>1. \A r \in Registers : chip[r] = shadow[r] \/ r \in doubt
      BY <1>1 DEF ThreadFits, ChipFits
    <2>2. ~gate_doubt => ~demod.gate
      BY <1>1 DEF ThreadFits, GateFits
    <2> QED BY <2>1, <2>2
  <1> QED BY <1>7, <1>8, <1>9, <1>10, <1>11 DEF Inv

-----------------------------------------------------------------------------
(* The theorems.                                                           *)

\* A device comes from its probe with nothing done to its tuner.
LEMMA InitFits ==
    ASSUME Init
    PROVE  Inv
  <1>1. tuner \in {"R820T", "FC0012"}
    BY TunerBusAssumption DEF Init
  <1>2. Types
    <2>1. demod \in Demodulator
      BY SmallArguments DEF Init, Demodulator
    <2>2. record \in Tuning
      BY SmallArguments DEF Init, Tuning
    <2>3. RegisterFile(chip) /\ RegisterFile(shadow)
      BY BlankFile DEF Init
    <2>4. todo \in [Threads -> Seq(Operations)]
      BY EmptySeq DEF Init
    <2>5. calls \in 0..MaxCalls /\ errors \in 0..MaxErrors
      BY TunerBusAssumption DEF Init
    <2> QED BY <2>1, <2>2, <2>3, <2>4, <2>5 DEF Init, Types
  <1>3. \A t \in Threads : pc[t] = "idle" /\ call[t] = NoCall /\ ~Active(t) /\ ~InCall(t) /\ image[t] = <<>>
    BY DEF Init, Active, InCall
  <1>4. Exclusive
    BY <1>3 DEF Exclusive
  <1>5. Rest
    BY DEF Init, Rest
  <1> QED BY <1>2, <1>3, <1>4, <1>5 DEF Inv

\* Every step keeps the invariant.
LEMMA NextFits ==
    ASSUME Inv, ~UnlockedOverlap, [Next]_vars
    PROVE  Inv'
  <1>1. ASSUME NEW t \in Threads, Step(t)
        PROVE  Inv'
    <2>1. CASE Acquire(t)
      BY <2>1, AcquireStep
    <2>2. CASE Return(t)
      BY <2>2, ReturnStep
    <2>3. CASE SkipNco(t)
      BY <2>3, SkipNcoStep
    <2>4. CASE SkipWire(t)
      BY <2>4, SkipWireStep
    <2>5. ASSUME NEW outcome \in Outcomes,
                 \/ SwitchGate(t, outcome) \/ ResetDdc(t, outcome) \/ Peek(t, outcome)
                 \/ Poke(t, outcome) \/ OpenGate(t, outcome) \/ ScopedTransfer(t, outcome)
                 \/ CloseGate(t, outcome)
                 \/ \E locked \in BOOLEAN : CloseAfterProbe(t, outcome, locked)
                 \/ WireTransfer(t, outcome) \/ SessionTransfer(t, outcome)
          PROVE  Inv'
      <3>1. CASE SwitchGate(t, outcome)
        BY <3>1, SwitchGateStep
      <3>2. CASE ResetDdc(t, outcome)
        BY <3>2, ResetDdcStep
      <3>3. CASE Peek(t, outcome)
        BY <3>3, PeekStep
      <3>4. CASE Poke(t, outcome)
        BY <3>4, PokeStep
      <3>5. CASE OpenGate(t, outcome)
        BY <3>5, OpenGateStep
      <3>6. CASE ScopedTransfer(t, outcome)
        BY <3>6, ScopedTransferStep
      <3>7. CASE CloseGate(t, outcome)
        BY <3>7, CloseGateStep
      <3>8. CASE \E locked \in BOOLEAN : CloseAfterProbe(t, outcome, locked)
        BY <3>8, CloseAfterProbeStep
      <3>9. CASE WireTransfer(t, outcome)
        BY <3>9, WireTransferStep
      <3>10. CASE SessionTransfer(t, outcome)
        BY <3>10, SessionTransferStep
      <3> QED BY <2>5, <3>1, <3>2, <3>3, <3>4, <3>5, <3>6, <3>7, <3>8, <3>9, <3>10
    <2>6. ASSUME NEW outcome \in Outcomes \cup {"torn"}, SetRatio(t, outcome) \/ SetNco(t, outcome)
          PROVE  Inv'
      BY <2>6, SetRatioStep, SetNcoStep
    <2> QED BY <1>1, <2>1, <2>2, <2>3, <2>4, <2>5, <2>6 DEF Step
  <1>2. ASSUME NEW t \in Threads, NEW c \in Calls, Invoke(t, c)
        PROVE  Inv'
    BY <1>2, InvokeStep
  <1>3. CASE UNCHANGED vars
    <2>1. /\ UNCHANGED <<tuner, demod, chip, shadow, record, lock, call, todo, pc, image, failed>>
          /\ UNCHANGED <<calls, errors, sure, doubt, gate_doubt>>
      BY <1>3 DEF vars, device, thread, history
    <2>2. Types' /\ Exclusive' /\ Rest'
      BY <2>1 DEF Inv, Types, Exclusive, InCall, Active, Rest
    <2>3. \A t \in Threads : (~Active(t) => image[t] = <<>>)'
      BY <2>1 DEF Inv, Active
    <2>4. ASSUME NEW t \in Threads, Active(t)'
          PROVE  ThreadFits(t)'
      <3>1. ThreadFits(t)
        BY <2>1, <2>4 DEF Inv, Active
      <3>2. TodoFits(t)' /\ ImageFits(t)' /\ PokeFits(t)'
        BY <2>1, <3>1 DEF ThreadFits, TodoFits, ImageFits, PokeFits
      <3>3. CloseFits(t)' /\ GateFits(t)' /\ ChipFits(t)'
        BY <2>1, <3>1 DEF ThreadFits, CloseFits, GateFits, ChipFits
      <3> QED BY <3>2, <3>3 DEF ThreadFits
    <2> QED BY <2>2, <2>3, <2>4 DEF Inv
  <1> QED BY <1>1, <1>2, <1>3 DEF Next

\* What the invariant says of the shadow file.
LEMMA InvShadow ==
    ASSUME Inv
    PROVE  ShadowIsChip
  <1>1. TypeOK
    BY DEF Inv, Types, TypeOK, RegisterFile, Byte, Small, Demodulator, Tuning
  <1>2. ASSUME tuner = "R820T", NEW r \in Registers
        PROVE  \/ chip[r] = shadow[r]
               \/ r \in doubt
               \/ \E t \in Threads : pc[t] = "close" /\ Head(todo[t]).reg = r
    <2>1. CASE \A t \in Threads : ~Active(t)
      BY <1>2, <2>1 DEF Inv, Rest
    <2>2. ASSUME NEW t \in Threads, Active(t)
          PROVE  \/ chip[r] = shadow[r] \/ r \in doubt
                 \/ pc[t] = "close" /\ Head(todo[t]).reg = r
      BY <1>2, <2>2 DEF Inv, ThreadFits, ChipFits
    <2> QED BY <2>1, <2>2
  <1> QED BY <1>1, <1>2 DEF ShadowIsChip

\* What it says of the gate.
LEMMA InvGate ==
    ASSUME Inv
    PROVE  GateServesI2c
  <1> SUFFICES ASSUME ~gate_doubt
               PROVE  /\ \A t \in Threads : pc[t] = "xfer" => demod.gate
                      /\ (tuner = "R820T" /\ AtRest) => ~demod.gate
    BY DEF GateServesI2c
  <1>1. \A t \in Threads : pc[t] = "xfer" => demod.gate
    BY DEF Inv, Active, ThreadFits, GateFits
  <1>2. AtRest => \A t \in Threads : ~Active(t)
    BY DEF AtRest, InCall, Inv, Exclusive, Active
  <1>3. (tuner = "R820T" /\ AtRest) => ~demod.gate
    BY <1>2 DEF Inv, Rest
  <1> QED BY <1>1, <1>3

\* Where the application lets no call that takes no lock run beside another, every
\* variable has its type, and the shadow file of the R820T is what its registers hold,
\* but for one whose last write failed or is not acknowledged yet.
THEOREM ShadowFollowsChip ==
    ASSUME ~UnlockedOverlap
    PROVE  Spec => []ShadowIsChip
  <1>1. Init => Inv
    BY InitFits
  <1>2. Inv /\ [Next]_vars => Inv'
    BY NextFits
  <1>3. Inv => ShadowIsChip
    BY InvShadow
  <1> QED BY <1>1, <1>2, <1>3, PTL DEF Spec

\* And no I2C transfer meets a closed gate, nor is the R820T's left open, unless a write
\* of the gate failed.
THEOREM GateAlwaysServes ==
    ASSUME ~UnlockedOverlap
    PROVE  Spec => []GateServesI2c
  <1>1. Init => Inv
    BY InitFits
  <1>2. Inv /\ [Next]_vars => Inv'
    BY NextFits
  <1>3. Inv => GateServesI2c
    BY InvGate
  <1> QED BY <1>1, <1>2, <1>3, PTL DEF Spec

-----------------------------------------------------------------------------
(* What a finished call owes: the fields of the tuner, and the demodulator. *)

\* Concerns of TunerBus, of a tuner and a call
Touches(tun, c) ==
    CASE c.api = "set_frequency" -> {"freq"}
      [] c.api = "set_sample_rate" ->
           {"rate", "nco"} \cup IF tun = "R820T" /\ WideIf[c.arg] # 0 THEN {"freq"} ELSE {}
      [] c.api \in {"set_gain", "write_batch"} -> {"gain"}
      [] c.api = "reset_demod" -> {"nco"}
      [] c.api = "reset_tuner" -> IF tun = "R820T" THEN {} ELSE {"freq", "gain"}

\* A value a field of a tuner register is to hold
Points == {p \in [reg : Registers, field : FieldNames, value : Small] : p.field \in Layout[p.reg]}
Point(reg, field, value) == [reg |-> reg, field |-> field, value |-> value]

\* A gain set, and a frequency for an IF
GainPoints(tun, gain) ==
    IF tun = "R820T"
    THEN {Point("LNA_BIAS", "gain", gain), Point("IF_STAGE", "gain", gain)}
         \cup IF gain = GainAuto THEN {} ELSE {Point("MIXER_DRIVE", "gain", gain)}
    ELSE IF gain = GainAuto THEN {Point("LNA_OVERRIDE", "manual", 0)}
         ELSE {Point("LNA_OVERRIDE", "manual", 1), Point("LNA_GAIN", "gain", gain)}
FreqPoints(freq, if) == {Point("PLL_WORD", "freq", freq), Point("PLL_WORD", "if", if)}

\* What stands of the records, but for what a call under way concerns
Standing(tun, rec, facets) ==
    (IF "gain" \in facets THEN GainPoints(tun, rec.gain) ELSE {})
    \cup (IF "freq" \in facets THEN FreqPoints(rec.center, rec.if_offset) ELSE {})

\* What a call has done when it succeeds
Promised(tun, c, rec) ==
    CASE c.api = "set_gain" -> GainPoints(tun, c.arg)
      [] c.api = "set_frequency" -> FreqPoints(c.arg, rec.if_offset)
      [] OTHER -> {}

Due(tun, c, rec, facets) == Standing(tun, rec, facets \ Touches(tun, c)) \cup Promised(tun, c, rec)

AwaitsRatio(ops) == \E i \in 1..Len(ops) : ops[i].op = "ratio"

\* Is this operation at odds with what is due, or does it bring it about?
Spares(o, p) ==
    /\ (o.op \in {"rmw", "wire_write"} /\ o.reg = p.reg /\ p.field \in DOMAIN o.fields) =>
         o.fields[p.field] = p.value
    /\ ~(o.op = "session_write" /\ o.reg = p.reg)
Gives(o, p) ==
    /\ o.op \in {"rmw", "wire_write"} /\ o.reg = p.reg
    /\ p.field \in DOMAIN o.fields /\ o.fields[p.field] = p.value
    /\ o.op = "wire_write" => ~o.soft
Awaited(p, ops) == \E i \in 1..Len(ops) : Gives(ops[i], p)

\* The operations a call may be made of: they spare what is due, the FC0012's give all
\* fields, and those on the demodulator are the call's.
Apt(tun, c, rec, facets) ==
    {o \in Operations :
        /\ \A p \in Due(tun, c, rec, facets) : Spares(o, p)
        /\ o.op = "wire_write" => DOMAIN o.fields = Layout[o.reg]
        /\ o.op = "ratio" => o.value = c.arg
        /\ o.op = "nco" => "freq" \in Touches(tun, c) /\ tun = "R820T"}

\* The end of set_sample_rate: the DDC reset set and released, and the NCO again
Trailing(ops) ==
    \A i \in 1..Len(ops) :
        /\ ops[i].op = "nco_again" <=> i = Len(ops)
        /\ (ops[i].op = "ddc" /\ ops[i].value) <=> i = Len(ops) - 2
        /\ ops[i].op = "nco" => i < Len(ops) - 2

\* Every write but a first one follows a read.
AfterReads(ops) ==
    \A i \in 1..(Len(ops) - 1) : ops[i + 1].op = "wire_write" => ops[i].op = "wire_read"

\* The chip holds the value, and so does the shadow file of a tuner that has one.
Agreed(p) ==
    /\ chip[p.reg][p.field] = p.value
    /\ tuner = "R820T" => shadow[p.reg][p.field] = p.value

\* What stands while a call concerns these facets
FieldsStand(open) == \A p \in Standing(tuner, record, sure \ open) : Agreed(p)
DemodStands(open) ==
    /\ "rate" \in sure \ open => demod.ratio = record.rate
    /\ "nco" \in sure \ open => demod.nco = record.if_offset

\* What is left of a call spares what is due and brings about what it promises.
Keeps(t) ==
    /\ todo[t] \in Seq(Apt(tuner, call[t], record, sure))
    /\ ~failed[t] => \A p \in Promised(tuner, call[t], record) : Agreed(p) \/ Awaited(p, todo[t])

\* An error ends a call, but for the gate it closes.
GivesUp(t) ==
    (failed[t] /\ ~HoldsGate(tuner, call[t])) => pc[t] = "close" \/ todo[t] = <<>>

\* The byte on its way gives the fields of the operation, the others as the shadow file.
Carries(t) ==
    (pc[t] \in {"xfer", "close"} /\ Head(todo[t]).op \in {"rmw", "wire_write"}) =>
        \A f \in Layout[Head(todo[t]).reg] :
            image[t][f] = IF f \in DOMAIN Head(todo[t]).fields THEN Head(todo[t]).fields[f]
                          ELSE shadow[Head(todo[t]).reg][f]

\* set_gain of the FC0012 writes what it has just read.
ReadsFirst(t) ==
    (tuner = "FC0012" /\ call[t].api = "set_gain") =>
        /\ AfterReads(todo[t])
        /\ (pc[t] = "run" /\ todo[t] # <<>> /\ Head(todo[t]).op = "wire_write") =>
             image[t] = chip[Head(todo[t]).reg]

\* set_sample_rate leaves the demodulator as recorded.
Retunes(t) ==
    call[t].api = "set_sample_rate" =>
        /\ record.rate = call[t].arg
        /\ Trailing(todo[t])
        /\ ~failed[t] =>
             /\ demod.ratio = call[t].arg \/ AwaitsRatio(todo[t])
             /\ Len(todo[t]) \in 1..2 => demod.nco = 0
             /\ todo[t] = <<>> => demod.nco = record.if_offset

Works(t) ==
    /\ FieldsStand(Touches(tuner, call[t])) /\ DemodStands(Touches(tuner, call[t]))
    /\ Keeps(t) /\ GivesUp(t) /\ Carries(t) /\ ReadsFirst(t) /\ Retunes(t)

Lasting ==
    /\ tuner = "FC0012" => record.if_offset = 0
    /\ (\A t \in Threads : ~Active(t)) => FieldsStand({}) /\ DemodStands({})
    /\ \A t \in Threads : Active(t) => Works(t)
-----------------------------------------------------------------------------
(* What is due, and operations that spare it.                              *)

\* The functions a call can be for.
LEMMA CallApis ==
    ASSUME NEW c \in Calls
    PROVE  /\ c.api \in {"set_frequency", "set_sample_rate", "set_gain",
                         "reset_demod", "reset_tuner", "write_batch"}
           /\ c.api = "set_frequency" => c.arg \in Small
           /\ c.api = "set_sample_rate" => c.arg \in Rates /\ c.arg \in Small /\ WideIf[c.arg] \in Small
           /\ c.api = "set_gain" => c.arg \in Small
  BY SmallArguments DEF Calls, Unlocked

\* Touches is what TunerBus has a call concern.
LEMMA TouchesConcerns ==
    ASSUME tuner \in {"R820T", "FC0012"}, NEW c \in Calls
    PROVE  Concerns(c) = Touches(tuner, c)
  <1>1. CASE c.api = "set_sample_rate"
    <2> DEFINE filter == Rmw("FILT_BIAS", [band |-> c.arg])
               nco == Set("nco", WideIf[c.arg])
    <2>1. Bandwidth(c.arg) = IF tuner = "R820T" /\ WideIf[c.arg] # 0 THEN << filter >> \o << nco >> ELSE <<>>
      BY DEF Bandwidth, IfProgram
    <2> HIDE DEF filter, nco
    <2>2. << filter >> \o << nco >> # <<>>
      OBVIOUS
    <2>3. Bandwidth(c.arg) = <<>> <=> ~(tuner = "R820T" /\ WideIf[c.arg] # 0)
      BY <2>1, <2>2
    <2>4. Concerns(c) = {"rate", "nco"} \cup IF Bandwidth(c.arg) = <<>> THEN {} ELSE {"freq"}
      BY <1>1 DEF Concerns
    <2>5. Touches(tuner, c) =
            {"rate", "nco"} \cup IF tuner = "R820T" /\ WideIf[c.arg] # 0 THEN {"freq"} ELSE {}
      BY <1>1 DEF Touches
    <2> QED BY <2>3, <2>4, <2>5
  <1>2. CASE c.api # "set_sample_rate"
    BY <1>2, CallApis DEF Concerns, Touches
  <1> QED BY <1>1, <1>2

\* The registers and fields of a gain and of a frequency.
LEMMA PointNames ==
    ASSUME NEW tun, NEW a \in Small, NEW b \in Small
    PROVE  /\ GainPoints(tun, a) \subseteq Points
           /\ \A p \in GainPoints(tun, a) :
                /\ p.reg \in {"LNA_BIAS", "IF_STAGE", "MIXER_DRIVE", "LNA_OVERRIDE", "LNA_GAIN"}
                /\ p.field \in {"gain", "manual"}
           /\ FreqPoints(a, b) \subseteq Points
           /\ \A p \in FreqPoints(a, b) : p.reg = "PLL_WORD" /\ p.field \in {"freq", "if"}
  <1>1. ASSUME NEW r \in Registers, NEW f \in FieldNames, f \in Layout[r], NEW v \in Small
        PROVE  /\ Point(r, f, v) \in Points
               /\ Point(r, f, v).reg = r /\ Point(r, f, v).field = f /\ Point(r, f, v).value = v
    BY <1>1 DEF Points, Point
  <1>2. 0 \in Small /\ 1 \in Small
    BY SmallArguments
  <1>3. /\ "gain" \in Layout["LNA_BIAS"] /\ "gain" \in Layout["IF_STAGE"]
        /\ "gain" \in Layout["MIXER_DRIVE"] /\ "gain" \in Layout["LNA_GAIN"]
        /\ "manual" \in Layout["LNA_OVERRIDE"]
        /\ "freq" \in Layout["PLL_WORD"] /\ "if" \in Layout["PLL_WORD"]
        /\ {"gain", "manual", "freq", "if"} \subseteq FieldNames
    BY DEF Layout, FieldNames
  <1>4. \A v \in Small :
          /\ Point("LNA_BIAS", "gain", v) \in Points /\ Point("IF_STAGE", "gain", v) \in Points
          /\ Point("MIXER_DRIVE", "gain", v) \in Points /\ Point("LNA_GAIN", "gain", v) \in Points
          /\ Point("LNA_OVERRIDE", "manual", v) \in Points
          /\ Point("PLL_WORD", "freq", v) \in Points /\ Point("PLL_WORD", "if", v) \in Points
    BY <1>1, <1>3, RegisterNames
  <1>5. GainPoints(tun, a) \subseteq Points /\ FreqPoints(a, b) \subseteq Points
    BY <1>2, <1>4 DEF GainPoints, FreqPoints
  <1>6. ASSUME NEW p \in GainPoints(tun, a)
        PROVE  /\ p.reg \in {"LNA_BIAS", "IF_STAGE", "MIXER_DRIVE", "LNA_OVERRIDE", "LNA_GAIN"}
               /\ p.field \in {"gain", "manual"}
    BY DEF GainPoints, Point
  <1>7. ASSUME NEW p \in FreqPoints(a, b)
        PROVE  p.reg = "PLL_WORD" /\ p.field \in {"freq", "if"}
    BY DEF FreqPoints, Point
  <1> QED BY <1>5, <1>6, <1>7

\* The gains there are are small.
LEMMA RecordSmall ==
    ASSUME NEW rec \in Tuning
    PROVE  rec.gain \in Small /\ rec.center \in Small /\ rec.if_offset \in Small
  BY SmallArguments DEF Tuning

\* What is due is a set of points, by facet.
LEMMA DuePoints ==
    ASSUME NEW tun, NEW c \in Calls, NEW rec \in Tuning, NEW facets,
           NEW p \in Due(tun, c, rec, facets)
    PROVE  /\ p \in Points
           /\ p.reg \in {"PLL_WORD", "LNA_BIAS", "IF_STAGE", "MIXER_DRIVE", "LNA_OVERRIDE", "LNA_GAIN"}
           /\ \/ "gain" \in facets \ Touches(tun, c) /\ p \in GainPoints(tun, rec.gain)
              \/ "freq" \in facets \ Touches(tun, c) /\ p \in FreqPoints(rec.center, rec.if_offset)
              \/ c.api = "set_gain" /\ p \in GainPoints(tun, c.arg)
              \/ c.api = "set_frequency" /\ p \in FreqPoints(c.arg, rec.if_offset)
  <1>1. \/ "gain" \in facets \ Touches(tun, c) /\ p \in GainPoints(tun, rec.gain)
        \/ "freq" \in facets \ Touches(tun, c) /\ p \in FreqPoints(rec.center, rec.if_offset)
        \/ c.api = "set_gain" /\ p \in GainPoints(tun, c.arg)
        \/ c.api = "set_frequency" /\ p \in FreqPoints(c.arg, rec.if_offset)
    BY CallApis DEF Due, Standing, Promised
  <1>2. /\ rec.gain \in Small /\ rec.center \in Small /\ rec.if_offset \in Small
        /\ c.api \in {"set_gain", "set_frequency"} => c.arg \in Small
    BY RecordSmall, CallApis
  <1>3. CASE "gain" \in facets \ Touches(tun, c) /\ p \in GainPoints(tun, rec.gain)
    BY <1>1, <1>2, <1>3, PointNames
  <1>4. CASE "freq" \in facets \ Touches(tun, c) /\ p \in FreqPoints(rec.center, rec.if_offset)
    BY <1>1, <1>2, <1>4, PointNames
  <1>5. CASE c.api = "set_gain" /\ p \in GainPoints(tun, c.arg)
    BY <1>1, <1>2, <1>5, PointNames
  <1>6. CASE c.api = "set_frequency" /\ p \in FreqPoints(c.arg, rec.if_offset)
    BY <1>1, <1>2, <1>6, PointNames
  <1> QED BY <1>1, <1>3, <1>4, <1>5, <1>6

\* Operations that write no register of a tuner, or one with no field due, are apt.
LEMMA AptOperations ==
    ASSUME NEW tun, NEW c \in Calls, NEW rec \in Tuning, NEW facets, NEW o \in Operations
    PROVE  /\ o.op \notin {"rmw", "wire_write", "session_write", "ratio", "nco"} =>
                o \in Apt(tun, c, rec, facets)
           /\ (o.op = "rmw" /\ \A p \in Due(tun, c, rec, facets) :
                 o.reg = p.reg /\ p.field \in DOMAIN o.fields => o.fields[p.field] = p.value) =>
                o \in Apt(tun, c, rec, facets)
           /\ (o.op = "wire_write" /\ DOMAIN o.fields = Layout[o.reg]
               /\ \A p \in Due(tun, c, rec, facets) :
                    o.reg = p.reg => o.fields[p.field] = p.value) =>
                o \in Apt(tun, c, rec, facets)
           /\ (o.op = "session_write" /\ \A p \in Due(tun, c, rec, facets) : o.reg # p.reg) =>
                o \in Apt(tun, c, rec, facets)
           /\ (o.op = "ratio" /\ o.value = c.arg) => o \in Apt(tun, c, rec, facets)
           /\ (o.op = "nco" /\ "freq" \in Touches(tun, c) /\ tun = "R820T") =>
                o \in Apt(tun, c, rec, facets)
  BY DEF Apt, Spares

\* The next operation, and what is left after it.
LEMMA AptTail ==
    ASSUME NEW tun, NEW c, NEW rec, NEW facets, NEW ops \in Seq(Operations),
           ops \in Seq(Apt(tun, c, rec, facets)), ops # <<>>
    PROVE  /\ Head(ops) \in Apt(tun, c, rec, facets)
           /\ Tail(ops) \in Seq(Apt(tun, c, rec, facets))
           /\ \A p : Awaited(p, ops) => Gives(Head(ops), p) \/ Awaited(p, Tail(ops))
  <1> DEFINE S == Apt(tun, c, rec, facets)
             rest == Tail(ops)
  <1> HIDE DEF S
  <1>0. ops \in Seq(S)
    BY DEF S
  <1>1. /\ Head(ops) \in S
        /\ rest \in Seq(S)
        /\ Len(ops) \in Nat \ {0}
        /\ Len(rest) = Len(ops) - 1
        /\ \A i \in 1..Len(rest) : rest[i] = ops[i + 1]
        /\ Head(ops) = ops[1]
    BY <1>0, HeadTailProperties, EmptySeq
  <1>2. ASSUME NEW p, Awaited(p, ops), ~Gives(Head(ops), p)
        PROVE  Awaited(p, rest)
    <2>1. PICK i \in 1..Len(ops) : Gives(ops[i], p)
      BY <1>2 DEF Awaited
    <2>2. i # 1
      BY <1>1, <1>2, <2>1
    <2>3. i - 1 \in 1..Len(rest) /\ rest[i - 1] = ops[i]
      BY <1>1, <2>1, <2>2
    <2> QED BY <2>1, <2>3 DEF Awaited
  <1> HIDE DEF rest
  <1>3. \A p : Awaited(p, ops) => Gives(Head(ops), p) \/ Awaited(p, rest)
    BY <1>2
  <1> QED BY <1>1, <1>3 DEF S, rest

\* What an error leaves is apt for any call.
LEMMA AptCleanup ==
    ASSUME NEW tun, NEW c \in Calls, NEW rec \in Tuning, NEW facets, NEW t
    PROVE  Cleanup(t) \in Seq(Apt(tun, c, rec, facets))
  <1> DEFINE last == Set("gate", FALSE)
             S == Apt(tun, c, rec, facets)
  <1>1. last \in Operations /\ last.op = "gate"
    BY DemodOperations
  <1>2. last \in S
    BY <1>1, AptOperations
  <1>3. Cleanup(t) = << last >> \/ Cleanup(t) = <<>>
    BY DEF Cleanup
  <1> HIDE DEF last, S
  <1>4. << last >> \in Seq(S) /\ <<>> \in Seq(S)
    BY <1>2, EmptySeq
  <1> QED BY <1>3, <1>4 DEF S

-----------------------------------------------------------------------------
(* The programs are apt, and await what their calls promise.               *)

\* set_frequency
LEMMA FrequencyApt ==
    ASSUME NEW tun \in {"R820T", "FC0012"}, NEW c \in Calls, c.api = "set_frequency",
           NEW rec \in Tuning, NEW facets, tun = "FC0012" => rec.if_offset = 0
    PROVE  LET program == IF tun = "R820T" THEN R820tTune(c.arg, rec.if_offset) ELSE Fc0012Tune(c.arg)
           IN  /\ program \in Seq(Apt(tun, c, rec, facets))
               /\ \A p \in Promised(tun, c, rec) : Awaited(p, program)
  <1> DEFINE S == Apt(tun, c, rec, facets)
             if == rec.if_offset
             freq == c.arg
  <1>1. freq \in Small /\ if \in Small /\ 0 \in Small /\ 1 \in Small
    BY CallApis, RecordSmall, SmallArguments
  <1>2. Promised(tun, c, rec) = FreqPoints(freq, if)
    BY DEF Promised
  <1>3. ASSUME NEW p \in Due(tun, c, rec, facets)
        PROVE  /\ p.reg = "PLL_WORD" => p \in FreqPoints(freq, if)
               /\ p.reg = "LNA_BIAS" => p.field \in {"gain", "manual"}
               /\ p.reg \in {"PLL_WORD", "LNA_BIAS", "IF_STAGE", "MIXER_DRIVE", "LNA_OVERRIDE", "LNA_GAIN"}
    <2>1. "freq" \in Touches(tun, c)
      BY DEF Touches
    <2>2. p \in GainPoints(tun, rec.gain) \/ p \in FreqPoints(freq, if)
      BY <2>1, DuePoints
    <2> QED BY <1>1, <2>2, RecordSmall, PointNames
  <1>4. ASSUME NEW o \in Operations, o.op \in {"rmw", "wire_write"}, o.reg = "PLL_WORD",
               o.fields = [freq |-> freq, if |-> if], o.op = "wire_write" => ~o.soft
        PROVE  /\ o \in S
               /\ \A p \in FreqPoints(freq, if) : Gives(o, p)
    <2>1. ASSUME NEW p \in FreqPoints(freq, if)
          PROVE  p.reg = "PLL_WORD" /\ p.field \in DOMAIN o.fields /\ o.fields[p.field] = p.value
      BY <1>4 DEF FreqPoints, Point
    <2>2. DOMAIN o.fields = Layout[o.reg]
      BY <1>4 DEF Layout
    <2>3. o \in S
      BY <1>3, <1>4, <2>1, <2>2, AptOperations
    <2> QED BY <1>4, <2>1, <2>3 DEF Gives
  <1>5. CASE tun = "R820T"
    <2> DEFINE op1 == Rmw("MUX_ROUTING", [path |-> freq])
               op2 == Rmw("MUX_ROUTING", [step |-> 0])
               op3 == Rmw("VCO_DRIVE", [current |-> 0])
               op4 == Rmw("PLL_WORD", [freq |-> freq, if |-> if])
               op5 == Probe(FALSE)
               op6 == Rmw("MUX_ROUTING", [step |-> 1])
               op7 == Rmw("FILT_BIAS", [current |-> 1])
               op8 == Rmw("LNA_BIAS", [headroom |-> 1])
               these == << op1, op2, op3, op4, op5, op6, op7, op8 >>
    <2>1. /\ [path |-> freq] \in Fields /\ [step |-> 0] \in Fields /\ [current |-> 0] \in Fields
          /\ [freq |-> freq, if |-> if] \in Fields /\ [step |-> 1] \in Fields
          /\ [current |-> 1] \in Fields /\ [headroom |-> 1] \in Fields
      BY <1>1, OneField, OtherFields
    <2>2. /\ op1 \in Operations /\ op2 \in Operations /\ op3 \in Operations /\ op4 \in Operations
          /\ op6 \in Operations /\ op7 \in Operations /\ op8 \in Operations
      BY <2>1, TunerOperations, RegisterNames
    <2>3. ASSUME NEW r \in {"MUX_ROUTING", "VCO_DRIVE", "FILT_BIAS"}, NEW fields \in Fields,
                 Rmw(r, fields) \in Operations
          PROVE  Rmw(r, fields) \in S
      <3>1. Rmw(r, fields).op = "rmw" /\ Rmw(r, fields).reg = r
        BY DEF Rmw
      <3>2. \A p \in Due(tun, c, rec, facets) : r # p.reg
        BY <1>3
      <3> QED BY <2>3, <3>1, <3>2, AptOperations
    <2>4. op1 \in S /\ op2 \in S /\ op3 \in S /\ op6 \in S /\ op7 \in S
      BY <2>1, <2>2, <2>3
    <2>5. op4 \in S /\ \A p \in FreqPoints(freq, if) : Gives(op4, p)
      <3>1. op4.op = "rmw" /\ op4.reg = "PLL_WORD" /\ op4.fields = [freq |-> freq, if |-> if]
        BY DEF Rmw
      <3> QED BY <1>4, <2>2, <3>1
    <2>6. op5 \in S
      <3>1. op5 \in Operations /\ op5.op = "probe"
        BY DEF Probe, Operations
      <3> QED BY <3>1, AptOperations
    <2>7. op8 \in S
      <3>1. op8.op = "rmw" /\ op8.reg = "LNA_BIAS" /\ DOMAIN op8.fields = {"headroom"}
        BY DEF Rmw
      <3>2. \A p \in Due(tun, c, rec, facets) : p.reg = "LNA_BIAS" => p.field \notin {"headroom"}
        BY <1>3
      <3> QED BY <2>2, <3>1, <3>2, AptOperations
    <2>8. R820tTune(freq, if) = these
      BY DEF R820tTune
    <2> HIDE DEF op1, op2, op3, op4, op5, op6, op7, op8, S
    <2>9. these \in Seq(S) /\ Len(these) = 8 /\ these[4] = op4
      BY <2>4, <2>5, <2>6, <2>7
    <2>10. \A p \in FreqPoints(freq, if) : Awaited(p, these)
      BY <2>5, <2>9 DEF Awaited
    <2> QED BY <1>2, <1>5, <2>8, <2>9, <2>10 DEF S
  <1>6. CASE tun = "FC0012"
    <2> DEFINE write == WireWrite("PLL_WORD", [freq |-> freq, if |-> 0])
    <2>1. /\ write \in Operations /\ write.op = "wire_write" /\ write.reg = "PLL_WORD"
          /\ write.fields = [freq |-> freq, if |-> if] /\ ~write.soft
      <3>1. [freq |-> freq, if |-> 0] \in Fields /\ if = 0
        BY <1>1, <1>6, OtherFields
      <3> QED BY <3>1, TunerOperations, RegisterNames DEF WireWrite
    <2>2. write \in S /\ \A p \in FreqPoints(freq, if) : Gives(write, p)
      BY <1>4, <2>1
    <2>3. Fc0012Tune(freq) = << write >>
      BY DEF Fc0012Tune
    <2> HIDE DEF write, S
    <2>4. << write >> \in Seq(S) /\ Len(<< write >>) = 1 /\ << write >>[1] = write
      BY <2>2
    <2>5. \A p \in FreqPoints(freq, if) : Awaited(p, << write >>)
      BY <2>2, <2>4 DEF Awaited
    <2> QED BY <1>2, <1>6, <2>3, <2>4, <2>5 DEF S
  <1> QED BY <1>5, <1>6

\* set_gain; the FC0012 reads each register before it writes it.
LEMMA GainApt ==
    ASSUME NEW tun \in {"R820T", "FC0012"}, NEW c \in Calls, c.api = "set_gain",
           NEW rec \in Tuning, NEW facets
    PROVE  LET program == IF tun = "R820T" THEN R820tGain(c.arg) ELSE Fc0012Gain(c.arg)
           IN  /\ program \in Seq(Apt(tun, c, rec, facets))
               /\ \A p \in Promised(tun, c, rec) : Awaited(p, program)
               /\ tun = "FC0012" =>
                    /\ AfterReads(program)
                    /\ Head(program).op = "wire_read"
  <1> DEFINE S == Apt(tun, c, rec, facets)
             gain == c.arg
  <1>1. gain \in Small /\ 0 \in Small /\ 1 \in Small
    BY CallApis, SmallArguments
  <1>2. Promised(tun, c, rec) = GainPoints(tun, gain)
    BY DEF Promised
  <1>3. ASSUME NEW p \in Due(tun, c, rec, facets), p.reg # "PLL_WORD"
        PROVE  p \in GainPoints(tun, gain)
    <2>1. "gain" \in Touches(tun, c)
      BY DEF Touches
    <2>2. p \in GainPoints(tun, gain) \/ p \in FreqPoints(rec.center, rec.if_offset)
      BY <2>1, DuePoints
    <2> QED BY <1>3, <2>2, RecordSmall, PointNames
  <1>4. CASE tun = "R820T"
    <2> DEFINE op1 == Rmw("LNA_BIAS", [gain |-> gain])
               op2 == Rmw("MIXER_DRIVE", IF gain = GainAuto THEN Unchanged ELSE [gain |-> gain])
               op3 == Rmw("IF_STAGE", [gain |-> gain])
    <2>1. /\ [gain |-> gain] \in Fields
          /\ (IF gain = GainAuto THEN Unchanged ELSE [gain |-> gain]) \in Fields
      BY <1>1, OneField, OtherFields
    <2>2. op1 \in Operations /\ op2 \in Operations /\ op3 \in Operations
      BY <2>1, TunerOperations, RegisterNames
    <2>3. /\ op1.op = "rmw" /\ op1.reg = "LNA_BIAS" /\ op1.fields = [gain |-> gain]
          /\ op2.op = "rmw" /\ op2.reg = "MIXER_DRIVE"
          /\ op2.fields = IF gain = GainAuto THEN Unchanged ELSE [gain |-> gain]
          /\ op3.op = "rmw" /\ op3.reg = "IF_STAGE" /\ op3.fields = [gain |-> gain]
      BY DEF Rmw
    <2>4. ASSUME NEW p \in GainPoints(tun, gain)
          PROVE  /\ p.field = "gain" /\ p.value = gain
                 /\ p.reg \in {"LNA_BIAS", "IF_STAGE"} \/ (p.reg = "MIXER_DRIVE" /\ gain # GainAuto)
      BY <1>4 DEF GainPoints, Point
    <2>5. DOMAIN Unchanged = {}
      BY DEF Unchanged
    <2> HIDE DEF op1, op2, op3
    <2>6. ASSUME NEW p \in GainPoints(tun, gain)
          PROVE  /\ p.reg = "LNA_BIAS" => Gives(op1, p)
                 /\ p.reg = "MIXER_DRIVE" => Gives(op2, p)
                 /\ p.reg = "IF_STAGE" => Gives(op3, p)
      BY <2>3, <2>4 DEF Gives
    <2>7. op1 \in S /\ op3 \in S
      <3>1. \A p \in Due(tun, c, rec, facets) : p.reg \in {"LNA_BIAS", "IF_STAGE"} => p.value = gain /\ p.field = "gain"
        BY <1>3, <2>4
      <3>2. /\ \A p \in Due(tun, c, rec, facets) :
                 op1.reg = p.reg /\ p.field \in DOMAIN op1.fields => op1.fields[p.field] = p.value
            /\ \A p \in Due(tun, c, rec, facets) :
                 op3.reg = p.reg /\ p.field \in DOMAIN op3.fields => op3.fields[p.field] = p.value
        BY <2>3, <3>1
      <3>3. op1 \in S
        BY <2>2, <2>3, <3>2, AptOperations
      <3>4. op3 \in S
        BY <2>2, <2>3, <3>2, AptOperations
      <3> QED BY <3>3, <3>4
    <2>8. op2 \in S
      <3>1. ASSUME NEW p \in Due(tun, c, rec, facets), p.reg = "MIXER_DRIVE", p.field \in DOMAIN op2.fields
            PROVE  op2.fields[p.field] = p.value
        <4>1. p \in GainPoints(tun, gain)
          BY <1>3, <3>1
        <4>2. p.field = "gain" /\ p.value = gain /\ gain # GainAuto
          BY <2>4, <3>1, <4>1
        <4>3. op2.fields = [gain |-> gain]
          BY <2>3, <4>2
        <4> QED BY <4>2, <4>3
      <3>2. \A p \in Due(tun, c, rec, facets) :
               op2.reg = p.reg /\ p.field \in DOMAIN op2.fields => op2.fields[p.field] = p.value
        BY <2>3, <3>1
      <3>3. op2.op = "rmw"
        BY <2>3
      <3> QED BY <2>2, <3>2, <3>3, AptOperations
    <2>9. R820tGain(gain) = << op1, op2, op3 >>
      BY DEF R820tGain, op1, op2, op3
    <2> HIDE DEF S
    <2>10. /\ << op1, op2, op3 >> \in Seq(S) /\ Len(<< op1, op2, op3 >>) = 3
           /\ << op1, op2, op3 >>[1] = op1 /\ << op1, op2, op3 >>[2] = op2 /\ << op1, op2, op3 >>[3] = op3
      BY <2>7, <2>8
    <2>11. \A p \in GainPoints(tun, gain) : Awaited(p, << op1, op2, op3 >>)
      BY <2>4, <2>6, <2>10 DEF Awaited
    <2> QED BY <1>2, <1>4, <2>9, <2>10, <2>11 DEF S
  <1>5. CASE tun = "FC0012"
    <2> DEFINE manual == IF gain = GainAuto THEN 0 ELSE 1
               read1 == WireRead("LNA_OVERRIDE")
               write1 == WireWrite("LNA_OVERRIDE", [manual |-> manual])
               read2 == WireRead("LNA_GAIN")
               write2 == WireWrite("LNA_GAIN", [gain |-> gain])
    <2>0. manual \in Small /\ (gain = GainAuto => manual = 0) /\ (gain # GainAuto => manual = 1)
      BY <1>1
    <2> HIDE DEF manual
    <2>1. [manual |-> manual] \in Fields /\ [gain |-> gain] \in Fields
      BY <1>1, <2>0, OneField
    <2>2. /\ read1 \in Operations /\ read1.op = "wire_read"
          /\ read2 \in Operations /\ read2.op = "wire_read"
          /\ write1 \in Operations /\ write1.op = "wire_write" /\ write1.reg = "LNA_OVERRIDE"
          /\ write2 \in Operations /\ write2.op = "wire_write" /\ write2.reg = "LNA_GAIN"
      BY <2>1, TunerOperations, RegisterNames
    <2>3. /\ write1.fields = [manual |-> manual] /\ ~write1.soft
          /\ write2.fields = [gain |-> gain] /\ ~write2.soft
      BY DEF WireWrite
    <2>4. DOMAIN write1.fields = Layout["LNA_OVERRIDE"] /\ DOMAIN write2.fields = Layout["LNA_GAIN"]
      BY <2>3 DEF Layout
    <2>5. ASSUME NEW p \in GainPoints(tun, gain)
          PROVE  \/ p.reg = "LNA_OVERRIDE" /\ p.field = "manual" /\ p.value = manual
                 \/ p.reg = "LNA_GAIN" /\ p.field = "gain" /\ p.value = gain /\ gain # GainAuto
      BY <1>5, <2>0 DEF GainPoints, Point
    <2>6. Fc0012Gain(gain) = IF gain = GainAuto THEN << read1, write1 >> ELSE << read1, write1, read2, write2 >>
      BY <2>0 DEF Fc0012Gain
    <2> HIDE DEF read1, write1, read2, write2
    <2>7. read1 \in S /\ read2 \in S
      BY <2>2, AptOperations
    <2>8. write1 \in S
      <3>1. \A p \in Due(tun, c, rec, facets) : p.reg = "LNA_OVERRIDE" => p.field = "manual" /\ p.value = manual
        BY <1>3, <2>5
      <3>2. \A p \in Due(tun, c, rec, facets) : write1.reg = p.reg => write1.fields[p.field] = p.value
        BY <2>2, <2>3, <3>1
      <3>3. write1.op = "wire_write" /\ DOMAIN write1.fields = Layout[write1.reg]
        BY <2>2, <2>4
      <3> QED BY <2>2, <3>2, <3>3, AptOperations
    <2>9. write2 \in S
      <3>1. \A p \in Due(tun, c, rec, facets) : p.reg = "LNA_GAIN" => p.field = "gain" /\ p.value = gain
        BY <1>3, <2>5
      <3>2. \A p \in Due(tun, c, rec, facets) : write2.reg = p.reg => write2.fields[p.field] = p.value
        BY <2>2, <2>3, <3>1
      <3>3. write2.op = "wire_write" /\ DOMAIN write2.fields = Layout[write2.reg]
        BY <2>2, <2>4
      <3> QED BY <2>2, <3>2, <3>3, AptOperations
    <2>10. ASSUME NEW p \in GainPoints(tun, gain)
           PROVE  /\ p.reg = "LNA_OVERRIDE" => Gives(write1, p)
                  /\ p.reg = "LNA_GAIN" => Gives(write2, p)
      BY <2>2, <2>3, <2>5 DEF Gives
    <2> HIDE DEF S
    <2>11. CASE gain = GainAuto
      <3> DEFINE these == << read1, write1 >>
      <3>1. /\ these \in Seq(S) /\ Len(these) = 2 /\ these[1] = read1 /\ these[2] = write1
            /\ Head(these) = read1
        BY <2>7, <2>8
      <3>2. Fc0012Gain(gain) = these
        BY <2>6, <2>11
      <3> HIDE DEF these
      <3>3. \A p \in GainPoints(tun, gain) : Awaited(p, these)
        BY <2>5, <2>10, <2>11, <3>1 DEF Awaited
      <3>4. AfterReads(these)
        BY <2>2, <3>1 DEF AfterReads
      <3> QED BY <1>2, <1>5, <2>2, <3>1, <3>2, <3>3, <3>4 DEF S
    <2>12. CASE gain # GainAuto
      <3> DEFINE these == << read1, write1, read2, write2 >>
      <3>1. /\ these \in Seq(S) /\ Len(these) = 4 /\ these[1] = read1 /\ these[2] = write1
            /\ these[3] = read2 /\ these[4] = write2 /\ Head(these) = read1
        BY <2>7, <2>8, <2>9
      <3>2. Fc0012Gain(gain) = these
        BY <2>6, <2>12
      <3> HIDE DEF these
      <3>3. \A p \in GainPoints(tun, gain) : Awaited(p, these)
        BY <2>5, <2>10, <3>1 DEF Awaited
      <3>4. ASSUME NEW i \in 1..(Len(these) - 1), these[i + 1].op = "wire_write"
            PROVE  these[i].op = "wire_read"
        <4>1. i = 1 \/ i = 2 \/ i = 3
          BY <3>1
        <4>2. i # 2
          BY <2>2, <3>1, <3>4
        <4> QED BY <2>2, <3>1, <4>1, <4>2
      <3>5. AfterReads(these)
        BY <3>4 DEF AfterReads
      <3> QED BY <1>2, <1>5, <2>2, <3>1, <3>2, <3>3, <3>5 DEF S
    <2> QED BY <2>11, <2>12
  <1> QED BY <1>4, <1>5

\* set_sample_rate
LEMMA RateApt ==
    ASSUME tuner \in {"R820T", "FC0012"}, NEW c \in Calls, c.api = "set_sample_rate",
           NEW rec \in Tuning, NEW facets
    PROVE  LET program == RateProgram(c.arg)
           IN  /\ program \in Seq(Apt(tuner, c, rec, facets))
               /\ Trailing(program)
               /\ AwaitsRatio(program)
               /\ Len(program) \notin 1..2 /\ program # <<>>
  <1> DEFINE S == Apt(tuner, c, rec, facets)
             first == {o \in S : o.op \in {"rmw", "nco"}}
             end1 == Set("ratio", c.arg)
             end2 == Set("ddc", TRUE)
             end3 == Set("ddc", FALSE)
             end4 == Set("nco_again", 0)
             ending == << end1, end2, end3, end4 >>
             filter == Rmw("FILT_BIAS", [band |-> c.arg])
             nco == Set("nco", WideIf[c.arg])
             before == Bandwidth(c.arg)
  <1>1. c.arg \in Small /\ WideIf[c.arg] \in Small /\ 0 \in Small
    BY CallApis, SmallArguments
  <1>2. /\ end1 \in Operations /\ end1.op = "ratio" /\ end1.value = c.arg
        /\ end2 \in Operations /\ end2.op = "ddc" /\ end2.value = TRUE
        /\ end3 \in Operations /\ end3.op = "ddc" /\ end3.value = FALSE
        /\ end4 \in Operations /\ end4.op = "nco_again"
        /\ nco \in Operations /\ nco.op = "nco"
    BY <1>1, DemodOperations
  <1>3. filter \in Operations /\ filter.op = "rmw" /\ filter.reg = "FILT_BIAS"
    <2>1. [band |-> c.arg] \in Fields
      BY <1>1, OneField
    <2> QED BY <2>1, TunerOperations, RegisterNames DEF Rmw
  <1>4. \A p \in Due(tuner, c, rec, facets) : p.reg # "FILT_BIAS"
    BY DuePoints
  <1>5. before = IF tuner = "R820T" /\ WideIf[c.arg] # 0 THEN << filter >> \o << nco >> ELSE <<>>
    BY DEF Bandwidth, IfProgram
  <1>6. RateProgram(c.arg) = before \o ending
    BY DEF RateProgram
  <1> HIDE DEF end1, end2, end3, end4, filter, nco, before
  <1>7. end1 \in S /\ end2 \in S /\ end3 \in S /\ end4 \in S
    BY <1>2, AptOperations
  <1>8. filter \in first
    BY <1>3, <1>4, AptOperations
  <1>9. tuner = "R820T" /\ WideIf[c.arg] # 0 => nco \in first
    <2>1. tuner = "R820T" /\ WideIf[c.arg] # 0 => "freq" \in Touches(tuner, c)
      BY DEF Touches
    <2> QED BY <1>2, <2>1, AptOperations
  <1>10. first \subseteq S /\ \A o \in first : o.op \in {"rmw", "nco"}
    OBVIOUS
  <1> HIDE DEF S, first
  <1>11. before \in Seq(first)
    <2>1. <<>> \in Seq(first) /\ << filter >> \in Seq(first)
      BY <1>8, EmptySeq
    <2>2. tuner = "R820T" /\ WideIf[c.arg] # 0 => << nco >> \in Seq(first)
      BY <1>9
    <2>3. tuner = "R820T" /\ WideIf[c.arg] # 0 => << filter >> \o << nco >> \in Seq(first)
      BY <2>1, <2>2, ConcatProperties
    <2> QED BY <1>5, <2>1, <2>3
  <1>12. before \in Seq(S) /\ Len(before) \in Nat
         /\ \A i \in 1..Len(before) : before[i].op \in {"rmw", "nco"}
    BY <1>10, <1>11, SeqMonotonic, ElementOfSeq, LenProperties
  <1>13. /\ ending \in Seq(S) /\ Len(ending) = 4
         /\ ending[1] = end1 /\ ending[2] = end2 /\ ending[3] = end3 /\ ending[4] = end4
    BY <1>7
  <1> HIDE DEF ending
  <1> DEFINE all == before \o ending
             n == Len(before)
  <1>14. /\ all \in Seq(S) /\ Len(all) = n + 4
         /\ \A i \in 1..(n + 4) : all[i] = IF i <= n THEN before[i] ELSE ending[i - n]
    <2>1. /\ all \in Seq(S) /\ Len(all) = n + Len(ending)
          /\ \A i \in 1..n + Len(ending) : all[i] = IF i <= n THEN before[i] ELSE ending[i - n]
      BY <1>12, <1>13, ConcatProperties
    <2> HIDE DEF all, n
    <2> QED BY <1>13, <2>1
  <1> HIDE DEF all
  <1>15. ASSUME NEW i \in 1..Len(all)
         PROVE  \/ i <= n /\ all[i].op \in {"rmw", "nco"}
                \/ i = n + 1 /\ all[i] = end1
                \/ i = n + 2 /\ all[i] = end2
                \/ i = n + 3 /\ all[i] = end3
                \/ i = n + 4 /\ all[i] = end4
    <2>1. i <= n \/ i = n + 1 \/ i = n + 2 \/ i = n + 3 \/ i = n + 4
      BY <1>12, <1>14
    <2> QED BY <1>12, <1>13, <1>14, <2>1
  <1>16. Trailing(all)
    <2> SUFFICES ASSUME NEW i \in 1..Len(all)
                 PROVE  /\ all[i].op = "nco_again" <=> i = Len(all)
                        /\ (all[i].op = "ddc" /\ all[i].value) <=> i = Len(all) - 2
                        /\ all[i].op = "nco" => i < Len(all) - 2
      BY DEF Trailing
    <2> QED BY <1>2, <1>12, <1>14, <1>15
  <1>17. n + 1 \in 1..Len(all) /\ all[n + 1].op = "ratio"
    BY <1>2, <1>12, <1>13, <1>14
  <1>18. Len(all) \notin 1..2 /\ all # <<>>
    BY <1>12, <1>14
  <1>19. AwaitsRatio(all)
    BY <1>17 DEF AwaitsRatio
  <1> QED BY <1>6, <1>14, <1>16, <1>18, <1>19 DEF S, all

\* The calls that take no lock
LEMMA UnlockedApt ==
    ASSUME tuner \in {"R820T", "FC0012"}, NEW c \in Calls, c.api \in Unlocked,
           NEW rec \in Tuning, NEW facets
    PROVE  Program(c) \in Seq(Apt(tuner, c, rec, facets))
  <1> DEFINE S == Apt(tuner, c, rec, facets)
  <1>1. CASE c.api = "reset_demod"
    <2> DEFINE op1 == Set("peek", 0)
               op2 == Set("poke", TRUE)
               op3 == Set("poke", FALSE)
    <2>1. /\ op1 \in Operations /\ op1.op = "peek" /\ op2 \in Operations /\ op2.op = "poke"
          /\ op3 \in Operations /\ op3.op = "poke"
      BY SmallArguments, DemodOperations
    <2>2. Program(c) = << op1, op2, op3 >>
      BY <1>1 DEF Program, DemodProgram
    <2> HIDE DEF op1, op2, op3
    <2>3. op1 \in S /\ op2 \in S /\ op3 \in S
      BY <2>1, AptOperations
    <2> HIDE DEF S
    <2> QED BY <2>2, <2>3 DEF S
  <1>2. CASE c.api = "reset_tuner" /\ tuner = "R820T"
    <2> DEFINE op1 == Set("gate", TRUE)
               op2 == Rmw("LNA_BIAS", Unchanged)
               op3 == Rmw("MIXER_DRIVE", Unchanged)
               op4 == Rmw("FILT_BIAS", Unchanged)
               op5 == Rmw("IF_STAGE", Unchanged)
               op6 == Rmw("VCO_DRIVE", Unchanged)
               op7 == Rmw("PLL_WORD", Unchanged)
               op8 == Rmw("MUX_ROUTING", Unchanged)
               op9 == Set("gate", FALSE)
    <2>1. /\ op1 \in Operations /\ op1.op = "gate" /\ op9 \in Operations /\ op9.op = "gate"
      BY DemodOperations
    <2>2. ASSUME NEW r \in Registers
          PROVE  Rmw(r, Unchanged) \in S
      <3> DEFINE o == Rmw(r, Unchanged)
      <3>1. o \in Operations /\ o.op = "rmw"
        BY OtherFields, TunerOperations
      <3>2. DOMAIN o.fields = {}
        BY DEF Rmw, Unchanged
      <3> HIDE DEF o
      <3>3. o \in S
        BY <3>1, <3>2, AptOperations
      <3> QED BY <3>3 DEF o
    <2>3. Program(c) = << op1, op2, op3, op4, op5, op6, op7, op8, op9 >>
      BY <1>2 DEF Program, TunerProgram
    <2>4. /\ op2 \in S /\ op3 \in S /\ op4 \in S /\ op5 \in S /\ op6 \in S /\ op7 \in S /\ op8 \in S
      BY <2>2, RegisterNames
    <2> HIDE DEF op1, op2, op3, op4, op5, op6, op7, op8, op9
    <2>5. op1 \in S /\ op9 \in S
      BY <2>1, AptOperations
    <2> HIDE DEF S
    <2> QED BY <2>3, <2>4, <2>5 DEF S
  <1>3. CASE c.api = "reset_tuner" /\ tuner = "FC0012"
    <2> DEFINE op1 == WireWrite("PLL_WORD", [freq |-> 0, if |-> 0])
               op2 == WireWrite("LNA_OVERRIDE", [manual |-> 0])
               op3 == WireWrite("LNA_GAIN", [gain |-> 0])
               op4 == Ignored(WireWrite("LNA_OVERRIDE", [manual |-> 1]))
               op5 == Ignored(WireWrite("LNA_GAIN", [gain |-> 1]))
    <2>1. /\ [freq |-> 0, if |-> 0] \in Fields /\ [manual |-> 0] \in Fields /\ [manual |-> 1] \in Fields
          /\ [gain |-> 0] \in Fields /\ [gain |-> 1] \in Fields
      BY OneField, OtherFields, SmallArguments
    <2>2. Due(tuner, c, rec, facets) = {}
      <3>1. "gain" \in Touches(tuner, c) /\ "freq" \in Touches(tuner, c)
        BY <1>3 DEF Touches
      <3> QED BY <1>3, <3>1, DuePoints
    <2>3. ASSUME NEW r \in Registers, NEW fields \in Fields, DOMAIN fields = Layout[r]
          PROVE  WireWrite(r, fields) \in S /\ Ignored(WireWrite(r, fields)) \in S
      <3> DEFINE write == WireWrite(r, fields)
                 soft == Ignored(write)
      <3>1. write \in Operations /\ write.op = "wire_write" /\ soft \in Operations /\ soft.op = "wire_write"
        BY TunerOperations
      <3>2. write.reg = r /\ write.fields = fields /\ soft.reg = r /\ soft.fields = fields
        BY DEF WireWrite, Ignored
      <3> HIDE DEF write, soft
      <3>3. write \in S /\ soft \in S
        BY <2>2, <2>3, <3>1, <3>2, AptOperations
      <3> QED BY <3>3 DEF write, soft
    <2>4. /\ DOMAIN [freq |-> 0, if |-> 0] = Layout["PLL_WORD"]
          /\ DOMAIN [manual |-> 0] = Layout["LNA_OVERRIDE"] /\ DOMAIN [manual |-> 1] = Layout["LNA_OVERRIDE"]
          /\ DOMAIN [gain |-> 0] = Layout["LNA_GAIN"] /\ DOMAIN [gain |-> 1] = Layout["LNA_GAIN"]
      BY DEF Layout
    <2>5. op1 \in S /\ op2 \in S /\ op3 \in S /\ op4 \in S /\ op5 \in S
      BY <2>1, <2>3, <2>4, RegisterNames
    <2>6. Program(c) = << op1, op2, op3, op4, op5 >>
      BY <1>3 DEF Program, TunerProgram
    <2> HIDE DEF op1, op2, op3, op4, op5, S
    <2> QED BY <2>5, <2>6 DEF S
  <1>4. CASE c.api = "write_batch"
    <2> DEFINE begin == Set("session", TRUE)
               end == Set("session", FALSE)
               op1 == SessionWrite("LNA_BIAS")
               op2 == SessionWrite("FILT_BIAS")
               op3 == SessionWrite("LNA_OVERRIDE")
               op4 == SessionWrite("LNA_GAIN")
               between == IF tuner = "R820T" THEN << op1, op2 >> ELSE << op3, op4 >>
    <2>1. begin \in Operations /\ begin.op = "session" /\ end \in Operations /\ end.op = "session"
      BY DemodOperations
    <2>2. ASSUME NEW p \in Due(tuner, c, rec, facets)
          PROVE  p.reg = "PLL_WORD"
      <3>1. "gain" \in Touches(tuner, c)
        BY <1>4 DEF Touches
      <3>2. p \in FreqPoints(rec.center, rec.if_offset)
        BY <1>4, <3>1, DuePoints
      <3> QED BY <3>2, RecordSmall, PointNames
    <2>3. ASSUME NEW r \in Registers, r # "PLL_WORD"
          PROVE  SessionWrite(r) \in S
      <3>1. /\ SessionWrite(r) \in Operations /\ SessionWrite(r).op = "session_write"
            /\ SessionWrite(r).reg = r
        BY DEF SessionWrite, Operations
      <3> QED BY <2>2, <2>3, <3>1, AptOperations
    <2>4. op1 \in S /\ op2 \in S /\ op3 \in S /\ op4 \in S
      BY <2>3, RegisterNames
    <2>5. Program(c) = (<< begin >> \o between) \o << end >>
      BY <1>4 DEF Program, BatchProgram
    <2> HIDE DEF begin, end, op1, op2, op3, op4
    <2>6. begin \in S /\ end \in S
      BY <2>1, AptOperations
    <2> HIDE DEF S
    <2>7. << begin >> \in Seq(S) /\ << end >> \in Seq(S) /\ between \in Seq(S)
      BY <2>4, <2>6
    <2> HIDE DEF between
    <2>8. << begin >> \o between \in Seq(S)
      BY <2>7, ConcatProperties
    <2>9. (<< begin >> \o between) \o << end >> \in Seq(S)
      BY <2>7, <2>8, ConcatProperties
    <2> QED BY <2>5, <2>9 DEF S
  <1> QED BY <1>1, <1>2, <1>3, <1>4 DEF Unlocked

-----------------------------------------------------------------------------
(* A step of one thread, and what lasts.                                   *)

\* The other threads are at no work, so what lasts follows from what t does.
LEMMA LastingStepped ==
    ASSUME Inv, Lasting, NEW t \in Threads, Active(t),
           NEW p \in {"run", "xfer", "close"}, pc' = [pc EXCEPT ![t] = p],
           (tuner = "FC0012" => record.if_offset = 0)', Works(t)'
    PROVE  Lasting'
  <1>1. pc'[t] = p /\ \A u \in Threads : u # t => pc'[u] = pc[u]
    BY DEF Inv, Types
  <1>2. Active(t)' /\ \A u \in Threads : u # t => ~Active(u)'
    BY <1>1, Alone DEF Active
  <1> QED BY <1>2 DEF Lasting

\* What is known of a thread with an operation at hand
LEMMA AtWorkLasting ==
    ASSUME Inv, Lasting, NEW t \in Threads, Active(t), todo[t] # <<>>
    PROVE  /\ record \in Tuning /\ call[t] \in Calls /\ todo[t] \in Seq(Operations)
           /\ failed[t] \in BOOLEAN
           /\ tuner \in {"R820T", "FC0012"}
           /\ tuner = "FC0012" => record.if_offset = 0
           /\ Works(t)
           /\ Head(todo[t]) \in Apt(tuner, call[t], record, sure)
           /\ Tail(todo[t]) \in Seq(Apt(tuner, call[t], record, sure))
           /\ \A p \in Due(tuner, call[t], record, sure) : p \in Points /\ Spares(Head(todo[t]), p)
  <1>1. /\ record \in Tuning /\ todo[t] \in Seq(Operations) /\ failed[t] \in BOOLEAN
        /\ call[t] \in Calls /\ tuner \in {"R820T", "FC0012"}
    BY AtWork DEF Inv, Types
  <1>2. Works(t) /\ (tuner = "FC0012" => record.if_offset = 0)
    BY DEF Lasting
  <1>3. todo[t] \in Seq(Apt(tuner, call[t], record, sure))
    BY <1>2 DEF Works, Keeps
  <1>4. /\ Head(todo[t]) \in Apt(tuner, call[t], record, sure)
        /\ Tail(todo[t]) \in Seq(Apt(tuner, call[t], record, sure))
    BY <1>1, <1>3, AptTail
  <1>5. \A p \in Due(tuner, call[t], record, sure) : p \in Points
    BY <1>1, DuePoints
  <1>6. \A p \in Due(tuner, call[t], record, sure) : Spares(Head(todo[t]), p)
    BY <1>4 DEF Apt
  <1> QED BY <1>1, <1>2, <1>4, <1>5, <1>6

\* When an operation is over that left alone what was agreed, and brought about what it gives
\* if it succeeded, the rest of the call still keeps to what is due.
LEMMA Advance ==
    ASSUME Inv, Lasting, NEW t \in Threads, Active(t), todo[t] # <<>>,
           NEW ok \in BOOLEAN, Done(t, ok), UNCHANGED <<tuner, call, sure>>,
           Standing(tuner, record', sure \ Touches(tuner, call[t])) =
             Standing(tuner, record, sure \ Touches(tuner, call[t])),
           Promised(tuner, call[t], record') = Promised(tuner, call[t], record),
           \A p \in Due(tuner, call[t], record, sure) : Agreed(p) => Agreed(p)',
           ok /\ ~failed[t] =>
             \A p \in Promised(tuner, call[t], record) : Gives(Head(todo[t]), p) => Agreed(p)',
           ok => ~failed[t] \/ pc[t] # "close"
    PROVE  FieldsStand(Touches(tuner, call[t]))' /\ Keeps(t)' /\ GivesUp(t)' /\ Carries(t)'
  <1> DEFINE open == Touches(tuner, call[t])
             S == Apt(tuner, call[t], record, sure)
             promised == Promised(tuner, call[t], record)
  <1>1. /\ Works(t) /\ Tail(todo[t]) \in Seq(S) /\ todo[t] \in Seq(Operations)
        /\ call[t] \in Calls /\ record \in Tuning /\ failed[t] \in BOOLEAN
    BY AtWorkLasting
  <1>2. Due(tuner, call[t], record', sure) = Due(tuner, call[t], record, sure)
    BY DEF Due
  <1>3. Apt(tuner, call[t], record', sure) = S
    BY <1>2 DEF Apt
  <1>4. /\ todo'[t] = IF ok THEN Tail(todo[t]) ELSE Cleanup(t)
        /\ failed'[t] = (failed[t] \/ ~ok)
        /\ pc'[t] = "run"
    BY DEF Done, Inv, Types
  <1>5. Cleanup(t) \in Seq(S)
    BY <1>1, AptCleanup
  <1>6. todo'[t] \in Seq(S)
    BY <1>1, <1>4, <1>5
  <1>7. FieldsStand(open)'
    <2>1. \A p \in Standing(tuner, record, sure \ open) : Agreed(p)
      BY <1>1 DEF Works, FieldsStand
    <2>2. \A p \in Standing(tuner, record, sure \ open) : Agreed(p)'
      BY <2>1 DEF Due
    <2> QED BY <2>2 DEF FieldsStand
  <1>8. ASSUME ~failed'[t], NEW p \in promised
        PROVE  Agreed(p)' \/ Awaited(p, todo'[t])
    <2>1. ok /\ ~failed[t]
      BY <1>1, <1>4, <1>8
    <2>2. Agreed(p) \/ Awaited(p, todo[t])
      BY <1>1, <2>1 DEF Works, Keeps
    <2>3. Agreed(p) => Agreed(p)'
      BY DEF Due
    <2>4. Awaited(p, todo[t]) => Gives(Head(todo[t]), p) \/ Awaited(p, Tail(todo[t]))
      BY <1>1, AptTail DEF Works, Keeps
    <2>5. Gives(Head(todo[t]), p) => Agreed(p)'
      BY <2>1
    <2> QED BY <1>4, <2>1, <2>2, <2>3, <2>4, <2>5
  <1>9. Keeps(t)'
    BY <1>3, <1>6, <1>8 DEF Keeps
  <1>10. Carries(t)'
    BY <1>4 DEF Carries
  <1>11. GivesUp(t)'
    <2>1. ~HoldsGate(tuner, call[t]) => Cleanup(t) = <<>>
      BY AtWork
    <2>2. ok /\ failed[t] => HoldsGate(tuner, call[t])
      BY <1>1 DEF Works, GivesUp
    <2> QED BY <1>1, <1>4, <2>1, <2>2 DEF GivesUp
  <1> QED BY <1>7, <1>9, <1>10, <1>11

\* The end of set_sample_rate, one operation on
LEMMA TrailingTail ==
    ASSUME NEW ops \in Seq(Operations), ops # <<>>, Trailing(ops)
    PROVE  /\ Trailing(Tail(ops))
           /\ Len(ops) \in Nat \ {0} /\ Len(Tail(ops)) = Len(ops) - 1
           /\ Head(ops).op = "nco_again" <=> Len(ops) = 1
           /\ (Head(ops).op = "ddc" /\ Head(ops).value) <=> Len(ops) = 3
           /\ Head(ops).op = "nco" => Len(ops) > 3
           /\ Tail(ops) = <<>> <=> Len(ops) = 1
           /\ AwaitsRatio(ops) => Head(ops).op = "ratio" \/ AwaitsRatio(Tail(ops))
  <1> DEFINE rest == Tail(ops)
  <1>1. /\ rest \in Seq(Operations)
        /\ Len(ops) \in Nat \ {0}
        /\ Len(rest) = Len(ops) - 1
        /\ \A i \in 1..Len(rest) : rest[i] = ops[i + 1]
        /\ Head(ops) = ops[1]
    BY HeadTailProperties, EmptySeq
  <1>2. rest = <<>> <=> Len(ops) = 1
    <2>1. rest # <<>> <=> Len(rest) > 0
      BY <1>1, SomeLeft
    <2> HIDE DEF rest
    <2> QED BY <1>1, <2>1
  <1> HIDE DEF rest
  <1>3. ASSUME NEW i \in 1..Len(rest)
        PROVE  /\ rest[i].op = "nco_again" <=> i = Len(rest)
               /\ (rest[i].op = "ddc" /\ rest[i].value) <=> i = Len(rest) - 2
               /\ rest[i].op = "nco" => i < Len(rest) - 2
    <2>1. i + 1 \in 1..Len(ops) /\ rest[i] = ops[i + 1]
      BY <1>1
    <2>2. /\ ops[i + 1].op = "nco_again" <=> i + 1 = Len(ops)
          /\ (ops[i + 1].op = "ddc" /\ ops[i + 1].value) <=> i + 1 = Len(ops) - 2
          /\ ops[i + 1].op = "nco" => i + 1 < Len(ops) - 2
      BY <2>1 DEF Trailing
    <2> QED BY <1>1, <2>1, <2>2
  <1>4. Trailing(rest)
    BY <1>3 DEF Trailing
  <1>5. /\ ops[1].op = "nco_again" <=> 1 = Len(ops)
        /\ (ops[1].op = "ddc" /\ ops[1].value) <=> 1 = Len(ops) - 2
        /\ ops[1].op = "nco" => 1 < Len(ops) - 2
    BY <1>1 DEF Trailing
  <1>6. ASSUME NEW i \in 1..Len(ops), ops[i].op = "ratio", Head(ops).op # "ratio"
        PROVE  AwaitsRatio(rest)
    <2>1. i # 1
      BY <1>1, <1>6
    <2>2. i - 1 \in 1..Len(rest) /\ rest[i - 1] = ops[i]
      BY <1>1, <2>1
    <2> QED BY <1>6, <2>2 DEF AwaitsRatio
  <1>7. AwaitsRatio(ops) => Head(ops).op = "ratio" \/ AwaitsRatio(rest)
    BY <1>6 DEF AwaitsRatio
  <1> QED BY <1>1, <1>2, <1>4, <1>5, <1>7 DEF rest

\* An error leaves nothing of a set_sample_rate.
LEMMA RateCleanup ==
    ASSUME Inv, NEW t \in Threads, Active(t), todo[t] # <<>>, call[t].api = "set_sample_rate"
    PROVE  Cleanup(t) = <<>>
  <1>1. Head(todo[t]).op # "session_write"
    BY AtWork, KindsTell
  <1> QED BY <1>1 DEF Cleanup

\* An operation that is not one of set_sample_rate's on the demodulator keeps what is due there.
LEMMA DemodAdvance ==
    ASSUME Inv, Lasting, NEW t \in Threads, Active(t), todo[t] # <<>>,
           NEW ok \in BOOLEAN, Done(t, ok), UNCHANGED <<tuner, call, sure>>,
           record'.rate = record.rate,
           record' = record \/ call[t].api = "set_sample_rate",
           demod'.ratio = demod.ratio,
           demod'.nco = demod.nco \/ call[t].api = "reset_demod"
                                  \/ (call[t].api = "set_sample_rate" /\ Len(todo[t]) > 3),
           call[t].api = "set_sample_rate" => Head(todo[t]).op \notin {"ratio", "nco_again"}
                /\ ~(Head(todo[t]).op = "ddc" /\ Head(todo[t]).value)
    PROVE  DemodStands(Touches(tuner, call[t]))' /\ Retunes(t)'
  <1>1. /\ Works(t) /\ todo[t] \in Seq(Operations) /\ failed[t] \in BOOLEAN
        /\ call[t] \in Calls /\ record \in Tuning
    BY AtWorkLasting
  <1>2. /\ todo'[t] = IF ok THEN Tail(todo[t]) ELSE Cleanup(t)
        /\ failed'[t] = (failed[t] \/ ~ok)
    BY DEF Done, Inv, Types
  <1>3. DemodStands(Touches(tuner, call[t]))'
    <2>1. call[t].api = "set_sample_rate" => {"rate", "nco"} \subseteq Touches(tuner, call[t])
      BY DEF Touches
    <2>2. call[t].api = "reset_demod" => "nco" \in Touches(tuner, call[t])
      BY DEF Touches
    <2>3. DemodStands(Touches(tuner, call[t]))
      BY <1>1 DEF Works
    <2> QED BY <2>1, <2>2, <2>3 DEF DemodStands
  <1>4. ASSUME call[t].api = "set_sample_rate"
        PROVE  Retunes(t)'
    <2>1. Retunes(t) /\ Cleanup(t) = <<>>
      BY <1>1, <1>4, RateCleanup DEF Works
    <2>2. /\ Trailing(todo[t]) /\ record.rate = call[t].arg
          /\ ~failed[t] =>
               /\ demod.ratio = call[t].arg \/ AwaitsRatio(todo[t])
               /\ Len(todo[t]) \in 1..2 => demod.nco = 0
      BY <1>4, <2>1 DEF Retunes
    <2>3. /\ Trailing(Tail(todo[t])) /\ Len(todo[t]) \in Nat \ {0}
          /\ Len(Tail(todo[t])) = Len(todo[t]) - 1 /\ Len(todo[t]) # 1 /\ Len(todo[t]) # 3
          /\ Tail(todo[t]) # <<>>
          /\ AwaitsRatio(todo[t]) => AwaitsRatio(Tail(todo[t]))
      BY <1>1, <1>4, <2>2, TrailingTail
    <2>4. CASE ok
      <3>1. todo'[t] = Tail(todo[t]) /\ failed'[t] = failed[t]
        BY <1>1, <1>2, <2>4
      <3>2. ~failed[t] => /\ demod'.ratio = call[t].arg \/ AwaitsRatio(todo'[t])
                          /\ Len(todo'[t]) \in 1..2 => demod'.nco = 0
        <4>1. ASSUME Len(todo'[t]) \in 1..2
              PROVE  Len(todo[t]) \in 1..2 /\ ~(Len(todo[t]) > 3)
          <5> DEFINE n == Len(todo[t])
                     m == Len(todo'[t])
          <5>1. m = n - 1 /\ n \in Nat \ {0} /\ n # 1 /\ n # 3
            BY <2>3, <3>1
          <5>2. m = 1 \/ m = 2
            BY <4>1
          <5> HIDE DEF n, m
          <5>3. n = 2
            BY <5>1, <5>2
          <5>4. n \in 1..2 /\ ~(n > 3)
            BY <5>3
          <5> QED BY <5>4 DEF n
        <4>2. Len(todo'[t]) \in 1..2 => demod'.nco = demod.nco
          BY <1>4, <4>1
        <4>3. ~failed[t] /\ Len(todo'[t]) \in 1..2 => demod'.nco = 0
          BY <2>2, <4>1, <4>2
        <4>4. ~failed[t] => demod'.ratio = call[t].arg \/ AwaitsRatio(todo'[t])
          <5>1. AwaitsRatio(todo[t]) => AwaitsRatio(todo'[t])
            BY <2>3, <3>1
          <5>2. ~failed[t] => demod.ratio = call[t].arg \/ AwaitsRatio(todo[t])
            BY <2>2
          <5>3. demod'.ratio = demod.ratio
            OBVIOUS
          <5> QED BY <5>1, <5>2, <5>3
        <4> QED BY <4>3, <4>4
      <3> QED BY <2>2, <2>3, <3>1, <3>2 DEF Retunes
    <2>5. CASE ~ok
      <3>1. todo'[t] = <<>> /\ failed'[t]
        BY <1>1, <1>2, <2>1, <2>5
      <3>2. Trailing(<<>>)
        BY DEF Trailing
      <3> QED BY <2>2, <3>1, <3>2 DEF Retunes
    <2> QED BY <2>4, <2>5
  <1>5. call[t].api # "set_sample_rate" => Retunes(t)'
    BY DEF Retunes
  <1> QED BY <1>3, <1>4, <1>5

-----------------------------------------------------------------------------
(* What lasts over each action of a thread at work.                        *)

\* A write of register 1:01 leaves ratio and, but for a reset of the DDC, the NCO.
LEMMA ControlLeaves ==
    ASSUME Inv, NEW outcome \in Outcomes, NEW gate, NEW reset \in BOOLEAN,
           WriteControl(outcome, gate, reset)
    PROVE  /\ demod'.ratio = demod.ratio
           /\ ~reset => demod'.nco = demod.nco
           /\ (reset /\ outcome # "lost") => demod'.nco = 0
  <1>1. demod \in Demodulator
    BY DEF Inv, Types
  <1> QED BY <1>1 DEF WriteControl, Demodulator

\* An operation is over that wrote no register of the tuner, nor what set_sample_rate writes
\* of the demodulator.
LEMMA QuietLasts ==
    ASSUME Inv, Lasting, NEW t \in Threads, Active(t), todo[t] # <<>>,
           NEW ok \in BOOLEAN, Done(t, ok), UNCHANGED <<tuner, chip, shadow, record, call, sure>>,
           ok => Head(todo[t]).op \notin {"rmw", "wire_write"} /\ (~failed[t] \/ pc[t] # "close"),
           call[t].api # "set_gain" \/ tuner # "FC0012",
           demod'.ratio = demod.ratio,
           demod'.nco = demod.nco \/ call[t].api = "reset_demod",
           call[t].api = "set_sample_rate" => Head(todo[t]).op \notin {"ratio", "nco_again"}
                /\ ~(Head(todo[t]).op = "ddc" /\ Head(todo[t]).value)
    PROVE  Lasting'
  <1>1. tuner = "FC0012" => record.if_offset = 0
    BY AtWorkLasting
  <1>2. \A p \in Due(tuner, call[t], record, sure) : Agreed(p) => Agreed(p)'
    BY DEF Agreed
  <1>3. ok => \A p \in Promised(tuner, call[t], record) : Gives(Head(todo[t]), p) => Agreed(p)'
    BY DEF Gives
  <1>4. record' = record /\ UNCHANGED <<tuner, call, sure>>
    OBVIOUS
  <1>5. FieldsStand(Touches(tuner, call[t]))' /\ Keeps(t)' /\ GivesUp(t)' /\ Carries(t)'
    BY <1>2, <1>3, <1>4, Advance
  <1>6. DemodStands(Touches(tuner, call[t]))' /\ Retunes(t)'
    BY <1>4, DemodAdvance
  <1>7. ReadsFirst(t)'
    BY DEF ReadsFirst
  <1>8. Works(t)'
    BY <1>5, <1>6, <1>7 DEF Works
  <1>9. pc' = [pc EXCEPT ![t] = "run"]
    BY DEF Done
  <1> QED BY <1>1, <1>8, <1>9, LastingStepped

\* The gate around all of reset_tuner or of a session
LEMMA SwitchGateLasts ==
    ASSUME Inv, Lasting, NEW t \in Threads, NEW outcome \in Outcomes, SwitchGate(t, outcome)
    PROVE  Lasting'
  <1> DEFINE ok == outcome = "ok" \/ (Head(todo[t]).op = "gate" /\ ~Value(t))
  <1>1. /\ Active(t) /\ pc[t] = "run" /\ todo[t] # <<>> /\ Head(todo[t]).op \in {"gate", "session"}
        /\ WriteControl(outcome, Value(t), FALSE) /\ Done(t, ok)
        /\ UNCHANGED <<tuner, chip, shadow, record, call, sure>>
    BY DEF SwitchGate, Doing, Active
  <1>2. /\ call[t].api # "set_gain" /\ call[t].api # "set_sample_rate"
    BY <1>1, AtWork, KindsTell DEF HoldsGate
  <1>3. demod'.ratio = demod.ratio /\ demod'.nco = demod.nco
    BY <1>1, ControlLeaves
  <1>4. ok \in BOOLEAN
    OBVIOUS
  <1> HIDE DEF ok
  <1> QED BY <1>1, <1>2, <1>3, <1>4, QuietLasts

\* reset_demod reads register 1:01 ...
LEMMA PeekLasts ==
    ASSUME Inv, Lasting, NEW t \in Threads, NEW outcome \in Outcomes, Peek(t, outcome)
    PROVE  Lasting'
  <1> DEFINE ok == outcome = "ok"
  <1>1. /\ Active(t) /\ pc[t] = "run" /\ todo[t] # <<>> /\ Head(todo[t]).op = "peek" /\ Done(t, ok)
        /\ UNCHANGED <<tuner, demod, chip, shadow, record, call, sure>>
    BY DEF Peek, Doing, Active, device, history
  <1>2. call[t].api = "reset_demod"
    BY <1>1, AtWork, KindsTell
  <1>3. ok \in BOOLEAN
    OBVIOUS
  <1> HIDE DEF ok
  <1> QED BY <1>1, <1>2, <1>3, QuietLasts

\* ... and resets the DDC, which clears the NCO.
LEMMA PokeLasts ==
    ASSUME Inv, Lasting, NEW t \in Threads, NEW outcome \in Outcomes, Poke(t, outcome)
    PROVE  Lasting'
  <1> DEFINE ok == outcome = "ok"
  <1>1. /\ Active(t) /\ pc[t] = "run" /\ todo[t] # <<>> /\ Head(todo[t]).op = "poke" /\ Done(t, ok)
        /\ WriteControl(outcome, image[t].gate, Value(t))
        /\ UNCHANGED <<tuner, chip, shadow, record, call, sure>>
    BY DEF Poke, Doing, Active
  <1>2. call[t].api = "reset_demod" /\ Value(t) \in BOOLEAN
    BY <1>1, AtWork, KindsTell, OperationFields DEF Value
  <1>3. demod'.ratio = demod.ratio
    BY <1>1, <1>2, ControlLeaves
  <1>4. ok \in BOOLEAN
    OBVIOUS
  <1> HIDE DEF ok
  <1> QED BY <1>1, <1>2, <1>3, <1>4, QuietLasts

\* The gate is closed after a transfer of the R820T; the shadow file takes the byte.
LEMMA CloseGateLasts ==
    ASSUME Inv, Lasting, NEW t \in Threads, NEW outcome \in Outcomes, CloseGate(t, outcome)
    PROVE  Lasting'
  <1> DEFINE operation == Head(todo[t])
             reg == operation.reg
  <1>1. /\ Active(t) /\ pc[t] = "close" /\ (operation.op = "rmw" \/ failed[t])
        /\ WriteControl(outcome, FALSE, FALSE) /\ Done(t, ~failed[t])
        /\ UNCHANGED <<tuner, chip, record, call, sure>>
        /\ shadow' = IF failed[t] THEN shadow ELSE [shadow EXCEPT ![reg] = image[t]]
    BY DEF CloseGate, Active
  <1>2. ThreadFits(t) /\ todo[t] # <<>> /\ operation.op \in Scoped
    BY <1>1 DEF Inv, ThreadFits, TodoFits, CloseGate, Active
  <1>3. /\ tuner = "R820T" /\ operation.op \notin {"ratio", "nco_again", "ddc"}
        /\ reg \in Registers /\ failed[t] \in BOOLEAN /\ RegisterFile(shadow) /\ Works(t)
        /\ call[t].api # "reset_demod"
    BY <1>1, <1>2, AtWork, AtWorkLasting, KindsTell, OperationFields DEF Scoped, Inv, Types
  <1>4. demod'.ratio = demod.ratio /\ demod'.nco = demod.nco
    BY <1>1, ControlLeaves
  <1>5. CASE failed[t]
    <2>1. Done(t, FALSE) /\ UNCHANGED <<tuner, chip, shadow, record, call, sure>>
      BY <1>1, <1>5
    <2> QED BY <1>1, <1>2, <1>3, <1>4, <2>1, QuietLasts
  <1>6. CASE ~failed[t]
    <2>1. Done(t, TRUE) /\ record' = record /\ UNCHANGED <<tuner, call, sure>> /\ operation.op = "rmw"
      BY <1>1, <1>6
    <2>2. /\ \A f \in Layout[reg] : image[t][f] = IF f \in DOMAIN operation.fields THEN operation.fields[f]
                                                 ELSE shadow[reg][f]
          /\ chip[reg] = image[t]
      BY <1>1, <1>2, <1>3, <1>6, <2>1 DEF Works, Carries, ThreadFits, CloseFits, CloseGate
    <2>3. /\ shadow'[reg] = image[t]
          /\ \A r \in Registers : r # reg => shadow'[r] = shadow[r]
      BY <1>1, <1>3, <1>6 DEF RegisterFile
    <2>4. ASSUME NEW p \in Points, Spares(operation, p), Agreed(p)
          PROVE  Agreed(p)'
      <3>1. p.reg \in Registers /\ p.field \in Layout[p.reg]
        BY DEF Points
      <3>2. CASE p.reg = reg
        <4>1. image[t][p.field] = p.value
          BY <1>3, <2>1, <2>2, <2>4, <3>1, <3>2 DEF Spares, Agreed
        <4> QED BY <1>1, <2>2, <2>3, <3>2, <4>1 DEF Agreed
      <3>3. CASE p.reg # reg
        BY <1>1, <1>3, <2>3, <2>4, <3>1, <3>3 DEF Agreed
      <3> QED BY <3>2, <3>3
    <2>5. ASSUME NEW p \in Points, Gives(operation, p)
          PROVE  Agreed(p)'
      <3>1. p.reg = reg /\ p.field \in Layout[reg]
        BY <2>5 DEF Points, Gives
      <3>2. image[t][p.field] = p.value
        BY <2>2, <2>5, <3>1 DEF Gives
      <3> QED BY <1>1, <2>2, <2>3, <3>1, <3>2 DEF Agreed
    <2>6. \A p \in Due(tuner, call[t], record, sure) : p \in Points /\ Spares(operation, p)
      BY <1>1, <1>2, AtWorkLasting
    <2>7. \A p \in Due(tuner, call[t], record, sure) : Agreed(p) => Agreed(p)'
      BY <2>4, <2>6
    <2>8. \A p \in Promised(tuner, call[t], record) : Gives(operation, p) => Agreed(p)'
      BY <2>5, <2>6 DEF Due
    <2>9. FieldsStand(Touches(tuner, call[t]))' /\ Keeps(t)' /\ GivesUp(t)' /\ Carries(t)'
      BY <1>1, <1>2, <1>6, <2>1, <2>7, <2>8, Advance
    <2>10. DemodStands(Touches(tuner, call[t]))' /\ Retunes(t)'
      BY <1>1, <1>2, <1>3, <1>4, <2>1, DemodAdvance
    <2>11. ReadsFirst(t)'
      BY <1>3, <2>1 DEF ReadsFirst
    <2>12. Works(t)'
      BY <2>9, <2>10, <2>11 DEF Works
    <2>13. pc' = [pc EXCEPT ![t] = "run"]
      BY <2>1 DEF Done
    <2>14. (tuner = "FC0012" => record.if_offset = 0)'
      BY <1>3, <2>1
    <2> QED BY <1>1, <2>12, <2>13, <2>14, LastingStepped
  <1> QED BY <1>3, <1>5, <1>6

\* What is awaited later is awaited.
LEMMA AwaitedAfter ==
    ASSUME NEW a \in Seq(Operations), NEW b \in Seq(Operations), NEW p, Awaited(p, b)
    PROVE  Awaited(p, a \o b)
  <1> DEFINE all == a \o b
  <1>1. PICK i \in 1..Len(b) : Gives(b[i], p)
    BY DEF Awaited
  <1>2. /\ Len(a) \in Nat /\ Len(b) \in Nat /\ Len(all) = Len(a) + Len(b)
        /\ \A k \in 1..Len(a) + Len(b) : all[k] = IF k <= Len(a) THEN a[k] ELSE b[k - Len(a)]
    BY ConcatProperties, LenProperties
  <1> HIDE DEF all
  <1> DEFINE j == Len(a) + i
  <1>3. j \in 1..Len(a) + Len(b) /\ ~(j <= Len(a)) /\ j - Len(a) = i
    BY <1>2
  <1> HIDE DEF j
  <1>4. all[j] = b[i] /\ j \in 1..Len(all)
    BY <1>2, <1>3
  <1>5. Awaited(p, all)
    BY <1>1, <1>4 DEF Awaited
  <1> QED BY <1>5 DEF all

\* The PLL is asked once more, or the call goes on.
LEMMA CloseAfterProbeLasts ==
    ASSUME Inv, Lasting, NEW t \in Threads, NEW outcome \in Outcomes, NEW locked \in BOOLEAN,
           CloseAfterProbe(t, outcome, locked)
    PROVE  Lasting'
  <1> DEFINE operation == Head(todo[t])
             S == Apt(tuner, call[t], record, sure)
             more == Rmw("VCO_DRIVE", [current |-> 1])
             probe == Probe(TRUE)
             first == << more, probe >>
             again == first \o Tail(todo[t])
  <1>1. /\ Active(t) /\ pc[t] = "close" /\ operation.op = "probe" /\ ~failed[t]
        /\ WriteControl(outcome, FALSE, FALSE)
        /\ UNCHANGED <<tuner, chip, shadow, record, call, sure>>
    BY DEF CloseAfterProbe, Active
  <1>2. todo[t] # <<>>
    BY <1>1 DEF Inv, ThreadFits, TodoFits
  <1>3. tuner = "R820T" /\ call[t].api = "set_frequency" /\ call[t] \in Calls
    BY <1>1, <1>2, AtWork, KindsTell
  <1>4. demod'.ratio = demod.ratio /\ demod'.nco = demod.nco
    BY <1>1, ControlLeaves
  <1>5. CASE locked \/ operation.last
    <2>1. Done(t, locked)
      BY <1>5 DEF CloseAfterProbe
    <2> QED BY <1>1, <1>2, <1>3, <1>4, <2>1, QuietLasts
  <1>6. CASE ~(locked \/ operation.last)
    <2>1. /\ todo' = [todo EXCEPT ![t] = again]
          /\ pc' = [pc EXCEPT ![t] = "run"] /\ failed' = failed
      BY <1>6 DEF CloseAfterProbe
    <2>2. /\ Works(t) /\ Tail(todo[t]) \in Seq(S) /\ todo[t] \in Seq(Operations)
          /\ todo[t] \in Seq(S) /\ record \in Tuning
      BY <1>1, <1>2, AtWorkLasting DEF Works, Keeps
    <2>3. /\ more \in Operations /\ more.op = "rmw" /\ more.reg = "VCO_DRIVE"
          /\ probe \in Operations /\ probe.op = "probe"
      <3>1. [current |-> 1] \in Fields
        BY SmallArguments, OneField
      <3>2. more \in Operations /\ more.op = "rmw" /\ more.reg = "VCO_DRIVE"
        BY <3>1, TunerOperations, RegisterNames DEF Rmw
      <3>3. probe \in Operations /\ probe.op = "probe"
        BY DEF Probe, Operations
      <3> QED BY <3>2, <3>3
    <2>4. \A p \in Due(tuner, call[t], record, sure) : p.reg # "VCO_DRIVE"
      BY <1>3, <2>2, DuePoints
    <2> HIDE DEF more, probe
    <2>5. more \in S /\ probe \in S
      BY <1>3, <2>2, <2>3, <2>4, AptOperations
    <2> HIDE DEF S
    <2>6. first \in Seq(S) /\ first \in Seq(Operations) /\ Tail(todo[t]) \in Seq(Operations)
      <3>1. Tail(todo[t]) \in Seq(Operations)
        BY <1>1, <1>2, AtWork
      <3> QED BY <2>3, <2>5, <3>1
    <2> HIDE DEF first
    <2>7. again \in Seq(S)
      BY <2>2, <2>6, ConcatProperties
    <2>8. ASSUME NEW p \in Promised(tuner, call[t], record)
          PROVE  Agreed(p) \/ Awaited(p, again)
      <3>1. Agreed(p) \/ Awaited(p, todo[t])
        BY <1>1, <2>2 DEF Works, Keeps
      <3>2. ~Gives(operation, p)
        BY <1>1 DEF Gives
      <3>3. Awaited(p, todo[t]) => Awaited(p, Tail(todo[t]))
        BY <1>2, <2>2, <3>2, AptTail DEF S
      <3>4. Awaited(p, Tail(todo[t])) => Awaited(p, again)
        BY <2>6, AwaitedAfter
      <3> QED BY <3>1, <3>3, <3>4
    <2> HIDE DEF again
    <2>9. todo'[t] = again /\ failed'[t] = failed[t] /\ pc'[t] = "run"
      BY <2>1 DEF Inv, Types
    <2>10. UNCHANGED <<tuner, chip, shadow, record, call, sure>>
      BY <1>1
    <2>11. \A p : Agreed(p) <=> Agreed(p)'
      BY <2>10 DEF Agreed
    <2>12. FieldsStand(Touches(tuner, call[t]))' /\ DemodStands(Touches(tuner, call[t]))'
      BY <1>4, <2>2, <2>10, <2>11 DEF Works, FieldsStand, DemodStands
    <2>13. Keeps(t)'
      BY <2>7, <2>8, <2>9, <2>10, <2>11 DEF Keeps, S
    <2>14. GivesUp(t)' /\ Carries(t)' /\ ReadsFirst(t)' /\ Retunes(t)'
      BY <1>1, <1>3, <2>9, <2>10 DEF GivesUp, Carries, ReadsFirst, Retunes
    <2>15. Works(t)'
      BY <2>12, <2>13, <2>14 DEF Works
    <2> QED BY <1>1, <1>3, <2>1, <2>10, <2>15, LastingStepped
  <1> QED BY <1>5, <1>6

\* The byte composed gives the fields of the operation, the others as the shadow file.
LEMMA ComposedCarries ==
    ASSUME Inv, Lasting, NEW t \in Threads, Active(t), pc[t] = "run", todo[t] # <<>>,
           Head(todo[t]).op \in {"rmw", "wire_write"}, NEW f \in Layout[Head(todo[t]).reg]
    PROVE  Composed(t)[f] = IF f \in DOMAIN Head(todo[t]).fields THEN Head(todo[t]).fields[f]
                            ELSE shadow[Head(todo[t]).reg][f]
  <1> DEFINE operation == Head(todo[t])
             reg == operation.reg
  <1>1. /\ ThreadFits(t) /\ reg \in Registers
        /\ operation.op = "wire_write" => tuner # "R820T" /\ call[t].api # "reset_demod"
    BY AtWork, KindsTell, OperationFields
  <1>2. DOMAIN shadow[reg] = Layout[reg] /\ DOMAIN Blank[reg] = Layout[reg]
    BY <1>1, BlankFile DEF Inv, Types, RegisterFile, Byte
  <1>3. CASE operation.op = "rmw"
    <2>1. Composed(t) = Over(operation.fields, shadow[reg])
      BY <1>3 DEF Composed
    <2> QED BY <1>2, <2>1 DEF Over
  <1>4. CASE operation.op = "wire_write"
    <2>1. f \in DOMAIN operation.fields
      BY <1>4, AtWorkLasting DEF Apt
    <2>2. image[t] # <<>> => DOMAIN image[t] = Layout[reg]
      BY <1>1, <1>4 DEF ThreadFits, ImageFits, Byte
    <2>3. Composed(t) = Over(operation.fields, IF image[t] # <<>> THEN image[t] ELSE Blank[reg])
      BY <1>4 DEF Composed
    <2> QED BY <1>2, <2>1, <2>2, <2>3 DEF Over
  <1> QED BY <1>3, <1>4

\* The gate is opened for one transfer; an error of it ends an access of the R820T.
LEMMA OpenGateLasts ==
    ASSUME Inv, Lasting, NEW t \in Threads, NEW outcome \in Outcomes, OpenGate(t, outcome)
    PROVE  Lasting'
  <1> DEFINE operation == Head(todo[t])
  <1>1. /\ Active(t) /\ pc[t] = "run" /\ todo[t] # <<>>
        /\ operation.op \in {"rmw", "probe", "wire_read", "wire_write"}
        /\ WriteControl(outcome, TRUE, FALSE)
        /\ UNCHANGED <<tuner, chip, shadow, record, call, sure>>
    BY DEF OpenGate, Doing, Active, Scoped, Wired
  <1>2. demod'.ratio = demod.ratio /\ demod'.nco = demod.nco
    BY <1>1, ControlLeaves
  <1>3. Works(t) /\ (tuner = "FC0012" => record.if_offset = 0)
    BY <1>1, AtWorkLasting
  <1>4. CASE outcome = "ok" \/ Doing(t, Wired)
    <2>1. pc' = [pc EXCEPT ![t] = "xfer"] /\ UNCHANGED <<todo, failed>>
      BY <1>4 DEF OpenGate
    <2>2. pc'[t] = "xfer" /\ image'[t] = Composed(t)
      BY <2>1 DEF OpenGate, Inv, Types
    <2>3. \A p : Agreed(p) <=> Agreed(p)'
      BY <1>1 DEF Agreed
    <2>4. FieldsStand(Touches(tuner, call[t]))' /\ DemodStands(Touches(tuner, call[t]))'
      BY <1>1, <1>2, <1>3, <2>3 DEF Works, FieldsStand, DemodStands
    <2>5. Keeps(t)'
      BY <1>1, <1>3, <2>1, <2>3 DEF Works, Keeps
    <2>6. GivesUp(t)'
      BY <1>1, <1>3, <2>1 DEF Works, GivesUp
    <2>7. Carries(t)'
      <3> SUFFICES ASSUME operation.op \in {"rmw", "wire_write"}, NEW f \in Layout[operation.reg]
                   PROVE  Composed(t)[f] = IF f \in DOMAIN operation.fields THEN operation.fields[f]
                                           ELSE shadow[operation.reg][f]
        BY <1>1, <2>1, <2>2 DEF Carries
      <3> QED BY <1>1, ComposedCarries
    <2>8. ReadsFirst(t)'
      BY <1>1, <1>3, <2>1, <2>2 DEF Works, ReadsFirst
    <2>9. Retunes(t)'
      BY <1>1, <1>2, <1>3, <2>1 DEF Works, Retunes
    <2>10. Works(t)'
      BY <2>4, <2>5, <2>6, <2>7, <2>8, <2>9 DEF Works
    <2> QED BY <1>1, <1>3, <2>1, <2>10, LastingStepped
  <1>5. CASE ~(outcome = "ok" \/ Doing(t, Wired))
    <2>1. Done(t, FALSE) /\ operation.op \in Scoped
      BY <1>1, <1>5 DEF OpenGate, Doing, Scoped, Wired
    <2>2. tuner = "R820T"
      BY <1>1, <2>1, AtWork, KindsTell DEF Scoped
    <2>3. operation.op \notin {"ratio", "nco_again", "ddc"}
      BY <1>1
    <2> QED BY <1>1, <1>2, <2>1, <2>2, <2>3, QuietLasts
  <1> QED BY <1>4, <1>5
\* A transfer leaves a field that the byte written gives the same value.
LEMMA EffectSpares ==
    ASSUME Inv, NEW t \in Threads, NEW outcome \in Outcomes, NEW byte, I2cEffect(t, outcome, byte),
           NEW p \in Points, chip[p.reg][p.field] = p.value,
           Writes(t) /\ Head(todo[t]).reg = p.reg => byte[p.field] = p.value
    PROVE  chip'[p.reg][p.field] = p.value
  <1> DEFINE reg == Head(todo[t]).reg
  <1>1. DOMAIN chip = Registers /\ p.reg \in Registers
    BY DEF Inv, Types, RegisterFile, Points
  <1>2. chip' = IF Writes(t) /\ Reaches(outcome) THEN [chip EXCEPT ![reg] = byte] ELSE chip
    BY DEF I2cEffect
  <1>3. Writes(t) /\ reg = p.reg => byte[p.field] = p.value
    OBVIOUS
  <1> HIDE DEF reg
  <1>4. CASE Writes(t) /\ Reaches(outcome)
    <2>1. chip' = [chip EXCEPT ![reg] = byte]
      BY <1>2, <1>4
    <2>2. CASE p.reg = reg
      BY <1>1, <1>3, <1>4, <2>1, <2>2
    <2>3. CASE p.reg # reg
      BY <1>1, <2>1, <2>3
    <2> QED BY <2>2, <2>3
  <1> QED BY <1>2, <1>4

\* A call that holds its gate promises nothing.
LEMMA HolderPromises ==
    ASSUME NEW tun, NEW c \in Calls, NEW rec, HoldsGate(tun, c)
    PROVE  Promised(tun, c, rec) = {}
  BY DEF HoldsGate, Promised

\* The R820T's transfer inside the gate
LEMMA ScopedTransferLasts ==
    ASSUME Inv, Lasting, NEW t \in Threads, NEW outcome \in Outcomes, ScopedTransfer(t, outcome)
    PROVE  Lasting'
  <1> DEFINE operation == Head(todo[t])
             reg == operation.reg
  <1>1. /\ Active(t) /\ pc[t] = "xfer" /\ operation.op \in {"rmw", "probe"}
        /\ I2cEffect(t, outcome, image[t])
        /\ UNCHANGED <<tuner, demod, shadow, record, call, todo, image, sure>>
        /\ pc' = [pc EXCEPT ![t] = "close"]
    BY DEF ScopedTransfer, Active, Scoped
  <1>2. todo[t] # <<>>
    BY <1>1 DEF Inv, ThreadFits, TodoFits
  <1>3. /\ Works(t) /\ tuner = "R820T" /\ call[t] \in Calls
        /\ \A p \in Due(tuner, call[t], record, sure) : p \in Points /\ Spares(operation, p)
    BY <1>1, <1>2, AtWork, AtWorkLasting, KindsTell
  <1>4. Writes(t) <=> operation.op = "rmw"
    BY <1>1 DEF Writes
  <1>5. pc'[t] = "close"
    BY <1>1 DEF Inv, Types
  <1>6. ASSUME NEW p \in Due(tuner, call[t], record, sure), Agreed(p)
        PROVE  Agreed(p)'
    <2>1. p \in Points /\ Spares(operation, p)
      BY <1>3
    <2>2. chip[p.reg][p.field] = p.value /\ shadow[p.reg][p.field] = p.value
      BY <1>3, <1>6 DEF Agreed
    <2>3. ASSUME Writes(t), reg = p.reg
          PROVE  image[t][p.field] = p.value
      <3>1. operation.op = "rmw" /\ p.field \in Layout[reg]
        BY <1>4, <2>1, <2>3 DEF Points
      <3>2. image[t][p.field] = IF p.field \in DOMAIN operation.fields THEN operation.fields[p.field]
                                ELSE shadow[reg][p.field]
        BY <1>1, <1>3, <3>1 DEF Works, Carries
      <3> QED BY <2>1, <2>2, <2>3, <3>1, <3>2 DEF Spares
    <2>4. chip'[p.reg][p.field] = p.value
      BY <1>1, <2>1, <2>2, <2>3, EffectSpares
    <2> QED BY <1>1, <2>2, <2>4 DEF Agreed
  <1>7. failed[t] => HoldsGate(tuner, call[t])
    BY <1>1, <1>2, <1>3 DEF Works, GivesUp
  <1>8. FieldsStand(Touches(tuner, call[t]))'
    <2>1. \A p \in Standing(tuner, record, sure \ Touches(tuner, call[t])) : Agreed(p)
      BY <1>3 DEF Works, FieldsStand
    <2>2. \A p \in Standing(tuner, record, sure \ Touches(tuner, call[t])) : Agreed(p)'
      BY <1>6, <2>1 DEF Due
    <2> QED BY <1>1, <2>2 DEF FieldsStand
  <1>9. DemodStands(Touches(tuner, call[t]))'
    BY <1>1, <1>3 DEF Works, DemodStands
  <1>10. Keeps(t)'
    <2>1. todo[t] \in Seq(Apt(tuner, call[t], record, sure))
      BY <1>3 DEF Works, Keeps
    <2>2. ASSUME NEW p \in Promised(tuner, call[t], record)
          PROVE  Agreed(p)' \/ Awaited(p, todo[t])
      <3>1. ~failed[t]
        BY <1>3, <1>7, HolderPromises
      <3>2. Agreed(p) \/ Awaited(p, todo[t])
        BY <1>3, <3>1 DEF Works, Keeps
      <3>3. Agreed(p) => Agreed(p)'
        BY <1>6 DEF Due
      <3> QED BY <3>2, <3>3
    <2> QED BY <1>1, <2>1, <2>2 DEF Keeps
  <1>11. GivesUp(t)'
    BY <1>5 DEF GivesUp
  <1>12. Carries(t)'
    BY <1>1, <1>3 DEF Works, Carries
  <1>13. ReadsFirst(t)'
    BY <1>1, <1>3 DEF ReadsFirst
  <1>14. Retunes(t)'
    <2>1. call[t].api = "set_sample_rate" => ~failed[t]
      BY <1>7 DEF HoldsGate
    <2> QED BY <1>1, <1>3, <2>1 DEF Works, Retunes
  <1>15. Works(t)'
    BY <1>8, <1>9, <1>10, <1>11, <1>12, <1>13, <1>14 DEF Works
  <1>16. (tuner = "FC0012" => record.if_offset = 0)'
    BY <1>1, <1>3
  <1> QED BY <1>1, <1>15, <1>16, LastingStepped
\* Reads and writes, one operation on
LEMMA ReadsTail ==
    ASSUME NEW ops \in Seq(Operations), ops # <<>>, AfterReads(ops)
    PROVE  /\ AfterReads(Tail(ops))
           /\ (Tail(ops) # <<>> /\ Head(Tail(ops)).op = "wire_write") => Head(ops).op = "wire_read"
  <1> DEFINE rest == Tail(ops)
  <1>1. /\ rest \in Seq(Operations)
        /\ Len(ops) \in Nat \ {0}
        /\ Len(rest) = Len(ops) - 1
        /\ \A i \in 1..Len(rest) : rest[i] = ops[i + 1]
        /\ Head(ops) = ops[1]
    BY HeadTailProperties, EmptySeq
  <1>2. rest # <<>> => Head(rest) = rest[1] /\ Len(rest) \in Nat \ {0}
    BY <1>1, HeadTailProperties, EmptySeq
  <1> HIDE DEF rest
  <1>3. ASSUME NEW i \in 1..(Len(rest) - 1), rest[i + 1].op = "wire_write"
        PROVE  rest[i].op = "wire_read"
    <2>1. /\ i + 1 \in 1..(Len(ops) - 1) /\ rest[i] = ops[i + 1]
          /\ i + 1 \in 1..Len(rest) /\ rest[i + 1] = ops[(i + 1) + 1]
      BY <1>1
    <2> QED BY <1>3, <2>1 DEF AfterReads
  <1>4. ASSUME rest # <<>>, Head(rest).op = "wire_write"
        PROVE  Head(ops).op = "wire_read"
    <2>1. 1 \in 1..(Len(ops) - 1) /\ Head(rest) = ops[1 + 1]
      BY <1>1, <1>2, <1>4
    <2> QED BY <1>1, <1>4, <2>1 DEF AfterReads
  <1> QED BY <1>3, <1>4 DEF AfterReads, rest

\* The FC0012's transfer, whatever became of the gate
LEMMA WireTransferLasts ==
    ASSUME Inv, Lasting, NEW t \in Threads, NEW outcome \in Outcomes, WireTransfer(t, outcome)
    PROVE  Lasting'
  <1> DEFINE operation == Head(todo[t])
             reg == operation.reg
             ok == Succeeds(outcome) \/ (Writes(t) /\ operation.soft)
  <1>1. /\ Active(t) /\ pc[t] = "xfer" /\ operation.op \in {"wire_read", "wire_write"}
        /\ I2cEffect(t, outcome, image[t]) /\ Done(t, ok)
        /\ UNCHANGED <<tuner, demod, shadow, record, call, sure>>
        /\ image' = [image EXCEPT ![t] = IF Writes(t) THEN <<>> ELSE chip[reg]]
    BY DEF WireTransfer, Active, Wired
  <1>2. todo[t] # <<>> /\ ThreadFits(t)
    BY <1>1 DEF Inv, ThreadFits, TodoFits
  <1>3. /\ Works(t) /\ tuner = "FC0012" /\ call[t] \in Calls /\ todo[t] \in Seq(Operations)
        /\ record.if_offset = 0
        /\ \A p \in Due(tuner, call[t], record, sure) : p \in Points /\ Spares(operation, p)
    BY <1>1, <1>2, AtWork, AtWorkLasting, KindsTell
  <1>4. Writes(t) <=> operation.op = "wire_write"
    BY <1>1 DEF Writes
  <1>5. ASSUME Writes(t), NEW f \in Layout[reg]
        PROVE  f \in DOMAIN operation.fields /\ image[t][f] = operation.fields[f]
    <2>1. f \in DOMAIN operation.fields
      BY <1>1, <1>2, <1>4, <1>5, AtWorkLasting DEF Apt
    <2> QED BY <1>1, <1>3, <1>4, <1>5, <2>1 DEF Works, Carries
  <1>6. ASSUME NEW p \in Due(tuner, call[t], record, sure), Agreed(p)
        PROVE  Agreed(p)'
    <2>1. p \in Points /\ Spares(operation, p)
      BY <1>3
    <2>2. chip[p.reg][p.field] = p.value
      BY <1>6 DEF Agreed
    <2>3. ASSUME Writes(t), reg = p.reg
          PROVE  image[t][p.field] = p.value
      <3>1. p.field \in Layout[reg]
        BY <2>1, <2>3 DEF Points
      <3> QED BY <1>4, <1>5, <2>1, <2>3, <3>1 DEF Spares
    <2>4. chip'[p.reg][p.field] = p.value
      BY <1>1, <2>1, <2>2, <2>3, EffectSpares
    <2> QED BY <1>1, <1>3, <2>4 DEF Agreed
  <1>7. ASSUME ok, NEW p \in Promised(tuner, call[t], record), Gives(operation, p)
        PROVE  Agreed(p)'
    <2>1. Writes(t) /\ ~operation.soft /\ reg = p.reg /\ operation.fields[p.field] = p.value
      BY <1>1, <1>4, <1>7 DEF Gives
    <2>2. p.field \in Layout[reg]
      BY <1>3, <2>1 DEF Due, Points
    <2>3. image[t][p.field] = p.value
      BY <1>5, <2>1, <2>2
    <2>4. Succeeds(outcome)
      BY <1>7, <2>1
    <2>5. image[t] \in Byte(reg)
      BY <1>1, <1>2, <1>4, <2>1 DEF ThreadFits, ImageFits
    <2>6. chip'[reg] = image[t]
      BY <1>1, <1>2, <2>1, <2>4, <2>5, EffectFits
    <2> QED BY <1>1, <1>3, <2>1, <2>3, <2>6 DEF Agreed
  <1>8. ok \in BOOLEAN /\ record' = record
    BY <1>1
  <1>9. ~Writes(t) => chip' = chip
    BY <1>1 DEF I2cEffect
  <1> HIDE DEF ok
  <1>10. /\ todo'[t] = IF ok THEN Tail(todo[t]) ELSE Cleanup(t)
         /\ pc' = [pc EXCEPT ![t] = "run"]
         /\ image'[t] = IF Writes(t) THEN <<>> ELSE chip[reg]
    BY <1>1 DEF Done, Inv, Types
  <1>11. FieldsStand(Touches(tuner, call[t]))' /\ Keeps(t)' /\ GivesUp(t)' /\ Carries(t)'
    BY <1>1, <1>2, <1>6, <1>7, <1>8, Advance
  <1>12. DemodStands(Touches(tuner, call[t]))' /\ Retunes(t)'
    BY <1>1, <1>2, <1>8, DemodAdvance
  <1>13. ASSUME call[t].api = "set_gain"
         PROVE  /\ AfterReads(todo'[t])
                /\ (todo'[t] # <<>> /\ Head(todo'[t]).op = "wire_write") =>
                     image'[t] = chip'[Head(todo'[t]).reg]
    <2>1. AfterReads(todo[t])
      BY <1>3, <1>13 DEF Works, ReadsFirst
    <2>2. CASE ok
      <3>1. todo'[t] = Tail(todo[t])
        BY <1>10, <2>2
      <3>2. /\ AfterReads(Tail(todo[t]))
            /\ (Tail(todo[t]) # <<>> /\ Head(Tail(todo[t])).op = "wire_write") =>
                 operation.op = "wire_read"
        BY <1>2, <1>3, <2>1, ReadsTail
      <3>3. ASSUME operation.op = "wire_read"
            PROVE  image'[t] = chip'[Head(Tail(todo[t])).reg]
        <4>1. Head(Tail(todo[t])).reg = reg
          BY <1>1, <1>2, <3>3, AtWork
        <4>2. ~Writes(t)
          BY <1>4, <3>3
        <4>3. image'[t] = chip[reg] /\ chip' = chip
          BY <1>9, <1>10, <4>2
        <4> HIDE DEF operation
        <4> QED BY <4>1, <4>3
      <3> QED BY <3>1, <3>2, <3>3
    <2>3. CASE ~ok
      <3>1. Cleanup(t) = <<>>
        BY <1>1 DEF Cleanup
      <3>2. AfterReads(<<>>)
        BY DEF AfterReads
      <3> QED BY <1>10, <2>3, <3>1, <3>2
    <2> QED BY <2>2, <2>3
  <1>14. ReadsFirst(t)'
    BY <1>1, <1>13 DEF ReadsFirst
  <1>15. Works(t)'
    BY <1>11, <1>12, <1>14 DEF Works
  <1>16. (tuner = "FC0012" => record.if_offset = 0)'
    BY <1>1, <1>3
  <1> QED BY <1>1, <1>10, <1>15, <1>16, LastingStepped

\* The LNA override is there already, by what the read before it gave.
LEMMA SkipWireLasts ==
    ASSUME Inv, Lasting, NEW t \in Threads, SkipWire(t)
    PROVE  Lasting'
  <1> DEFINE operation == Head(todo[t])
  <1>1. /\ Active(t) /\ pc[t] = "run" /\ todo[t] # <<>> /\ operation.op = "wire_write"
        /\ call[t].api = "set_gain" /\ call[t].arg # GainAuto
        /\ operation.reg = "LNA_OVERRIDE" /\ image[t].manual = 1
        /\ Done(t, TRUE)
        /\ UNCHANGED <<tuner, demod, chip, shadow, record, call, sure>>
    BY DEF SkipWire, Doing, Active, AlreadySet, device, history
  <1>2. /\ Works(t) /\ tuner = "FC0012" /\ call[t] \in Calls /\ todo[t] \in Seq(Operations)
        /\ record.if_offset = 0
    BY <1>1, AtWork, AtWorkLasting, KindsTell
  <1>3. chip["LNA_OVERRIDE"].manual = 1 /\ AfterReads(todo[t])
    BY <1>1, <1>2 DEF Works, ReadsFirst
  <1>4. ASSUME NEW p \in Due(tuner, call[t], record, sure), Agreed(p)
        PROVE  Agreed(p)'
    BY <1>1, <1>4 DEF Agreed
  <1>5. ASSUME NEW p \in Promised(tuner, call[t], record), Gives(operation, p)
        PROVE  Agreed(p)'
    <2>1. p.reg = "LNA_OVERRIDE"
      BY <1>1, <1>5 DEF Gives
    <2>2. p \in GainPoints(tuner, call[t].arg)
      BY <1>1 DEF Promised
    <2>3. p = Point("LNA_OVERRIDE", "manual", 1)
      BY <1>1, <1>2, <2>1, <2>2 DEF GainPoints, Point
    <2> QED BY <1>1, <1>2, <1>3, <2>3 DEF Agreed, Point
  <1>6. /\ todo'[t] = Tail(todo[t]) /\ pc' = [pc EXCEPT ![t] = "run"]
    BY <1>1 DEF Done, Inv, Types
  <1>7. record' = record
    BY <1>1
  <1>8. FieldsStand(Touches(tuner, call[t]))' /\ Keeps(t)' /\ GivesUp(t)' /\ Carries(t)'
    BY <1>1, <1>4, <1>5, <1>7, Advance
  <1>9. DemodStands(Touches(tuner, call[t]))' /\ Retunes(t)'
    BY <1>1, <1>7, DemodAdvance
  <1>10. ReadsFirst(t)'
    <2>1. /\ AfterReads(Tail(todo[t]))
          /\ ~(Tail(todo[t]) # <<>> /\ Head(Tail(todo[t])).op = "wire_write")
      BY <1>1, <1>2, <1>3, ReadsTail
    <2> QED BY <1>6, <2>1 DEF ReadsFirst
  <1>11. Works(t)'
    BY <1>8, <1>9, <1>10 DEF Works
  <1>12. (tuner = "FC0012" => record.if_offset = 0)'
    BY <1>1, <1>2
  <1> QED BY <1>1, <1>6, <1>11, <1>12, LastingStepped

\* A write of a session, whose registers are those of the gain
LEMMA SessionTransferLasts ==
    ASSUME Inv, Lasting, NEW t \in Threads, NEW outcome \in Outcomes, SessionTransfer(t, outcome)
    PROVE  Lasting'
  <1> DEFINE operation == Head(todo[t])
             reg == operation.reg
             ok == Succeeds(outcome)
  <1>1. /\ Active(t) /\ pc[t] = "run" /\ todo[t] # <<>> /\ operation.op = "session_write"
        /\ I2cEffect(t, outcome, Blank[reg]) /\ Done(t, ok)
        /\ shadow' = IF ok /\ tuner = "R820T" THEN [shadow EXCEPT ![reg] = Blank[reg]] ELSE shadow
        /\ UNCHANGED <<tuner, demod, record, call, sure>>
    BY DEF SessionTransfer, Doing, Active
  <1>2. /\ call[t].api = "write_batch" /\ call[t] \in Calls /\ reg \in Registers
        /\ tuner = "FC0012" => record.if_offset = 0
        /\ \A p \in Due(tuner, call[t], record, sure) : p \in Points /\ Spares(operation, p)
    BY <1>1, AtWork, AtWorkLasting, KindsTell, OperationFields
  <1>3. ok \in BOOLEAN /\ record' = record
    BY <1>1 DEF Succeeds, Inv, Types, Demodulator
  <1>4. RegisterFile(shadow)
    BY DEF Inv, Types
  <1>5. ASSUME NEW p \in Due(tuner, call[t], record, sure), Agreed(p)
        PROVE  Agreed(p)'
    <2>1. p \in Points /\ p.reg # reg
      BY <1>1, <1>2 DEF Spares
    <2>2. chip[p.reg][p.field] = p.value
      BY <1>5 DEF Agreed
    <2>3. chip'[p.reg][p.field] = p.value
      BY <1>1, <2>1, <2>2, EffectSpares
    <2>4. p.reg \in Registers
      BY <2>1 DEF Points
    <2> HIDE DEF reg
    <2>5. shadow'[p.reg] = shadow[p.reg]
      BY <1>1, <1>4, <2>1, <2>4 DEF RegisterFile
    <2> QED BY <1>1, <1>5, <2>3, <2>5 DEF Agreed
  <1>6. \A p \in Promised(tuner, call[t], record) : Gives(operation, p) => Agreed(p)'
    BY <1>1 DEF Gives
  <1> HIDE DEF ok
  <1>7. pc' = [pc EXCEPT ![t] = "run"]
    BY <1>1 DEF Done
  <1>8. FieldsStand(Touches(tuner, call[t]))' /\ Keeps(t)' /\ GivesUp(t)' /\ Carries(t)'
    BY <1>1, <1>3, <1>5, <1>6, Advance
  <1>9. DemodStands(Touches(tuner, call[t]))' /\ Retunes(t)'
    BY <1>1, <1>3, DemodAdvance
  <1>10. ReadsFirst(t)'
    BY <1>1, <1>2 DEF ReadsFirst
  <1>11. Works(t)'
    BY <1>8, <1>9, <1>10 DEF Works
  <1>12. (tuner = "FC0012" => record.if_offset = 0)'
    BY <1>1, <1>2
  <1> QED BY <1>1, <1>7, <1>11, <1>12, LastingStepped
\* An operation of set_sample_rate on the demodulator
LEMMA RateAdvance ==
    ASSUME Inv, Lasting, NEW t \in Threads, Active(t), pc[t] = "run", todo[t] # <<>>,
           call[t].api = "set_sample_rate", Head(todo[t]).op \notin {"rmw", "wire_write"},
           NEW ok \in BOOLEAN, Done(t, ok), UNCHANGED <<tuner, chip, shadow, call, sure>>,
           record'.rate = record.rate, record'.center = record.center, record'.gain = record.gain,
           record'.if_offset = record.if_offset \/ "freq" \in Touches(tuner, call[t]),
           tuner = "FC0012" => record'.if_offset = 0,
           ok /\ ~failed[t] =>
             /\ demod'.ratio = call[t].arg \/ AwaitsRatio(Tail(todo[t]))
             /\ Len(todo[t]) \in 2..3 => demod'.nco = 0
             /\ Len(todo[t]) = 1 => demod'.nco = record'.if_offset
    PROVE  Lasting'
  <1>1. /\ Works(t) /\ todo[t] \in Seq(Operations) /\ failed[t] \in BOOLEAN
        /\ Cleanup(t) = <<>>
    BY AtWorkLasting, RateCleanup
  <1>2. /\ todo'[t] = IF ok THEN Tail(todo[t]) ELSE <<>>
        /\ failed'[t] = (failed[t] \/ ~ok)
        /\ pc' = [pc EXCEPT ![t] = "run"]
    BY <1>1 DEF Done, Inv, Types
  <1>3. Standing(tuner, record', sure \ Touches(tuner, call[t])) =
          Standing(tuner, record, sure \ Touches(tuner, call[t]))
    BY DEF Standing
  <1>4. Promised(tuner, call[t], record') = Promised(tuner, call[t], record)
        /\ Promised(tuner, call[t], record) = {}
    BY DEF Promised
  <1>5. \A p : Agreed(p) => Agreed(p)'
    BY DEF Agreed
  <1>6. FieldsStand(Touches(tuner, call[t]))' /\ Keeps(t)' /\ GivesUp(t)' /\ Carries(t)'
    BY <1>3, <1>4, <1>5, Advance
  <1>7. DemodStands(Touches(tuner, call[t]))'
    <2>1. {"rate", "nco"} \subseteq Touches(tuner, call[t])
      BY DEF Touches
    <2> QED BY <2>1 DEF DemodStands
  <1>8. ReadsFirst(t)'
    BY DEF ReadsFirst
  <1>9. Retunes(t)'
    <2>1. Trailing(todo[t]) /\ record.rate = call[t].arg
      BY <1>1 DEF Works, Retunes
    <2>2. CASE ok
      <3> DEFINE n == Len(todo[t])
                 m == Len(Tail(todo[t]))
      <3>1. /\ Trailing(Tail(todo[t])) /\ n \in Nat \ {0} /\ m = n - 1
            /\ Tail(todo[t]) = <<>> <=> n = 1
        BY <1>1, <2>1, TrailingTail
      <3>2. todo'[t] = Tail(todo[t]) /\ failed'[t] = failed[t]
        BY <1>1, <1>2, <2>2
      <3>3. ~failed[t] => /\ demod'.ratio = call[t].arg \/ AwaitsRatio(Tail(todo[t]))
                          /\ n \in 2..3 => demod'.nco = 0
                          /\ n = 1 => demod'.nco = record'.if_offset
        BY <2>2
      <3>4. m \in 1..2 => n \in 2..3
        <4> HIDE DEF n, m
        <4> QED BY <3>1
      <3>5. ~failed[t] /\ m \in 1..2 => demod'.nco = 0
        <4> HIDE DEF n, m
        <4> QED BY <3>3, <3>4
      <3> QED BY <2>1, <3>1, <3>2, <3>3, <3>5 DEF Retunes
    <2>3. CASE ~ok
      <3>1. todo'[t] = <<>> /\ failed'[t]
        BY <1>1, <1>2, <2>3
      <3>2. Trailing(<<>>)
        BY DEF Trailing
      <3> QED BY <2>1, <3>1, <3>2 DEF Retunes
    <2> QED BY <2>2, <2>3
  <1>10. Works(t)'
    BY <1>6, <1>7, <1>8, <1>9 DEF Works
  <1>11. (tuner = "FC0012" => record.if_offset = 0)'
    OBVIOUS
  <1> QED BY <1>2, <1>10, <1>11, LastingStepped

\* What Retunes says before an operation of set_sample_rate
LEMMA RateAtWork ==
    ASSUME Inv, Lasting, NEW t \in Threads, Active(t), todo[t] # <<>>,
           Head(todo[t]).op \in {"nco", "ratio", "ddc", "nco_again"}
    PROVE  /\ call[t].api = "set_sample_rate"
           /\ Len(todo[t]) \in Nat \ {0}
           /\ Head(todo[t]).op = "nco_again" <=> Len(todo[t]) = 1
           /\ (Head(todo[t]).op = "ddc" /\ Head(todo[t]).value) <=> Len(todo[t]) = 3
           /\ Head(todo[t]).op = "nco" => Len(todo[t]) > 3
           /\ (~failed[t] /\ Head(todo[t]).op # "ratio") =>
                demod.ratio = call[t].arg \/ AwaitsRatio(Tail(todo[t]))
           /\ (~failed[t] /\ Len(todo[t]) \in 1..2) => demod.nco = 0
  <1>1. /\ Works(t) /\ todo[t] \in Seq(Operations) /\ call[t].api = "set_sample_rate"
    BY AtWork, AtWorkLasting, KindsTell
  <1>2. /\ Trailing(todo[t])
        /\ ~failed[t] => /\ demod.ratio = call[t].arg \/ AwaitsRatio(todo[t])
                         /\ Len(todo[t]) \in 1..2 => demod.nco = 0
    BY <1>1 DEF Works, Retunes
  <1>3. /\ Len(todo[t]) \in Nat \ {0}
        /\ Head(todo[t]).op = "nco_again" <=> Len(todo[t]) = 1
        /\ (Head(todo[t]).op = "ddc" /\ Head(todo[t]).value) <=> Len(todo[t]) = 3
        /\ Head(todo[t]).op = "nco" => Len(todo[t]) > 3
        /\ AwaitsRatio(todo[t]) => Head(todo[t]).op = "ratio" \/ AwaitsRatio(Tail(todo[t]))
    BY <1>1, <1>2, TrailingTail
  <1> QED BY <1>1, <1>2, <1>3

\* The reset of the DDC set, which clears the NCO, and released
LEMMA ResetDdcLasts ==
    ASSUME Inv, Lasting, NEW t \in Threads, NEW outcome \in Outcomes, ResetDdc(t, outcome)
    PROVE  Lasting'
  <1> DEFINE ok == outcome = "ok"
             n == Len(todo[t])
  <1>1. /\ Active(t) /\ pc[t] = "run" /\ todo[t] # <<>> /\ Head(todo[t]).op = "ddc"
        /\ WriteControl(outcome, FALSE, Value(t)) /\ Done(t, ok)
        /\ UNCHANGED <<tuner, chip, shadow, record, call, sure>>
    BY DEF ResetDdc, Doing, Active
  <1>2. Value(t) \in BOOLEAN /\ Value(t) = Head(todo[t]).value
    BY <1>1, AtWork, OperationFields DEF Value
  <1>3. /\ call[t].api = "set_sample_rate" /\ n \in Nat \ {0, 1}
        /\ Value(t) <=> n = 3
        /\ ~failed[t] => demod.ratio = call[t].arg \/ AwaitsRatio(Tail(todo[t]))
        /\ (~failed[t] /\ n \in 1..2) => demod.nco = 0
    BY <1>1, <1>2, RateAtWork
  <1>4. /\ demod'.ratio = demod.ratio
        /\ ~Value(t) => demod'.nco = demod.nco
        /\ (Value(t) /\ outcome # "lost") => demod'.nco = 0
    BY <1>1, <1>2, ControlLeaves
  <1>5. ok /\ ~failed[t] =>
          /\ demod'.ratio = call[t].arg \/ AwaitsRatio(Tail(todo[t]))
          /\ Len(todo[t]) \in 2..3 => demod'.nco = 0
          /\ Len(todo[t]) = 1 => demod'.nco = record'.if_offset
    <2>1. ok => outcome # "lost"
      OBVIOUS
    <2> HIDE DEF ok
    <2>2. n # 1 /\ (n \in 2..3 => n = 3 \/ n \in 1..2)
      BY <1>3
    <2> HIDE DEF n
    <2>3. ok /\ ~failed[t] /\ n \in 2..3 => demod'.nco = 0
      BY <1>3, <1>4, <2>1, <2>2
    <2> QED BY <1>3, <1>4, <2>2, <2>3 DEF n
  <1>6. ok \in BOOLEAN /\ record' = record /\ (tuner = "FC0012" => record.if_offset = 0)
    BY <1>1, AtWorkLasting
  <1> HIDE DEF ok, n
  <1> QED BY <1>1, <1>3, <1>5, <1>6, RateAdvance

\* The resampler takes the ratio of the rate asked for.
LEMMA SetRatioLasts ==
    ASSUME Inv, Lasting, NEW t \in Threads, NEW outcome \in Outcomes \cup {"torn"}, SetRatio(t, outcome)
    PROVE  Lasting'
  <1> DEFINE ok == outcome = "ok"
             n == Len(todo[t])
  <1>1. /\ Active(t) /\ pc[t] = "run" /\ todo[t] # <<>> /\ Head(todo[t]).op = "ratio"
        /\ demod' = [demod EXCEPT !.ratio = CASE outcome = "lost" -> @
                                              [] outcome = "torn" -> Junk
                                              [] OTHER -> Value(t)]
        /\ Done(t, ok)
        /\ UNCHANGED <<tuner, chip, shadow, record, call, sure>>
    BY DEF SetRatio, Doing, Active, history
  <1>2. /\ call[t].api = "set_sample_rate" /\ n \in Nat \ {0, 1, 3}
        /\ (~failed[t] /\ n \in 1..2) => demod.nco = 0
    BY <1>1, RateAtWork
  <1>3. Value(t) = call[t].arg
    BY <1>1, AtWorkLasting DEF Apt, Value
  <1>4. demod'.nco = demod.nco /\ (ok => demod'.ratio = call[t].arg)
    <2>1. demod \in Demodulator
      BY DEF Inv, Types
    <2> QED BY <1>1, <1>3, <2>1 DEF Demodulator
  <1>5. ok /\ ~failed[t] =>
          /\ demod'.ratio = call[t].arg \/ AwaitsRatio(Tail(todo[t]))
          /\ Len(todo[t]) \in 2..3 => demod'.nco = 0
          /\ Len(todo[t]) = 1 => demod'.nco = record'.if_offset
    <2>1. n # 1 /\ (n \in 2..3 => n \in 1..2)
      BY <1>2
    <2> HIDE DEF n, ok
    <2>2. ~failed[t] /\ n \in 2..3 => demod'.nco = 0
      BY <1>2, <1>4, <2>1
    <2> QED BY <1>4, <2>1, <2>2 DEF n
  <1>6. ok \in BOOLEAN /\ record' = record /\ (tuner = "FC0012" => record.if_offset = 0)
    BY <1>1, AtWorkLasting
  <1> HIDE DEF ok, n
  <1> QED BY <1>1, <1>2, <1>5, <1>6, RateAdvance

\* The NCO is written: a new IF, or the recorded one once more.
LEMMA SetNcoLasts ==
    ASSUME Inv, Lasting, NEW t \in Threads, NEW outcome \in Outcomes \cup {"torn"}, SetNco(t, outcome)
    PROVE  Lasting'
  <1> DEFINE ok == outcome = "ok"
             n == Len(todo[t])
             operation == Head(todo[t])
  <1>1. /\ Active(t) /\ pc[t] = "run" /\ todo[t] # <<>> /\ operation.op \in {"nco", "nco_again"}
        /\ demod' = [demod EXCEPT !.nco = CASE outcome = "lost" -> @
                                            [] outcome = "torn" -> Junk
                                            [] OTHER -> IfTarget(t)]
        /\ record' = IF ok THEN [record EXCEPT !.if_offset = IfTarget(t)] ELSE record
        /\ Done(t, ok)
        /\ UNCHANGED <<tuner, chip, shadow, call, sure>>
    BY DEF SetNco, Doing, Active, history
  <1>2. /\ call[t].api = "set_sample_rate" /\ n \in Nat \ {0}
        /\ operation.op = "nco_again" => n = 1
        /\ operation.op = "nco" => n > 3
        /\ ~failed[t] => demod.ratio = call[t].arg \/ AwaitsRatio(Tail(todo[t]))
    BY <1>1, RateAtWork
  <1>3. record \in Tuning /\ demod \in Demodulator
    BY DEF Inv, Types
  <1>4. /\ demod'.ratio = demod.ratio /\ (ok => demod'.nco = IfTarget(t))
        /\ record'.rate = record.rate /\ record'.center = record.center /\ record'.gain = record.gain
        /\ record'.if_offset = IF ok THEN IfTarget(t) ELSE record.if_offset
    BY <1>1, <1>3 DEF Demodulator, Tuning
  <1>5. /\ operation.op = "nco_again" => IfTarget(t) = record.if_offset
        /\ operation.op = "nco" => "freq" \in Touches(tuner, call[t]) /\ tuner = "R820T"
        /\ tuner = "FC0012" => record.if_offset = 0
    BY <1>1, AtWorkLasting DEF Apt, IfTarget
  <1>6. /\ record'.if_offset = record.if_offset \/ "freq" \in Touches(tuner, call[t])
        /\ tuner = "FC0012" => record'.if_offset = 0
    BY <1>1, <1>4, <1>5
  <1>7. ok /\ ~failed[t] =>
          /\ demod'.ratio = call[t].arg \/ AwaitsRatio(Tail(todo[t]))
          /\ Len(todo[t]) \in 2..3 => demod'.nco = 0
          /\ Len(todo[t]) = 1 => demod'.nco = record'.if_offset
    <2>1. n = 1 \/ n > 3
      BY <1>1, <1>2
    <2> HIDE DEF n, ok
    <2>2. n \notin 2..3
      BY <2>1
    <2> QED BY <1>2, <1>4, <2>2 DEF n
  <1>8. ok \in BOOLEAN /\ operation.op \notin {"rmw", "wire_write"}
    BY <1>1
  <1> HIDE DEF ok, n
  <1> QED BY <1>1, <1>2, <1>4, <1>6, <1>7, <1>8, RateAdvance

\* A tuner of zero IF leaves the NCO cleared.
LEMMA SkipNcoLasts ==
    ASSUME Inv, Lasting, NEW t \in Threads, SkipNco(t)
    PROVE  Lasting'
  <1> DEFINE n == Len(todo[t])
  <1>1. /\ Active(t) /\ pc[t] = "run" /\ todo[t] # <<>> /\ Head(todo[t]).op = "nco_again"
        /\ record.if_offset = 0 /\ Done(t, TRUE)
        /\ UNCHANGED <<tuner, demod, chip, shadow, record, call, sure>>
    BY DEF SkipNco, Doing, Active, IfTarget, device, history
  <1>2. /\ call[t].api = "set_sample_rate" /\ n = 1
        /\ ~failed[t] => demod.ratio = call[t].arg \/ AwaitsRatio(Tail(todo[t]))
        /\ (~failed[t] /\ n \in 1..2) => demod.nco = 0
    BY <1>1, RateAtWork
  <1>3. ~failed[t] =>
          /\ demod'.ratio = call[t].arg \/ AwaitsRatio(Tail(todo[t]))
          /\ Len(todo[t]) \in 2..3 => demod'.nco = 0
          /\ Len(todo[t]) = 1 => demod'.nco = record'.if_offset
    <2>1. n \in 1..2 /\ n \notin 2..3
      BY <1>2
    <2> HIDE DEF n
    <2> QED BY <1>1, <1>2, <2>1 DEF n
  <1>4. record' = record
    BY <1>1
  <1> HIDE DEF n
  <1> QED BY <1>1, <1>2, <1>3, <1>4, RateAdvance

-----------------------------------------------------------------------------
(* Calls begin and end, and what lasts.                                    *)

\* A call begins with nothing failed.
Afresh == \A t \in Threads : ~Active(t) => ~failed[t]

\* A step of one thread leaves the others, and itself at work or with nothing failed.
LEMMA StepStays ==
    ASSUME Inv, NEW t \in Threads, Step(t)
    PROVE  /\ \A u \in Threads : u # t => pc'[u] = pc[u] /\ failed'[u] = failed[u]
           /\ Active(t)' \/ ~failed'[t]
  <1>1. /\ pc \in [Threads -> {"idle", "lock", "run", "xfer", "close"}]
        /\ failed \in [Threads -> BOOLEAN]
    BY DEF Inv, Types
  <1>2. ASSUME NEW p \in {"run", "xfer", "close"}, pc' = [pc EXCEPT ![t] = p],
               NEW f, failed' = [failed EXCEPT ![t] = f] \/ failed' = failed
        PROVE  /\ \A u \in Threads : u # t => pc'[u] = pc[u] /\ failed'[u] = failed[u]
               /\ Active(t)'
    <2>1. pc'[t] = p
      BY <1>1, <1>2
    <2> QED BY <1>1, <1>2, <2>1 DEF Active
  <1>3. ASSUME NEW ok, Done(t, ok)
        PROVE  /\ \A u \in Threads : u # t => pc'[u] = pc[u] /\ failed'[u] = failed[u]
               /\ Active(t)'
    <2>1. pc' = [pc EXCEPT ![t] = "run"] /\ failed' = [failed EXCEPT ![t] = failed[t] \/ ~ok]
      BY <1>1, <1>3 DEF Done
    <2> QED BY <1>2, <2>1
  <1>4. CASE Acquire(t)
    <2>1. pc' = [pc EXCEPT ![t] = "run"] /\ failed' = failed
      BY <1>4 DEF Acquire
    <2> QED BY <1>2, <2>1
  <1>5. CASE Return(t)
    <2>1. pc' = [pc EXCEPT ![t] = "idle"] /\ failed' = [failed EXCEPT ![t] = FALSE]
      BY <1>5 DEF Return
    <2> QED BY <1>1, <2>1
  <1>6. CASE SkipNco(t) \/ SkipWire(t)
    <2>1. Done(t, TRUE)
      BY <1>6 DEF SkipNco, SkipWire
    <2> QED BY <1>3, <2>1
  <1>7. ASSUME NEW outcome \in Outcomes,
               \/ SwitchGate(t, outcome) \/ ResetDdc(t, outcome) \/ Peek(t, outcome)
               \/ Poke(t, outcome) \/ OpenGate(t, outcome) \/ ScopedTransfer(t, outcome)
               \/ CloseGate(t, outcome)
               \/ \E locked \in BOOLEAN : CloseAfterProbe(t, outcome, locked)
               \/ WireTransfer(t, outcome) \/ SessionTransfer(t, outcome)
        PROVE  /\ \A u \in Threads : u # t => pc'[u] = pc[u] /\ failed'[u] = failed[u]
               /\ Active(t)'
    <2>1. CASE SwitchGate(t, outcome)
      BY <1>3, <2>1 DEF SwitchGate
    <2>2. CASE ResetDdc(t, outcome) \/ Peek(t, outcome) \/ Poke(t, outcome)
      <3>1. Done(t, outcome = "ok")
        BY <2>2 DEF ResetDdc, Peek, Poke
      <3> QED BY <1>3, <3>1
    <2>3. CASE OpenGate(t, outcome)
      <3>1. (pc' = [pc EXCEPT ![t] = "xfer"] /\ failed' = failed) \/ Done(t, FALSE)
        BY <2>3 DEF OpenGate
      <3> QED BY <1>2, <1>3, <3>1
    <2>4. CASE ScopedTransfer(t, outcome)
      <3>1. /\ pc' = [pc EXCEPT ![t] = "close"]
            /\ failed' = [failed EXCEPT ![t] = ~Succeeds(outcome)]
        BY <2>4 DEF ScopedTransfer
      <3> QED BY <1>2, <3>1
    <2>5. CASE CloseGate(t, outcome)
      BY <1>3, <2>5 DEF CloseGate
    <2>6. ASSUME NEW locked \in BOOLEAN, CloseAfterProbe(t, outcome, locked)
          PROVE  /\ \A u \in Threads : u # t => pc'[u] = pc[u] /\ failed'[u] = failed[u]
                 /\ Active(t)'
      <3>1. (pc' = [pc EXCEPT ![t] = "run"] /\ failed' = failed) \/ Done(t, locked)
        BY <2>6 DEF CloseAfterProbe
      <3> QED BY <1>2, <1>3, <3>1
    <2>7. CASE WireTransfer(t, outcome)
      BY <1>3, <2>7 DEF WireTransfer
    <2>8. CASE SessionTransfer(t, outcome)
      BY <1>3, <2>8 DEF SessionTransfer
    <2> QED BY <1>7, <2>1, <2>2, <2>3, <2>4, <2>5, <2>6, <2>7, <2>8
  <1>8. ASSUME NEW outcome \in Outcomes \cup {"torn"}, SetRatio(t, outcome) \/ SetNco(t, outcome)
        PROVE  /\ \A u \in Threads : u # t => pc'[u] = pc[u] /\ failed'[u] = failed[u]
               /\ Active(t)'
    <2>1. Done(t, outcome = "ok")
      BY <1>8 DEF SetRatio, SetNco
    <2> QED BY <1>3, <2>1
  <1> QED BY <1>4, <1>5, <1>6, <1>7, <1>8 DEF Step

\* So every call begins with nothing failed.
LEMMA NextAfresh ==
    ASSUME Inv, Afresh, [Next]_vars
    PROVE  Afresh'
  <1>1. ASSUME NEW t \in Threads, Step(t)
        PROVE  Afresh'
    <2>1. /\ \A u \in Threads : u # t => pc'[u] = pc[u] /\ failed'[u] = failed[u]
          /\ Active(t)' \/ ~failed'[t]
      BY <1>1, StepStays
    <2> QED BY <2>1 DEF Afresh, Active
  <1>2. ASSUME NEW t \in Threads, NEW c \in Calls, Invoke(t, c)
        PROVE  Afresh'
    <2>1. /\ failed' = [failed EXCEPT ![t] = FALSE]
          /\ pc' = [pc EXCEPT ![t] = IF c.api \in Locked THEN "lock" ELSE "run"]
      BY <1>2 DEF Invoke
    <2>2. failed'[t] = FALSE
          /\ \A u \in Threads : u # t => pc'[u] = pc[u] /\ failed'[u] = failed[u]
      BY <2>1 DEF Inv, Types
    <2> QED BY <2>2 DEF Afresh, Active
  <1>3. CASE UNCHANGED vars
    BY <1>3 DEF vars, thread, Afresh, Active
  <1> QED BY <1>1, <1>2, <1>3 DEF Next

\* With no thread at work, one that sets out on its program works to what is due.
LEMMA SetsOutLasts ==
    ASSUME Inv, Lasting, NEW t \in Threads, \A u \in Threads : ~Active(u), NEW c \in Calls,
           pc' = [pc EXCEPT ![t] = "run"], todo' = [todo EXCEPT ![t] = Program(c)],
           call'[t] = c, ~failed'[t], UNCHANGED <<tuner, demod, chip, shadow, sure>>,
           record' \in Tuning,
           record'.center = record.center, record'.gain = record.gain,
           record'.if_offset = record.if_offset,
           record'.rate = IF c.api = "set_sample_rate" THEN c.arg ELSE record.rate
    PROVE  Lasting'
  <1> DEFINE open == Touches(tuner, c)
             program == Program(c)
             rec == record'
  <1>1. pc'[t] = "run" /\ todo'[t] = program /\ \A u \in Threads : u # t => pc'[u] = pc[u]
    BY DEF Inv, Types
  <1>2. Active(t)' /\ \A u \in Threads : u # t => ~Active(u)'
    BY <1>1 DEF Active
  <1>3. tuner \in {"R820T", "FC0012"} /\ (tuner = "FC0012" => rec.if_offset = 0)
    BY TunerBusAssumption DEF Inv, Types, Lasting
  <1>4. FieldsStand({}) /\ DemodStands({})
    BY DEF Lasting
  <1>5. FieldsStand(Touches(tuner, call[t]))'
    <2>1. Standing(tuner, rec, sure \ open) \subseteq Standing(tuner, record, sure \ {})
      BY DEF Standing
    <2>2. \A p \in Standing(tuner, rec, sure \ open) : Agreed(p)'
      BY <1>4, <2>1 DEF FieldsStand, Agreed
    <2> QED BY <2>2 DEF FieldsStand
  <1>6. DemodStands(Touches(tuner, call[t]))'
    <2>1. c.api = "set_sample_rate" => "rate" \in open
      BY DEF Touches
    <2> QED BY <1>4, <2>1 DEF DemodStands
  <1>7. CASE c.api = "set_frequency"
    <2>1. program = IF tuner = "R820T" THEN R820tTune(c.arg, rec.if_offset) ELSE Fc0012Tune(c.arg)
      BY <1>7 DEF Program
    <2>2. /\ program \in Seq(Apt(tuner, c, rec, sure))
          /\ \A p \in Promised(tuner, c, rec) : Awaited(p, program)
      BY <1>3, <1>7, <2>1, FrequencyApt
    <2> HIDE DEF program
    <2>3. Keeps(t)'
      BY <1>1, <2>2 DEF Keeps
    <2>4. GivesUp(t)' /\ Carries(t)' /\ ReadsFirst(t)' /\ Retunes(t)'
      BY <1>1, <1>7 DEF GivesUp, Carries, ReadsFirst, Retunes
    <2> QED BY <1>2, <1>3, <1>5, <1>6, <2>3, <2>4 DEF Lasting, Works
  <1>8. CASE c.api = "set_gain"
    <2>1. program = IF tuner = "R820T" THEN R820tGain(c.arg) ELSE Fc0012Gain(c.arg)
      BY <1>8 DEF Program
    <2>2. /\ program \in Seq(Apt(tuner, c, rec, sure))
          /\ \A p \in Promised(tuner, c, rec) : Awaited(p, program)
          /\ tuner = "FC0012" => AfterReads(program) /\ Head(program).op = "wire_read"
      BY <1>3, <1>8, <2>1, GainApt
    <2> HIDE DEF program
    <2>3. Keeps(t)'
      BY <1>1, <2>2 DEF Keeps
    <2>4. GivesUp(t)' /\ Carries(t)' /\ ReadsFirst(t)' /\ Retunes(t)'
      BY <1>1, <1>8, <2>2 DEF GivesUp, Carries, ReadsFirst, Retunes
    <2> QED BY <1>2, <1>3, <1>5, <1>6, <2>3, <2>4 DEF Lasting, Works
  <1>9. CASE c.api = "set_sample_rate"
    <2>1. program = RateProgram(c.arg)
      BY <1>9 DEF Program
    <2>2. /\ program \in Seq(Apt(tuner, c, rec, sure))
          /\ Trailing(program) /\ AwaitsRatio(program)
          /\ Len(program) \notin 1..2 /\ program # <<>>
      BY <1>3, <1>9, <2>1, RateApt
    <2> HIDE DEF program
    <2>3. Promised(tuner, c, rec) = {}
      BY <1>9 DEF Promised
    <2>4. Keeps(t)'
      BY <1>1, <2>2, <2>3 DEF Keeps
    <2>5. GivesUp(t)' /\ Carries(t)' /\ ReadsFirst(t)'
      BY <1>1, <1>9 DEF GivesUp, Carries, ReadsFirst
    <2>6. Retunes(t)'
      BY <1>1, <1>9, <2>2 DEF Retunes
    <2> QED BY <1>2, <1>3, <1>5, <1>6, <2>4, <2>5, <2>6 DEF Lasting, Works
  <1>10. CASE c.api \in Unlocked
    <2>1. program \in Seq(Apt(tuner, c, rec, sure))
      BY <1>3, <1>10, UnlockedApt
    <2> HIDE DEF program
    <2>2. c.api \notin {"set_frequency", "set_gain", "set_sample_rate"}
      BY <1>10 DEF Unlocked
    <2>3. Promised(tuner, c, rec) = {}
      BY <2>2 DEF Promised
    <2>4. Keeps(t)'
      BY <1>1, <2>1, <2>3 DEF Keeps
    <2>5. GivesUp(t)' /\ Carries(t)' /\ ReadsFirst(t)' /\ Retunes(t)'
      BY <1>1, <2>2 DEF GivesUp, Carries, ReadsFirst, Retunes
    <2> QED BY <1>2, <1>3, <1>5, <1>6, <2>4, <2>5 DEF Lasting, Works
  <1> QED BY <1>7, <1>8, <1>9, <1>10, CallApis DEF Unlocked

\* The lock is taken by a thread that finds no other at work.
LEMMA AcquireLasts ==
    ASSUME Inv, Lasting, Afresh, NEW t \in Threads, Acquire(t)
    PROVE  Lasting'
  <1>1. pc[t] = "lock" /\ lock = NoThread /\ call[t] \in Calls /\ InCall(t) /\ ~Active(t)
    BY DEF Acquire, Inv, Types, Exclusive, InCall, Active
  <1>2. ASSUME NEW u \in Threads, Active(u)
        PROVE  FALSE
    <2>1. u # t /\ InCall(u)
      BY <1>1, <1>2 DEF InCall, Inv, Exclusive, Active
    <2>2. call[u].api \in Locked
      BY <1>1, <2>1 DEF Inv, Exclusive
    <2>3. lock = u
      BY <1>2, <2>2 DEF Inv, Exclusive
    <2> QED BY <1>1, <2>3, TunerBusAssumption
  <1>3. /\ pc' = [pc EXCEPT ![t] = "run"]
        /\ todo' = [todo EXCEPT ![t] = Program(call[t])]
        /\ call'[t] = call[t] /\ ~failed'[t]
        /\ UNCHANGED <<tuner, demod, chip, shadow, sure>>
    BY <1>1 DEF Acquire, Afresh, device, history
  <1>4. /\ record' \in Tuning
        /\ record'.center = record.center /\ record'.gain = record.gain
        /\ record'.if_offset = record.if_offset
        /\ record'.rate = IF call[t].api = "set_sample_rate" THEN call[t].arg ELSE record.rate
    <2>1. call[t].api = "set_sample_rate" => call[t].arg \in Rates
      BY <1>1, CallApis
    <2>2. record \in Tuning
      BY DEF Inv, Types
    <2> QED BY <2>1, <2>2 DEF Acquire, Tuning
  <1> QED BY <1>1, <1>2, <1>3, <1>4, SetsOutLasts

\* A call begins: at the lock, or with no other call under way.
LEMMA InvokeLasts ==
    ASSUME Inv, Lasting, ~UnlockedOverlap, NEW t \in Threads, NEW c \in Calls, Invoke(t, c)
    PROVE  Lasting'
  <1>1. pc[t] = "idle" /\ ~Active(t)
    BY DEF Invoke, InCall, Inv, Exclusive, Active
  <1>2. /\ call' = [call EXCEPT ![t] = c] /\ failed' = [failed EXCEPT ![t] = FALSE]
        /\ UNCHANGED <<tuner, demod, chip, shadow, record, image, sure>>
    BY DEF Invoke, device, history
  <1>3. /\ call'[t] = c /\ ~failed'[t]
        /\ \A u \in Threads : u # t => call'[u] = call[u] /\ failed'[u] = failed[u]
    BY <1>2 DEF Inv, Types
  <1>4. CASE c.api \in Locked
    <2>1. pc' = [pc EXCEPT ![t] = "lock"] /\ todo' = todo
      BY <1>4 DEF Invoke
    <2>2. /\ pc'[t] = "lock" /\ \A u \in Threads : u # t => pc'[u] = pc[u]
      BY <2>1 DEF Inv, Types
    <2>3. ~Active(t)' /\ \A u \in Threads : u # t => (Active(u)' <=> Active(u))
      BY <2>2 DEF Active
    <2>4. \A p : Agreed(p) <=> Agreed(p)'
      BY <1>2 DEF Agreed
    <2>5. (\A u \in Threads : ~Active(u))' => FieldsStand({})' /\ DemodStands({})'
      <3>1. (\A u \in Threads : ~Active(u))' => FieldsStand({}) /\ DemodStands({})
        BY <1>1, <2>3 DEF Lasting
      <3> QED BY <1>2, <2>4, <3>1 DEF FieldsStand, DemodStands
    <2>6. ASSUME NEW u \in Threads, Active(u)'
          PROVE  Works(u)'
      <3>1. u # t /\ Works(u)
        BY <2>3, <2>6 DEF Lasting
      <3>2. pc'[u] = pc[u] /\ call'[u] = call[u] /\ failed'[u] = failed[u]
        BY <1>3, <2>2, <3>1
      <3>3. FieldsStand(Touches(tuner, call[u]))' /\ DemodStands(Touches(tuner, call[u]))'
        BY <1>2, <2>4, <3>1, <3>2 DEF Works, FieldsStand, DemodStands
      <3>4. Keeps(u)'
        BY <1>2, <2>1, <2>4, <3>1, <3>2 DEF Works, Keeps
      <3>5. GivesUp(u)' /\ Carries(u)'
        BY <1>2, <2>1, <3>1, <3>2 DEF Works, GivesUp, Carries
      <3>6. ReadsFirst(u)' /\ Retunes(u)'
        BY <1>2, <2>1, <3>1, <3>2 DEF Works, ReadsFirst, Retunes
      <3> QED BY <3>3, <3>4, <3>5, <3>6 DEF Works
    <2> QED BY <1>2, <2>5, <2>6 DEF Lasting
  <1>5. CASE c.api \in Unlocked
    <2>1. c.api \notin Locked
      BY <1>5, CallKinds
    <2>2. pc' = [pc EXCEPT ![t] = "run"] /\ todo' = [todo EXCEPT ![t] = Program(c)]
      BY <2>1 DEF Invoke
    <2>3. \A u \in Threads : ~Active(u)
      BY <1>5 DEF Invoke, MayBegin, InCall, Inv, Exclusive, Active
    <2>4. c.api # "set_sample_rate" /\ record' = record /\ record \in Tuning
      BY <1>2, <2>1 DEF Locked, Inv, Types
    <2> QED BY <1>2, <1>3, <2>2, <2>3, <2>4, SetsOutLasts
  <1> QED BY <1>4, <1>5, CallKinds

\* A call returns: what it promised stands, and what it concerns only if it succeeded.
LEMMA ReturnLasts ==
    ASSUME Inv, Lasting, NEW t \in Threads, Return(t)
    PROVE  Lasting'
  <1> DEFINE c == call[t]
             open == Touches(tuner, c)
             ok == ~failed[t]
  <1>1. /\ Active(t) /\ pc[t] = "run" /\ todo[t] = <<>> /\ c \in Calls
        /\ tuner \in {"R820T", "FC0012"} /\ record \in Tuning
        /\ pc' = [pc EXCEPT ![t] = "idle"]
        /\ UNCHANGED <<tuner, demod, chip, shadow>>
    BY TunerBusAssumption DEF Return, Active, InCall, Inv, Types, device
  <1>2. \A u \in Threads : ~Active(u)'
    <2>1. pc'[t] = "idle" /\ \A u \in Threads : u # t => pc'[u] = pc[u]
      BY <1>1 DEF Inv, Types
    <2> QED BY <1>1, <2>1, Alone DEF Active
  <1>3. Works(t) /\ (tuner = "FC0012" => record.if_offset = 0)
    BY <1>1 DEF Lasting
  <1>4. /\ \A p \in Standing(tuner, record, sure \ open) : Agreed(p)
        /\ DemodStands(open)
    BY <1>3 DEF Works, FieldsStand
  <1>5. Concerns(c) = open
    BY <1>1, TouchesConcerns
  <1>6. /\ sure' = (sure \ open) \cup IF ok THEN Settles(c) ELSE {}
        /\ record' = IF ok THEN Recorded(c) ELSE record
    BY <1>5 DEF Return
  <1>7. /\ c.api = "set_gain" => open = {"gain"} /\ Settles(c) = {"gain"}
        /\ c.api = "set_frequency" => open = {"freq"} /\ Settles(c) = {"freq"}
        /\ c.api = "set_sample_rate" => Settles(c) = {"rate", "nco"}
        /\ c.api \in Unlocked => Settles(c) = {}
    BY <1>5 DEF Settles, Unlocked, Touches
  <1>8. /\ Recorded(c).rate = record.rate /\ Recorded(c).if_offset = record.if_offset
        /\ Recorded(c).gain = IF c.api = "set_gain" THEN c.arg ELSE record.gain
        /\ Recorded(c).center = IF c.api = "set_frequency" THEN c.arg ELSE record.center
    BY <1>1 DEF Recorded, Tuning
  <1>9. c.api \in {"set_frequency", "set_sample_rate", "set_gain"} \/ c.api \in Unlocked
    BY <1>1, CallApis DEF Unlocked
  <1>10. record'.rate = record.rate /\ record'.if_offset = record.if_offset
    BY <1>6, <1>8
  <1>11. ok => \A p \in Promised(tuner, c, record) : Agreed(p)
    <2>1. \A p : ~Awaited(p, <<>>)
      BY DEF Awaited
    <2> QED BY <1>1, <1>3, <2>1 DEF Works, Keeps
  <1>12. "gain" \in sure' => \A p \in GainPoints(tuner, record'.gain) : Agreed(p)
    <2>1. CASE ok /\ c.api = "set_gain"
      <3>1. record'.gain = c.arg /\ Promised(tuner, c, record) = GainPoints(tuner, c.arg)
        BY <1>6, <1>8, <2>1 DEF Promised
      <3> QED BY <1>11, <2>1, <3>1
    <2>2. CASE ~(ok /\ c.api = "set_gain")
      <3>1. record'.gain = record.gain /\ ("gain" \in sure' => "gain" \in sure \ open)
        BY <1>6, <1>7, <1>8, <1>9, <2>2
      <3> QED BY <1>4, <3>1 DEF Standing
    <2> QED BY <2>1, <2>2
  <1>13. "freq" \in sure' => \A p \in FreqPoints(record'.center, record'.if_offset) : Agreed(p)
    <2>1. CASE ok /\ c.api = "set_frequency"
      <3>1. record'.center = c.arg /\ Promised(tuner, c, record) = FreqPoints(c.arg, record.if_offset)
        BY <1>6, <1>8, <2>1 DEF Promised
      <3> QED BY <1>10, <1>11, <2>1, <3>1
    <2>2. CASE ~(ok /\ c.api = "set_frequency")
      <3>1. record'.center = record.center /\ ("freq" \in sure' => "freq" \in sure \ open)
        BY <1>6, <1>7, <1>8, <1>9, <2>2
      <3> QED BY <1>4, <1>10, <3>1 DEF Standing
    <2> QED BY <2>1, <2>2
  <1>14. FieldsStand({})'
    <2>1. \A p \in Standing(tuner, record', sure' \ {}) : Agreed(p)
      BY <1>12, <1>13 DEF Standing
    <2> QED BY <1>1, <2>1 DEF FieldsStand, Agreed
  <1>15. DemodStands({})'
    <2>1. CASE ok /\ c.api = "set_sample_rate"
      <3>1. ~AwaitsRatio(<<>>)
        BY DEF AwaitsRatio
      <3>2. demod.ratio = record.rate /\ demod.nco = record.if_offset
        BY <1>1, <1>3, <2>1, <3>1 DEF Works, Retunes
      <3> QED BY <1>1, <1>10, <3>2 DEF DemodStands
    <2>2. CASE ~(ok /\ c.api = "set_sample_rate")
      <3>1. /\ "rate" \in sure' => "rate" \in sure \ open
            /\ "nco" \in sure' => "nco" \in sure \ open
        BY <1>6, <1>7, <1>9, <2>2
      <3> QED BY <1>1, <1>4, <1>10, <3>1 DEF DemodStands
    <2> QED BY <2>1, <2>2
  <1> QED BY <1>1, <1>2, <1>3, <1>10, <1>14, <1>15 DEF Lasting

\* A device comes from its probe owing nothing but the NCO.
LEMMA InitLasts ==
    ASSUME Init
    PROVE  Lasting /\ Afresh
  <1>1. \A t \in Threads : ~Active(t) /\ ~failed[t]
    BY DEF Init, Active
  <1>2. Standing(tuner, record, sure \ {}) = {}
    BY DEF Init, Standing
  <1>3. DemodStands({})
    BY DEF Init, DemodStands
  <1>4. tuner = "FC0012" => record.if_offset = 0
    BY DEF Init
  <1> QED BY <1>1, <1>2, <1>3, <1>4 DEF Lasting, FieldsStand, Afresh

\* Every step keeps what lasts.
LEMMA NextLasts ==
    ASSUME Inv, Lasting, Afresh, ~UnlockedOverlap, [Next]_vars
    PROVE  Lasting'
  <1>1. ASSUME NEW t \in Threads, Step(t)
        PROVE  Lasting'
    <2>1. CASE Acquire(t)
      BY <2>1, AcquireLasts
    <2>2. CASE Return(t)
      BY <2>2, ReturnLasts
    <2>3. CASE SkipNco(t)
      BY <2>3, SkipNcoLasts
    <2>4. CASE SkipWire(t)
      BY <2>4, SkipWireLasts
    <2>5. ASSUME NEW outcome \in Outcomes,
                 \/ SwitchGate(t, outcome) \/ ResetDdc(t, outcome) \/ Peek(t, outcome)
                 \/ Poke(t, outcome) \/ OpenGate(t, outcome) \/ ScopedTransfer(t, outcome)
                 \/ CloseGate(t, outcome)
                 \/ \E locked \in BOOLEAN : CloseAfterProbe(t, outcome, locked)
                 \/ WireTransfer(t, outcome) \/ SessionTransfer(t, outcome)
          PROVE  Lasting'
      <3>1. CASE SwitchGate(t, outcome)
        BY <3>1, SwitchGateLasts
      <3>2. CASE ResetDdc(t, outcome)
        BY <3>2, ResetDdcLasts
      <3>3. CASE Peek(t, outcome)
        BY <3>3, PeekLasts
      <3>4. CASE Poke(t, outcome)
        BY <3>4, PokeLasts
      <3>5. CASE OpenGate(t, outcome)
        BY <3>5, OpenGateLasts
      <3>6. CASE ScopedTransfer(t, outcome)
        BY <3>6, ScopedTransferLasts
      <3>7. CASE CloseGate(t, outcome)
        BY <3>7, CloseGateLasts
      <3>8. CASE \E locked \in BOOLEAN : CloseAfterProbe(t, outcome, locked)
        BY <3>8, CloseAfterProbeLasts
      <3>9. CASE WireTransfer(t, outcome)
        BY <3>9, WireTransferLasts
      <3>10. CASE SessionTransfer(t, outcome)
        BY <3>10, SessionTransferLasts
      <3> QED BY <2>5, <3>1, <3>2, <3>3, <3>4, <3>5, <3>6, <3>7, <3>8, <3>9, <3>10
    <2>6. ASSUME NEW outcome \in Outcomes \cup {"torn"}, SetRatio(t, outcome) \/ SetNco(t, outcome)
          PROVE  Lasting'
      BY <2>6, SetRatioLasts, SetNcoLasts
    <2> QED BY <1>1, <2>1, <2>2, <2>3, <2>4, <2>5, <2>6 DEF Step
  <1>2. ASSUME NEW t \in Threads, NEW c \in Calls, Invoke(t, c)
        PROVE  Lasting'
    BY <1>2, InvokeLasts
  <1>3. CASE UNCHANGED vars
    <2>1. UNCHANGED <<tuner, demod, chip, shadow, record, call, todo, pc, image, failed, sure>>
      BY <1>3 DEF vars, device, thread, history
    <2>2. \A p : Agreed(p) <=> Agreed(p)'
      BY <2>1 DEF Agreed
    <2>3. (\A t \in Threads : ~Active(t))' => FieldsStand({})' /\ DemodStands({})'
      BY <2>1, <2>2 DEF Lasting, Active, FieldsStand, DemodStands
    <2>4. ASSUME NEW t \in Threads, Active(t)'
          PROVE  Works(t)'
      <3>1. Works(t)
        BY <2>1, <2>4 DEF Lasting, Active
      <3>2. FieldsStand(Touches(tuner, call[t]))' /\ DemodStands(Touches(tuner, call[t]))'
        BY <2>1, <2>2, <3>1 DEF Works, FieldsStand, DemodStands
      <3>3. Keeps(t)'
        BY <2>1, <2>2, <3>1 DEF Works, Keeps
      <3>4. GivesUp(t)' /\ Carries(t)' /\ ReadsFirst(t)' /\ Retunes(t)'
        BY <2>1, <3>1 DEF Works, GivesUp, Carries, ReadsFirst, Retunes
      <3> QED BY <3>2, <3>3, <3>4 DEF Works
    <2> QED BY <2>1, <2>3, <2>4 DEF Lasting
  <1> QED BY <1>1, <1>2, <1>3 DEF Next

\* What it says of a gain that was set.
LEMMA LastingGain ==
    ASSUME Inv, Lasting
    PROVE  GainStands
  <1> SUFFICES ASSUME "gain" \in sure,
                      \A t \in Threads : call[t].api \notin {"set_gain", "reset_tuner", "write_batch"}
               PROVE  IF tuner = "R820T"
                      THEN /\ \A r \in {"LNA_BIAS", "IF_STAGE"} : chip[r].gain = record.gain
                           /\ record.gain # GainAuto => chip.MIXER_DRIVE.gain = record.gain
                      ELSE /\ chip.LNA_OVERRIDE.manual = (IF record.gain = GainAuto THEN 0 ELSE 1)
                           /\ record.gain # GainAuto => chip.LNA_GAIN.gain = record.gain
    BY DEF GainStands
  <1>1. \A p \in GainPoints(tuner, record.gain) : Agreed(p)
    <2>1. CASE \A t \in Threads : ~Active(t)
      BY <2>1 DEF Lasting, FieldsStand, Standing
    <2>2. ASSUME NEW t \in Threads, Active(t)
          PROVE  \A p \in GainPoints(tuner, record.gain) : Agreed(p)
      <3>1. call[t] \in Calls /\ Works(t)
        BY <2>2 DEF Lasting, Inv, Types, Exclusive, Active
      <3>2. "gain" \notin Touches(tuner, call[t])
        BY <3>1, CallApis DEF Touches
      <3> QED BY <3>1, <3>2 DEF Works, FieldsStand, Standing
    <2> QED BY <2>1, <2>2
  <1>2. \A r, f, v : Point(r, f, v) \in GainPoints(tuner, record.gain) => chip[r][f] = v
    BY <1>1 DEF Agreed, Point
  <1>3. CASE tuner = "R820T"
    <2>1. /\ Point("LNA_BIAS", "gain", record.gain) \in GainPoints(tuner, record.gain)
          /\ Point("IF_STAGE", "gain", record.gain) \in GainPoints(tuner, record.gain)
          /\ record.gain # GainAuto =>
               Point("MIXER_DRIVE", "gain", record.gain) \in GainPoints(tuner, record.gain)
      BY <1>3 DEF GainPoints
    <2> QED BY <1>2, <1>3, <2>1
  <1>4. CASE tuner # "R820T"
    <2>1. /\ Point("LNA_OVERRIDE", "manual", IF record.gain = GainAuto THEN 0 ELSE 1)
               \in GainPoints(tuner, record.gain)
          /\ record.gain # GainAuto =>
               Point("LNA_GAIN", "gain", record.gain) \in GainPoints(tuner, record.gain)
      BY <1>4 DEF GainPoints
    <2> QED BY <1>2, <1>4, <2>1
  <1> QED BY <1>3, <1>4

\* What it says of what the device receives.
LEMMA LastingReceives ==
    ASSUME Inv, Lasting
    PROVE  ReceivesAsRecorded
  <1> SUFFICES ASSUME AtRest
               PROVE  /\ "rate" \in sure => demod.ratio = record.rate
                      /\ "nco" \in sure => demod.nco = record.if_offset
                      /\ {"freq", "nco"} \subseteq sure =>
                           chip.PLL_WORD = [freq |-> record.center, if |-> demod.nco]
    BY DEF ReceivesAsRecorded
  <1>1. \A t \in Threads : ~Active(t)
    BY DEF AtRest, InCall, Inv, Exclusive, Active
  <1>2. FieldsStand({}) /\ DemodStands({})
    BY <1>1 DEF Lasting
  <1>3. /\ "rate" \in sure => demod.ratio = record.rate
        /\ "nco" \in sure => demod.nco = record.if_offset
    BY <1>2 DEF DemodStands
  <1>4. ASSUME "freq" \in sure, "nco" \in sure
        PROVE  chip.PLL_WORD = [freq |-> record.center, if |-> demod.nco]
    <2>1. \A p \in FreqPoints(record.center, record.if_offset) : Agreed(p)
      BY <1>2, <1>4 DEF FieldsStand, Standing
    <2>2. chip["PLL_WORD"]["freq"] = record.center /\ chip["PLL_WORD"]["if"] = record.if_offset
      BY <2>1 DEF FreqPoints, Point, Agreed
    <2>3. chip["PLL_WORD"] \in [{"freq", "if"} -> Small]
      <3>1. chip["PLL_WORD"] \in Byte("PLL_WORD")
        BY RegisterNames DEF Inv, Types, RegisterFile
      <3> QED BY <3>1 DEF Byte, Layout
    <2> QED BY <1>3, <1>4, <2>2, <2>3
  <1> QED BY <1>3, <1>4

\* Where the application lets no call that takes no lock run beside another, a gain that
\* set_gain reported as set stands in the tuner's registers until the next call that is
\* about it, through whatever other calls write to the registers it shares, and through
\* their errors.
THEOREM GainAlwaysStands ==
    ASSUME ~UnlockedOverlap
    PROVE  Spec => []GainStands
  <1>1. Init => Inv /\ Lasting /\ Afresh
    BY InitFits, InitLasts
  <1>2. (Inv /\ Lasting /\ Afresh) /\ [Next]_vars => (Inv /\ Lasting /\ Afresh)'
    BY NextFits, NextLasts, NextAfresh
  <1>3. Inv /\ Lasting /\ Afresh => GainStands
    BY LastingGain
  <1> QED BY <1>1, <1>2, <1>3, PTL DEF Spec

\* And at rest the demodulator's ratio and NCO and the tuner's PLL are those of dev->tuning,
\* as far as the last calls that concern them succeeded.
THEOREM ReceivesWhatIsRecorded ==
    ASSUME ~UnlockedOverlap
    PROVE  Spec => []ReceivesAsRecorded
  <1>1. Init => Inv /\ Lasting /\ Afresh
    BY InitFits, InitLasts
  <1>2. (Inv /\ Lasting /\ Afresh) /\ [Next]_vars => (Inv /\ Lasting /\ Afresh)'
    BY NextFits, NextLasts, NextAfresh
  <1>3. Inv /\ Lasting /\ Afresh => ReceivesAsRecorded
    BY LastingReceives
  <1> QED BY <1>1, <1>2, <1>3, PTL DEF Spec

=============================================================================
