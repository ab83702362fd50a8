# libsdrgg in TLA+

Specifications of [libsdrgg](../src), a user-space driver for RTL2832U dongles
with R820T/R820T2 and FC0012 tuners: Linux usbdevfs ioctls below, a C++
streaming and configuration API above. TLC checks the modules on small
instances; TLAPS proves the ring for every size, the life of a stream for any
number of threads, the URB pipeline for any depth, the event loop for any number of
devices, the bulk endpoint for any number of threads, and the opening and closing of
devices for any number of devices and sessions. All paths below are relative to `src/`.

## The system

| Part | State | Operations | Talks to |
|---|---|---|---|
| Session API (`sdrgg_core.cpp` 126-426) | context: device table, lock, hot-plug callback; device: fd, tuner class, health | create, destroy, open, open_path (phases A-D with rollback), close, is_alive | every part below |
| Configuration API (`sdrgg_core.cpp` 428-572) | tuning context, baseband rate, gain | set_frequency, set_sample_rate, set_gain, correction, AGC | tuner and baseband, under `dev->lock` |
| Streaming engine (`sdrgg_ring.cpp` 137-360) | `stream_engine`: active, cancel_requested, reader thread; `iq_subscriber` slots, `sub_lock` | start, stop, subscribe, unsubscribe, reader thread | ring, URB pipeline |
| IQ ring (`sdrgg_ring.cpp` 33-126) | data, write_pos, per subscriber read_pos, sequence, cancel | ring_write, consumer_thread_fn | callbacks of the application |
| URB pipeline (`sdrgg_usb.cpp` 216-391) | arena of descriptors with a `submitted` flag, counters | alloc, submit, reap, cancel, free | usbdevfs |
| Event loop (`sdrgg_usb.cpp` 393-621) | epoll fd, pipe, event_running, streaming_count | one thread for all devices: reap, call back, resubmit; start, stop, add, remove | URB pipelines of all devices, ring |
| USB transport (`sdrgg_usb.cpp` 44-206) | health, error count | control and bulk transfers, claim, release | usbdevfs; calls the hot-plug callback |
| RTL2832U (`sdrgg_rtl.cpp`) | register shadow, I2C gate, rate, IF | init, I2C sessions, set_sample_rate, set_if_freq, bulk start and stop | USB transport |
| R820T (`sdrgg_r820t*.{cpp,h}`) | 27 shadow registers | init, PLL search and lock, band routing, gain, bandwidth, standby | RTL2832U I2C bridge |
| FC0012 (`sdrgg_fc0012*.{cpp,h}`) | gain state | init, divider choice, calibration, gain | RTL2832U I2C bridge |
| Recovery (`sdrgg_reset.cpp`) | - | reset of demodulator, tuner, USB, power, all | all of the above, sysfs |
| Capabilities, debug log, examples | tables, a log file | - | - |

An application thread calls the API. A stream has a *reader thread*; an R820T's
reader sets up URBs and leaves their completion to the *event loop* of the
context, which runs the callback that writes to the ring; an FC0012's reader
reads and writes to the ring itself. Each subscriber has a *consumer thread*
that copies segments out of the ring and calls the application back. The flags
`cancel`, `cancel_requested`, `active`, `health` and `event_running` are how
these threads tell each other to stop; only `sub_lock`, `ctx->lock` and
`dev->lock` exclude anybody.

What is hard here, and what makes each part correct:

* **Ring**: writer and consumers share cells without a lock. A consumer must
  only read what is published, in order, miss samples only when lapped, across
  the wrap of 32-bit positions and the end of the buffer.
* **Streaming engine**: threads are created and joined by calls that overlap.
  No thread may use the ring after it was freed (which the event loop can, see
  below), no thread may be joined twice or never, and a failure in the middle of
  `start` must leave nothing.
* **URB pipeline and event loop**: two threads and the kernel pass descriptors
  around with no lock. A descriptor must be in one place, the buffer a callback
  reads must not be the device's, order must survive errors, and the stream must
  end when all descriptors are lost.
* **Session**: partial failure and rollback, disconnects in any call, two opens of
  one device.
* **Bulk endpoint**: four calls and the reader thread switch one register on and
  off, and only some of them under a lock. The FC0012 must not be tuned while the
  endpoint flows, and must stream again afterwards; a failing bulk read must not
  lose what it has already brought; a vanished device must let everybody go.
* **Tuner bus, configuration**: several writers of one I2C gate, and records
  that must agree with the hardware; numeric edges of PLL and resampler.
* **Registers**: calls share registers and rewrite each other's bits through
  masks, from a shadow file that a failed write leaves behind. A device keeps
  what its previous user left, so opening it must write all that its tuner needs.

`PROJECT.json` lists the hazards by line with the properties that cover each.

## Modules

| Module | Models |
|---|---|
| `IqRing` | the ring: `ring_init`, `ring_write`, `consumer_thread_fn`; the owner's subscribe, cancel and join |
| `IqStream` | what the ring promises: an in-order stream, lossy for subscribers more than a ring behind |
| `IqRingProofs` | the theorems about `IqRing` |
| `Streaming` | `ring_engine::start/stop`, `sdr::subscribe/unsubscribe`, reader and consumer threads, the event loop where it writes the ring, the ring's memory |
| `StreamingProofs` | the theorems about `Streaming` |
| `UrbPipeline` | one device's URBs between kernel, reader thread and event loop |
| `UrbPipelineProofs` | the theorems about `UrbPipeline` |
| `EventLoop` | the loop of a context, its thread, lock and table, and the readers that start and stop it |
| `EventLoopProofs` | the theorems about `EventLoop` |
| `Session` | contexts, `open_path` with its rollback, `close`, `destroy`, vanishing devices, USB reset and power cycle |
| `SessionProofs` | the theorems about `Session` |
| `TunerBus` | set_frequency, set_sample_rate, set_gain, reset_demod, reset_tuner, `tuner::write_batch` down to single register transfers: I2C gate, shadow registers, DDC, records |
| `TunerBusProofs` | the theorems about `TunerBus` |
| `Tuning` | the arithmetic of those calls: resampler ratio, R820T filter and PLL, FC0012 PLL |
| `TuningProofs` | the theorems about `Tuning` |
| `BulkEndpoint` | the endpoint register between reader thread, `read_sync`, the pause of configuration calls and `close`; `bulk_read`; the report of a vanished device |
| `BulkEndpointProofs` | the theorems about `BulkEndpoint` |
| `Registers` | registers, accesses, and programs of accesses one of which may fail |
| `DemodRegisters`, `R820tRegisters`, `Fc0012Registers` | the register programs of the three chips, byte by byte |
| `Device` | one dongle: `open_path`, the configuration calls and `close`, made of those programs |
| `MCIqRing`, `MCStreaming`, `MCUrbPipeline`, `MCEventLoop`, `MCSession`, `MCTunerBus`, `MCTuning`, `MCBulkEndpoint`, `MCDevice` | instances for TLC |

`Device` composes the four register modules with `Tuning`, whose numbers they turn
into bytes. The others overlap in the code they are about but not in the question:
`Streaming`, `UrbPipeline`, `EventLoop` and `BulkEndpoint` have the reader thread as
seen from its creator, from the URBs, from the loop and from the endpoint;
`TunerBus` has the interleaving of the accesses of two calls, `Device` has what the
accesses of one call after another leave in the chips.

Operators named in a comment as *Mutant of* another are versions of it with a
plausible mistake; no specification uses them. Each property of a passing run
is violated when one of them takes the place of the original.

### IqRing

The unit is a block of bytes, and a sample is its index in the stream, so a cell
that holds `17` holds the 17th sample. `BeginWrite`, `StoreCell`, `Publish` are
`ring_write`: a `memcpy` is a series of single-cell copies in any order, the part
up to the end of the ring before the rest. `CheckCancel`, `Starve`/`Claim`/
`LapSkip`, `Nap`, `CopyCell`, `Deliver`, `Return` are one round of
`consumer_thread_fn`; the three in the middle are the outcomes of its comparison
of `write_pos` and `read_pos`. The code's data race on the cells is every
interleaving of the single copies. `write_pos` and `read_pos` are modulo
`Modulus` (2^32); the history variables `written`, `pos` and `next` are the same
positions without the wrap, and no guard looks at them except the bound.
`malloc` of a consumer's buffer succeeds here; `Streaming` has it fail.

`IqStream` has no ring and no threads. `ImplementsStream` is the refinement:
`written` is what is published, `next` a subscriber's cursor, and a consumer has
a piece in hand while its callback runs.

### Streaming

Every call is a sequence of steps with a program counter (`call[t]`); the steps
inside `sub_lock` are separate ones, so that it is the lock that makes them
atomic. Thread ids are reused after a join, as `pthread_t` values are. Allocation,
`pthread_create` and the reader's set-up fail at will; `Disconnect` happens at
any time. `ReaderSetup` to `ReaderLeaves` are the reader thread, which fills the ring
itself for an FC0012 (`use_sync`). For an R820T `LoopReaps`, `LoopChecks` and
`LoopWrites` are the event loop in `process_device_urbs`: a URB is reaped,
`cancel_requested` tested, and `async_ring_cb` writes the ring, one step each. The
reader's end takes the URBs back, where the loop may leave it waiting for one
(`ReaderHangs`, until `ReaderReleased`; `UrbPipeline` has how), and waits for the loop
if its stream is the context's last. `SharedLoop` says that another device of the
context streams all the time, so that it is not; the run has it `FALSE`. A consumer
thread is reduced to where it looks at `cancel` and where it copies and delivers a
segment; a fair one need not get any. The constant `MayOverlap` says which calls an
application lets run at the same time: nothing in the code or its documentation orders
`start` and `stop` against the other calls, and the code does not support it (both look
at `active` before any lock), so the run has them alone.

### UrbPipeline

The kernel part is written from how the code uses usbdevfs: URBs of an endpoint
complete in order, `DISCARDURB` completes one at once, `REAPURB` gives the
oldest completed URB and waits for one, `REAPURBNDELAY` does not wait. The
reader's steps follow the async branch of `reader_thread_fn` with
`urb_submit_all`, `urb_cancel_all` (which runs twice, the second time from
`urb_free`) and `event_loop_start/stop`; the loop's follow `process_device_urbs`,
entered for a ready fd or by the polling fallback. The ioctl of `urb_submit` and
its bookkeeping are two steps, and so are the test of `submitted` and the
`REAPURB` that follows it. `SharedLoop` says whether another device keeps the
loop alive before and after this one.

### EventLoop

Several devices of one context, each with an application thread that opens,
starts, stops and closes it, and the loop thread. `LockToStart` to `Unlock` are
the reader's `event_loop_start` under `ctx->lock`, in two steps because the
descriptors and `event_running` come before the thread; `AddDev`, `CountDev`,
`RemoveDev`, `UncountDev` are `event_loop_add_dev/remove_dev`, which take no lock;
`CheckLast` to `CloseEpoll` are the end of the reader and `event_loop_stop`. The
loop thread takes a batch of ready devices from the epoll set, uses each, then
takes the lock and looks at every device of the table. Its use of a device is
one step; what it does there is `UrbPipeline`. `failed` remembers that a start or
a registration did not work, which the reader does not look at. The code does
not support that one stream starts while another ends; `StartsOverlapEnds` says
whether it happens.

### Session

A session is the memory of one `sdrgg_dev_t`, from `open_path` to `free`. The
steps of `open_path` are `OpenFd` (phase A), `Claim` and `Boot` (B),
`StartTuner` (C) and `Register` (D), each with its failure; `UndoFrom` says
where `rollback_session` begins, and its steps are those of the end of `close`.
A chip is `cold` (just plugged in), `demod` (`rtl::init` was there), `tuner`
(started) or `off` (after `rtl::deinit`). `Gone` is what a descriptor leads to
when its device vanished or was reset. `usb::claim` is two steps, because other
threads run between its ioctls: `Detach` takes the interface from whoever has it, a
kernel driver or another session, and `Claim` takes it for this one. Kernel drivers
are not part of the state; one that binds again makes `ClaimFails` or `Reclaim`'s
failure happen. `disputed` has the devices of which a session lost the interface to
another's `Detach`, or did not get it back after the reset of `rtl::init`
(`sdrgg_rtl.cpp:659`) and went on; it forgets a device when all its descriptors are
closed.

### TunerBus

A call is a *program* of register operations (`R820tTune`, `RateProgram`,
`TunerProgram`, ...), run by the actions below it one control transfer at a time:
`OpenGate`, `ScopedTransfer`, `CloseGate` are `tuner::write`/`read` for the R820T,
`OpenGate` and `WireTransfer` the FC0012's `wire_write`/`wire_read`, which leave the
gate open. A transfer is done, lost, or done and reported as failed (`late`); a
register of several bytes may also be left half-written (`torn`). The gate is one
bit of demodulator register 1:01, whose every write also sets the DDC's reset bit
(`WriteControl`). Of the tuner registers there are those that several calls share
or that carry what the properties speak of, with one value for each group of
bits that is masked on its own (`Layout`). The history variables `sure`, `doubt`
and `gate_doubt` say what the last call or write left in a state that the library
itself cannot know. Left out: mode, GPIO and endpoint registers, the pause of the
bulk endpoint around a call, and the FC0012's calibration, which follows its
tuning write (they are `BulkEndpoint`'s and `Device`'s).

`set_*` hold `dev->lock`, `reset_demod`, `reset_tuner` and the
application's own `tuner::write_batch` do not. `UnlockedOverlap`
says whether such a call runs beside another.

### Tuning

One action per call and chip, from the argument to the register fields, with the
returns for what has no solution; `freq_offset_ppm` and the IF persist. TLC's
integers have 32 bits, so `Scaled` divides 64-bit products bit by bit, and rates
whose recorded value would need more than 31 bits (up to 95 below 1/64 and up to 24
below 1/128 of the crystal) are excluded by name (`TuningAssumption`). Loops of fixed
length, of `Scaled` and of the R820T's fraction word, are their rounds in a row
(`Times65536`, `ThreeBits`), so that proofs can follow them. The properties decode the fields as the chip does and
compare with what was asked for.

### BulkEndpoint

The endpoint is one register, `EPA_CTL`: `rtl::start_bulk` halts it and lets it
flow, `rtl::stop_bulk` halts it. Every write is a step that may succeed, be lost,
be done and reported as failed, or find the device gone; in that case the thread
has *noticed* it, and the store of `health` with the hot-plug callback
(`sdrgg_usb.cpp:63-71`) is its next step. `Configure` to `Unlock` are
`set_frequency` and `set_gain` under `dev->lock`, with their pause for a streaming
FC0012; `ReadSync` to `ReadReturn` are `read_sync`, whose only protection is its
test of `active`; `ReaderTop`, `ReaderRead`, `ReaderBack` are a round of the
synchronous reader, `BulkChunk` one of `usb::bulk_read`. The R820T's reader is
there for its endpoint, and for the `REAPURB` in which it may be caught while it
cancels or frees its URBs (`ReaderReaps`). `Start`, `Stop` and `Close` do not overlap each other
(`Streaming` has the calls that may). Blocks are numbered as the device hands them
over. `doubt` says that the last write of the endpoint failed, `overlapped` that a
call has begun under one that had tested `active` before and relies on it, which
the code does not keep apart; `EndpointFollowsStream` is stated until then. `exposed`
has the callers under whose pause a reader or a `read_sync` begins; `PauseHolds` is
stated for the others.

### Device and the register modules

A *program* is a sequence of accesses; each names a register, the bits it writes
and what a failure does to the rest: `stop` (the rc is returned), `go` (nobody
looks at it), `skip` (the rest of an ignored call is left out), `retry`
(`spec_usb_attach`, which resets the device and tries again). A call of `Device` is
one step, since it runs under `dev->lock` on registers nobody else writes; in it
any one access may be lost or answered too late. A failed GPIO read leaves the
byte uninitialised that is then written back (`sdrgg_rtl.cpp:513`); all zeros and
all ones stand for what it may be. `Init` has every register all zeros or all ones:
what the previous user left. The bits a masked write keeps come from the shadow
file for the R820T and from the chip otherwise (`Old`).

`Open` to `Register` are `open_path` from the boot of the demodulator on; detection
reads a chip id, for an FC0012 after a reset pulse on GPIO 4 or 7, and may fail
though the tuner is there. `Image` is what a program makes of the registers
whatever they held, and `SettingsStand` compares the memory with the images of the
calls that were made last. `luck` is how an R820T's PLL locks (at once, with more
current, never), `measured` what the FC0012's calibration reads. `AppWrite` is the
public `demod::write` used on a register of the library.

## Runs

| Run | Instance | Question |
|---|---|---|
| `ring` | one consumer, ring of 4 blocks, segments of 2, positions modulo 8, stream of 11 | does the ring implement the lossy stream, are buffers intact, does no thread get stuck |
| `streaming` | 2 callers, 2 slots, 3 thread ids, no other stream | do threads, slots, handles and memory fit together in every order of calls and failures, does every call return |
| `urb` | 3 URBs, 4 transfers, 1 error | do descriptors, buffers, order and counters survive everything, does an unplug end the stream |
| `event_loop` | 2 devices, 2 ids for loop threads | is the loop there while a stream needs it, gone afterwards, joined once; does every stop return |
| `session` | 2 USB devices, 2 slots, 3 sessions | are slots consistent, does a failed open leave nothing, does an open device keep working unless it is disputed, does destroy close everything |
| `bus` | 2 threads, 4 calls, 1 failed transfer, both tuners | do shadow, chip, demodulator and records agree, does no transfer meet a closed gate |
| `tuning` | some 320 rates, 1750 R820T and 2800 FC0012 frequencies, 3 corrections | do the register fields give what was asked for |
| `endpoint` | 2 threads, 3 calls and a close, 2 blocks, 1 failed transfer, both tuners | is no block lost, is the endpoint as the stream wants it, does a pause hold if no reader or read begins under it, does everyone get out |
| `device` | 3 boards, 3 R820T and 2 FC0012 frequencies, 5 gains, 2 rates, opened twice, 3 calls, 1 failed access | is the tuner detected and the demodulator in its mode, do settings stand, do gains add up, is a closed device quiet |
| `urb_hang`, `loop_closed`, `device_mode` | as above | a statement of a header or comment that the code does not keep (below) |

*Bounds.* A consumer does not write to the ring or to another consumer's state,
so one is enough for TLC, and the proofs have any number. Positions wrap after
two rings and the stream is longer than that, so a consumer meets the wrap at
every distance behind, including more than `Modulus`. With two slots, one of
them for the subscription that `start` makes, two callers compete for a slot,
find none, use it again, and `stop` walks over both kinds; a third thread id
lets two threads be created for one slot if the lock does not prevent it. With
three URBs one can be with the loop, one completed and one in flight; one more
transfer than URBs means that one goes round; one error loses an URB or a
submission while the device is there (once it is unplugged every submission
fails). Two devices are the first, the last and the other one of the loop; with
two thread ids a new loop can be told from the old. Two sessions can compete for
one device while a third is open on the other; a session on a device that was
unplugged keeps its slot, so two slots are too few for three sessions. Four calls
are a setting, one that shares its registers and fails half-way, a repetition and
a reset; a second error adds nothing that the first does not leave in doubt. One
rate below and one above 2 MS/s are the two branches of set_sample_rate. The grids
of `tuning` have steps that share no factor with the reference, and both sides
of every threshold; what they show is proved for every number. In `endpoint`, three calls are a start and two that meet under
it, or a read under a configuration; two transfers make a `bulk_read` that fails
half-way; with the safety properties alone TLC has also run five calls. Its
safety properties are proved without bounds. In `device` one frequency of each
board has the RF path of another than the rest, 20 MHz is below what the R820T's
dividers reach, the gains are automatic, an entry of the table, two between entries
and one above all, and the rates are one on each side of 2 MS/s; a second open finds
what the first use left. One failing access per run leaves one thing in doubt, and
the calls after it show whether it spreads. `session` and `bus` have no liveness, so their devices,
sessions and threads are interchangeable (symmetry).

*Fairness.* `IqRing`: the writer finishes a `memcpy` it has begun and consumer
threads run; whether samples arrive or anyone subscribes is open. `Streaming`:
reader, consumers, the loop within a delivery and calls under way run, but no URB has
to complete; strong fairness for a call, whose
only wait that can be enabled and disabled again is the one for `sub_lock`.
Callbacks return, as README.md 370-374 asks. `EventLoop`: readers and loop
thread run, and a thread that wants `ctx->lock` gets it if it is free again and
again (strong fairness, as for `sub_lock`); devices need not be stopped or
closed. `UrbPipeline`: reader and loop run; the device, the application and
other calls need not do anything. `BulkEndpoint`: each
thread goes on with the call it is in, and the reader with its loop (weak fairness:
nobody who has begun a call waits for a lock, and the join waits for a state that
stays); nobody has to call or to unplug.

*Deadlock* is checked except for `UrbPipeline`, where a stream that has ended
leaves nothing to do (and where `urb_hang` shows one that never ends), and for
`TunerBus`, `BulkEndpoint` and `Device`, where the application makes a bounded number
of calls.

## What the code does not keep

* `urb_hang`. "They should return quickly after DISCARDURB" (`sdrgg_usb.cpp:344`). If
  the event loop is still draining, it can take the URB that `urb_cancel_all`
  waits for; the reader, and the `stop` or `close` that joins it, then wait until the
  device is unplugged. `CallsReturn` of `Streaming` and `NothingStuck` of
  `BulkEndpoint` are about all other waits and allow this one.
* `loop_closed`. "Hold ctx->lock to prevent sdrgg_close from freeing a device"
  (`sdrgg_usb.cpp:518`). The polling round does (`PolledDevicesLive`), the events
  above it are served without.
* `device_mode`. "Re-writing these before every tune ensures correct mode regardless
  of device open order" (`sdrgg_fc0012.cpp:540`, and `CHANGELOG.md:18`). Two of the
  three writes go to `demod::write` with block 1, which is the USB block, so they
  reach USB registers 0xB1 and 0x15 instead of page 1 of the demodulator.

`StreamsHaveLoop` is stated until a start or a registration fails: after that
`event_loop_remove_dev`, which counts down also for a device that was never
counted (`sdrgg_usb.cpp:616`), stops the loop under the other stream.

Other outcomes were seen and have no run. Three more statements are not kept,
each seen in the module that has the code:

* "This prevents double-join" (`sdrgg_usb.cpp:572`). `event_loop_stop` exchanges
  `event_running` and then joins `event_thread`, with no lock; a stream that starts
  in between makes a new loop, and the old reader joins that one (`EventLoop` with
  `StartsOverlapEnds = TRUE` violates `LoopJoinedOnce`).
* "The library re-programs the IF NCO after every DDC reset" (`README.md:538`).
  `set_sample_rate` does; `reset_demod` (`sdrgg_reset.cpp:50`) does not, and an R820T
  then stays off its IF until the next `set_sample_rate`.
* For the FC0012 "the gate is opened once during init and stays open"
  (`sdrgg_fc0012.cpp:86`; `sdrgg_core.cpp:328` says that otherwise the tuner loses its
  state while streaming). The DDC reset of `set_sample_rate` writes 0x14, then 0x10
  to the register of the gate (`sdrgg_rtl.cpp:827-831`), and so closes it.

In the ring and the streaming engine: `sequence` is "for drop detection"
(`sdrgg.h:66`, used so in `examples/multi_device_reliability.cpp:126`), but counts
delivered buffers (`sdrgg_ring.cpp:118`) and never has a gap. If the writer comes
round while a consumer copies, it gets samples of two rounds in one buffer;
`IntactUnlessOverrun` is what does hold. `sub_lock` "protects
subscribe/unsubscribe" (`sdrgg_internal.h:207`), but the join is outside it
(`sdrgg_ring.cpp:284`): with `{"stop", "unsubscribe"}` in `MayOverlap`, `stop` and
the owner of a handle both join one thread.

In `TunerBus` with `UnlockedOverlap = TRUE`: `reset_demod` reads 1:01, a
`set_frequency` opens the gate, `reset_demod` writes what it had read and closes
it under the transfer (`GateServesI2c`); `reset_tuner` re-initialises an FC0012
under a `set_gain` (`GainStands`); and it writes back a shadow register that
`set_gain` has replaced meanwhile (`ShadowIsChip`). Without any overlap an
FC0012's `reset_tuner` loses frequency and gain although both stay recorded, and
a rate of 2 MS/s or more changes the IF, so an R820T tuned before is off by the
difference until the next `set_frequency` (`examples/device_reset.cpp:75` calls
them in that order); no later lower rate brings back the default IF that the
comment at `sdrgg_rtl.cpp:806` says it keeps. `ReceivesAsRecorded` counts a
frequency as sure only after the call that sets it, and an IF only until a DDC
reset that is not followed by a new one.

In `Tuning`, with the crystal uncorrected: `set_sample_rate(225000)`, the lowest
rate its guard accepts, and `set_sample_rate(450000)` divide by zero
(`sdrgg_rtl.cpp:801`), since no bit of the ratio is left after the mask. Other
rates from 300001 to 900000 return OK and a rate that is not the one asked for
(400000 gives 3600000, 500000 gives 236842). The R820T advertises 24 MHz
(`README.md:489`), but with the IF of 3.57 MHz everything below 24.087 MHz, and
with 1.815 MHz below 25.842 MHz, is `ERR_PLL`. The FC0012's 948.6 MHz is
`ERR_PARAM`, 948.599 MHz is not. No call checks the range of a frequency: the FC0012's
dividers are bytes that wrap below 225 kHz and from 1812.6 MHz on, where `set_frequency`
may return OK for a frequency that no dividers make (0 Hz, 1820 MHz). Around the spurs the R820T's LO is up to 1/64 of
the reference away at the VCO, while `actual_hz` repeats the request. The
correction enters the resampler and the R820T, not the NCO and the FC0012.

In `Streaming` with `SharedLoop = TRUE`: "the USB reader thread writes IQ data into
the ring" (`sdrgg_internal.h:181`), but for an R820T the event loop does
(`sdrgg_ring.cpp:133`, called at `sdrgg_usb.cpp:427`), and the reader only waits for
the loop if no other device streams (`sdrgg_ring.cpp:214`). The loop tests
`cancel_requested` (`sdrgg_usb.cpp:412`); the reader ends, and `stop`
(`sdrgg_ring.cpp:357`), or `start` after its first subscription failed (334), frees the
ring; the loop goes on into `ring_write`. So `RingOutlivesThreads` is stated for the
loop only if the device streams alone.

In `Session`: `usb::claim` is commented to "detach kernel driver if attached"
(`sdrgg_usb.cpp:182`). `USBDEVFS_GETDRIVER` also answers for an interface that another
descriptor has claimed, and `USBDEVFS_DISCONNECT` takes it away; so a second open of an
open device does not return `ERR_BUSY`, it succeeds and boots the chip under the first,
or rolls back and switches it off. Also, one thread's `rtl::init` resets the device and
loses the interface, a second thread claims and starts it, the first goes on and boots
the chip under it. Both make the device `disputed`. What `OpenDeviceWorks` does say of
two opens of one device is that, where both have detached what there was before either
claims, the one that comes too late rolls back and leaves the other's chip alone.

Besides, `reset_full` "stops at the first failure"
(`sdrgg_reset.cpp:259`) but always reaches the USB reset, and `rtl::deinit`
writes the 0x20 that the comment above it says not to write
(`sdrgg_rtl.cpp:755-772`). In `UrbPipeline`: with the loop between the ioctl and
the flag of a resubmission for as long as the reader cancels, `urb_free` frees a
buffer the device may fill. With `SharedLoop = TRUE` the loop may reap an URB
before the reader has set its flag: the flag stays set for an URB that nobody has,
and `urb_cancel_all` leaves it out of its count.

In `BulkEndpoint`, where calls overlap: a stream that starts under a `read_sync` of
another thread is halted by the end of that `read_sync`, and an FC0012's reader then
only sees timeouts. `start` sets `active` before its reader switches the endpoint on
(`sdrgg_ring.cpp:316`, 151), which takes no `dev->lock`; a `set_frequency` that pauses in
between is not alone, and the FC0012 is tuned while the endpoint flows, against
`CHANGELOG.md:72`. A `read_sync` that tested `active` before the `start` does the same.
A pause whose write fails is not noticed (`sdrgg_core.cpp:447`), and the FC0012 is tuned
nevertheless. `PauseHolds` is stated for the other pauses. Without any overlap, an FC0012's endpoint flows on after `stop`, and the I2C transfers with
which `close` ends (`fc0012::set_auto_gain`) meet it, though `sdrgg_core.cpp:394-397`
says that streaming is stopped before. The hot-plug callback may be called by two
threads for one device, and `SDRGG_EVENT_RECONNECT` never.

In `Device`: the R820T's detector threshold is written as 0x24 through the mask 0xF8
and so loses its bit 2; bit 4 of the mixer's register is set by automatic and
by manual gain; the gain table of the core jumps over the pair (14, 14), 48.3 dB,
and the capability table advertises 33.6 and 15.1 dB where the steps sum to 33.5 and
16.1. A `rtl::init` that fails leaves the chip powered, an R820T whose startup fails
is left without standby, and a `set_sample_rate` that fails between its two writes to
1:01 leaves the DDC in reset.

## Proofs

`IqRingProofs` holds for every number of consumers, ring size, segment size,
width of the positions that is a multiple of the ring, set of write lengths up to
the ring's size and length of the stream (`IqRingAssumption`):

* `TypeCorrect`: `TypeOK`, with the strengthening that a write in progress stays
  within the bound.
* `OnlyPublishedRead`, `LossOnlyByLapping`: from the invariant `Positions`, that
  `write_pos` and `read_pos` are the unbounded positions modulo `Modulus`. It is
  needed because the code only has the reduced ones: the distance a consumer
  computes (`AvailDistance`) is the real one or, after a stall of `Modulus`,
  shorter, and in both cases it leads to published samples.
* `RingImplementsStream`: initial states map to initial states, and each step to
  a step of `IqStream` or a stutter, under `TypeOK` and `Positions`.
* `RingContents`, `SegmentsIntact`: from the invariant `Contents`. It says of every
  index of the last ring which the write in progress has not still to store that
  its cell holds it, and of every copy under way that has not been overrun that
  what it copied is right. Neither property is inductive by itself: the first
  needs the offsets not stored yet, the second the cells the copy will still
  read.

The lemmas `RemainderUnique` to `ModNested` are the facts about `%` that the SMT solver
does not find by itself: uniqueness of quotient and remainder, shifts by a multiple,
nested moduli.

`BulkEndpointProofs` holds for any set of callers, any bounds on blocks, transfers,
calls and failures, and both tuners (`BulkEndpointAssumption`):

* `ReportsPerThreadHolds`, from `ReportInv`. What the property says of `reported` is
  not inductive, because a thread that has noticed the loss will report it whatever
  the others do meanwhile; the invariant adds that it has not reported before and
  that a thread only notices while `health` is still OK, which its own report ends.
* `PauseAlwaysHolds`, from `PauseInv`. A pause whose own write did not fail, and under
  which no reader and no `read_sync` begins (`exposed` has the others), keeps the
  endpoint halted while the FC0012 is tuned, whatever failed or overlapped before. That
  needs to know that nobody else can let it flow: the other callers between pause
  and resume, who would need the lock (`LockIsHeld`, `PauseIsLocked`), and reader and
  `read_sync`, which are past their start of the endpoint (`NoStarter`). Steps that leave lock, pause and endpoint alone are taken
  together (`Quiet`).
* `BlocksAlwaysAccounted`, from `BlockInv`. A caller throws its buffer away when
  `bulk_read` reports an error: that loses nothing because a buffer with blocks is
  never reported as one (`ResultFits`), and a buffer that is reset at the beginning of
  a read was empty (`BufferFits`). That the ring ascends needs what the reader holds to
  be newer than the ring although callers of `read_sync` take blocks in between
  (`ReaderFits`). The property is stated with sets and not with a sum of lengths, of
  which, a fold, the provers know nothing; it is as strong.
* `EndpointAlwaysFollows`, from `FollowInv`, which says at every moment, and not only
  when no write is pending, for whom the endpoint flows: `FlowsForSomebody` and
  `FlowsForStream` for the R820T, `FlowsUnlessPaused` for the FC0012, `HaltedIfClosed`.
  `Roles` has the places that threads may be in together: no caller at the endpoint
  during a stream unless calls overlapped, one closer alone, and the reader gone once
  that closer has joined it.

`StreamingProofs` holds for any callers, thread ids and number of slots
(`StreamingAssumption`), under the hypothesis `StartStopAlone`: the application makes no
other call on the device during `start` and `stop`. The code needs it, because the two
look at `active` and change it without a lock; the run's instance satisfies it.
Subscribers come and go side by side. The part of `RingIsThere` about the event loop has
`~SharedLoop` in the property, without which it is not true (above): only if no other
device of the context streams does the reader's end wait for the loop that writes the
ring. `LoopFits` says so at every step: while the loop is at a URB of this device, the
reader is there. `ThreadsJoinedOnce`, `RingIsThere`, `SlotsServe`
and `StoppedIsQuiet` follow from one invariant `Inv`; none of the four is inductive
without the others:

* `SlotsFit`: threads and started slots point at each other. A joined thread's id is
  used again, so this is what makes the slot's thread its own.
* `PickedIsFree`, `EndedIsActive`, `EndedByOne`, `ActiveIsServed`, `HandlesFit`: whose a
  slot is, of the `subscribe` that fills it under `sub_lock`, the one `unsubscribe` that
  ends it, or the handle it was given out as. `unsubscribe` joins outside the lock, so
  it is the last two, and not the lock, that keep two callers from one thread.
* `Resting`, `Starts`, `Stops`: what there is of ring, reader and subscriptions at rest
  and at each step of `start` and `stop`; in the loop of `stop`, that the slots behind
  its index are free.

The lemmas `GotoMoves` to `SlotTakenBack` say once what a step writes to a record;
`StepTellsCall` and `OneIsAlone` which call a step belongs to. Two fields of a record
are updated by `[@ EXCEPT !.a = ..., !.b = ...]` in `Streaming`: from two paths
`![x].a`, `![x].b` in one `EXCEPT` the SMT backend of TLAPS 1.4.5 derives a
contradiction, and a proof by it would show nothing.

`UrbPipelineProofs` holds for any depth and any bounds (`UrbPipelineAssumption`), with
and without other devices on the loop. `SubmitsOnce` and `DeliversInOrder` follow from
one invariant `Inv`, kept by every step of kernel, reader and loop:

* `Distinct`, `HandFits`, `GivenFits`: the kernel has no URB twice, nor the one the loop
  has in hand; and neither has one that the reader has still to submit. The last is
  what lets the loop resubmit while `urb_submit_all` is not through.
* `CountFits`: `submitted` is what the kernel has, less the submissions not counted yet,
  plus one at most: the ioctl comes before the count, so a reap in between finds zero
  and stays at zero. With the pigeonhole principle (`KernelBounded`) this bounds
  `submitted` for any depth.
* `Increasing`, `NoneDelivered`, `NextInHand`: completions with data are in order and
  newer than what was delivered, and the loop's own is between the two.

`Leaves`, `Arrives` and `Reaps` describe by indices what `Tail`, `RemoveAt` and `Append` do
to the kernel's two sequences, and the lemmas `KernelCompletes` to `KernelGives` what
follows for the URBs the kernel has; the actions only use these. `Discard` takes an URB
out by its index: of `SelectSeq`, which `Remove` is defined by, the provers know nothing.

`EventLoopProofs` holds for any finite set of devices and any thread ids
(`EventLoopAssumption`). `PollsLiveDevices` needs nothing of the application: the
invariant `Inv` says who holds `ctx->lock` (`LockHeld`), that the devices still to be
polled are in the table (`PollFits`), and that a device in the table is not freed
(`AppsFit`). `JoinsLoopOnce` and `LoopServesStreams` have the hypothesis that
`StartsOverlapEnds` is false, which the run's instance satisfies; without it they are
not true (`StartsOverlapEnds` above). They follow from `LoopInv`, which adds to `Inv`

* `Apart`, `EndsForCause`: no reader starts while another ends, and a reader on its way
  out has a reason to end. This is how the hypothesis, which restricts the application,
  comes to bear on the readers.
* `StopFits`, `ThreadFits`: once the exchange has cleared `event_running` it stays clear
  until that reader is through, so there is one reader that stops the loop; and there is
  no loop thread but `event_thread`, while the loop runs or is to be joined.
* `RunFits`: a running loop has a reader that will stop it. The last to look at
  `streaming_count` finds zero because the count never exceeds the readers still to
  count down (`CountFits`): it may fall short of them after a failed registration, which
  is why it is an equation only in `Served`, as long as nothing has failed.

`SessionProofs` holds for any USB devices and sessions and any number of slots
(`SessionAssumption`): `SlotsAlwaysAgree`, `NothingIsLeft` and `OpenDevicesWork`, from
one invariant, since none of the three is inductive alone. It adds to them

* `PhasesFit`: no session outlives its context, and while `destroy` runs a session is
  ending or still waits for `destroy` to come to it. Without it, freeing the context
  could leave a session with a slot of a table that is gone.
* `ClaimsHeld`: whoever may write to a chip, from the claim to the release and not
  only while the device is open, has the claim, unless the device is disputed. It is
  what keeps a second session on the same dongle, in its rollback, from the tuner of the
  first.
* `Started`: from phase C on the tuner of the session's dongle is started.

`ClaimsHeld` and `Started` leave out disputed devices, as `OpenDeviceWorks` does: a second
open takes the interface of the first, and after the reset of a failed boot the code
claims again without a look at the result. A dispute ends with the last descriptor, so
the next session on the device has them again.
`FreeSlot` shows that the slot `open_path` takes is in the table and free; the least
free slot exists by `LeastElement`, which `StreamingProofs` has as well: a non-empty set
of numbers up to `n` has a least one, by the well-foundedness of strict inclusion among
finite sets.

`TunerBusProofs` holds for any threads, frequencies, rates and gains, for either tuner,
and for any number of calls and errors (`TunerBusAssumption`), under the hypothesis that
`UnlockedOverlap` is false, which the run's instance satisfies; with it true none of
`ShadowIsChip`, `GateServesI2c` and `GainStands` holds (see above). `ShadowFollowsChip` and
`GateAlwaysServes` follow from one invariant `Inv`:

* `Exclusive`: one thread at most is at work, the holder of `dev->lock` or a caller of an
  unlocked call. It lets everything else be said of that one thread.
* `Fits`: what may be left of its call: operations of the kinds its program has, a read
  of the FC0012 before the write of the same register, and, where the call holds the
  gate, its closing at the end. `ProgramFits` shows it for every program and
  `CleanupFits` for what a failed one leaves; the proofs of the steps unroll no program.
* `ImageFits`: the byte composed belongs to the register it will be written to;
  `PokeFits`: `reset_demod` writes back the gate that it read. These two are what another
  thread at work would break.
* `CloseFits`, `ChipFits`: between transfer and gate closing the chip is ahead of the
  shadow file, by the byte in hand and in that register only, unless the write failed and
  the register is in doubt.
* `GateFits`: the gate is open around a transfer, and the R820T's only then or within a
  call that holds it. `Rest` is what all this comes to with no thread at work.

`GainAlwaysStands` and `ReceivesWhatIsRecorded` speak of what a call has done when it is
through, and need beside `Inv` a second invariant, `Lasting`. A `Point` is a value that a
field of a register is to hold; `Standing` has the points of the records that finished
calls made sure, but for what the call under way concerns, `Promised` those it will have
brought about, and `Due` both.

* `FieldsStand`, `DemodStands`: what stands, stands now, not only at rest. A field is
  `Agreed` when the R820T's shadow file has it too: a read-modify-write by another call
  puts back what the shadow file says, so the chip alone would not last.
* `Keeps`: the operations left are `Apt`, that is they spare each point due (a field of
  it they give has its value, or is not given), and each point promised is agreed or
  awaited from an operation left, unless one has failed. `FrequencyApt`, `GainApt`,
  `RateApt` and `UnlockedApt` show it for every program when a call sets out, and
  `AptTail`, `AptCleanup` and `Advance` once for all actions that finish an operation.
* `GivesUp`: after an error nothing is left but the closing of a gate, so a call that
  succeeds has had no error. `Afresh`: it began without one.
* `Carries`: the byte on its way has the operation's fields, and the shadow file's for
  the rest. `ReadsFirst`: the FC0012's has been read from the register it is written to,
  which is what makes leaving out a write of the LNA override harmless (`SkipWireLasts`).
* `Retunes`, `Trailing`: the order at the end of `set_sample_rate`. The reset of the DDC
  clears the NCO, the recorded IF is written after it and last, and an IF that the
  bandwidth has changed is written before; so the NCO is 0 in between and is the
  recorded IF at the end, without a transfer where that is 0.

TLC found no state of the run's instance with three calls and two errors (1.4 million)
that violates `Lasting` or `Afresh`; no run repeats this, for the theorems cover it.

`TuningProofs` holds for any set of rates, of corrections within 1000 ppm (those of
crystals; the code takes any) and of frequencies to 4.29 GHz, as far as 32 bits of Hz hold
the LO (`TuningAssumption`): `RatesAsRequested`, `FiltersCoverRate`,
`PllsHitTarget` and `AllDividersHitTarget`. An answer is computed in one step, so the
invariant is only `Ranges`, the range of the correction and an IF that is one; the rest is
arithmetic.

* `ScaledDivides`: the bits of `Scaled` are quotient and remainder of the 64-bit product.
  With `RateTaken`: the two divisions one after the other, two bits lost in between, give
  the rate or one more.
* `NarrowestExists`, `FilterCovers`: the `CHOOSE` of the table has something to choose.
* `DividersMakeRatio`, `DividersHit`: borrow, overflow and the bytes leave eight times the
  quotient plus the remainder what it was, where they do not wrap.
* `SdmFits`: the word of 15 halvings, each cut to an integer, is the fraction within what
  the cuts lose (`PartRounded`, `AllLost`), for each of the 58 references a correction can
  make; `WordDecoded` that the chip's multiplication loses no more than 8 kHz of it.
* `CandidatesFit`: there is one candidate at most, so `Best` has no choice to make; its
  quotient is in 30 to 61. `SpursMissed` says what the detours of `Normalized` cost.

Only model-checked: `Device`, and all liveness (`ThreadsEnd`, `BacklogIsDelivered`,
`CallsReturn`, `UnplugEndsStream`, `StopsReturn`, `NothingStuck`), which is beyond the
prover. The four invariants of `Device` (`ModeFitsTuner`, `SettingsStand`, `GainAddsUp`,
`ClosedIsQuiet`) compare memories that recursive functions compute from register programs
(`Run` over the accesses, `Image` by the last access to a bit, `Rest` by `SelectSeq`,
`Number` over the bits). What these compute is an induction over the program or a matter
of evaluating it, with bytes written in hexadecimal, of which the provers know nothing; TLC
evaluates every program of the run with every access failing. What can be said of the
order of the accesses alone, that other calls' writes and failures disturb nothing that was
set, is proved of `TunerBus` (`GainAlwaysStands`).

## Not modelled

* Sysfs enumeration and open by index, the debug log and the examples: I/O.
* The capability tables and the calls that only read records or constant tables.
* `demod::read`, `read_bulk`, `tuner::read_batch` and the signal queries of the R820T,
  which change nothing but the gate (as `write_batch` does in `TunerBus`), and
  `demod::write_bulk`, a series of the single writes that `Device` has.
* `reset_full` (`sdrgg_reset.cpp:259`), which only calls the other resets in turn; the
  resets are `TunerBus`'s and `Session`'s, not `Device`'s.
* Retries within one USB transfer: a transfer is what its last try did.
* Calls on a context that is being destroyed, and `start` and `stop` of one device
  that overlap: the code has no lock for them.
* The 250-line `#if 0` block of `sdrgg_core.cpp` (595-724), which is not compiled.

## Plan

What is left: `destroy` beside open devices with streams (`Session` with `EventLoop`),
and an abstract device, a record of settings, that `Device` implements.
