----------------------------- MODULE UrbPipeline -----------------------------
(***************************************************************************)
(* Asynchronous streaming of one device (src/sdrgg_usb.cpp, sub-layer 2,   *)
(* and the async branch of reader_thread_fn in src/sdrgg_ring.cpp): the    *)
(* reader thread submits an arena of URBs and later cancels and frees it;  *)
(* the event loop thread of the context reaps completed URBs, calls back   *)
(* and submits them again; the kernel completes them.  Neither thread      *)
(* holds a lock over the arena, so every step of one may fall between two  *)
(* of the other.                                                           *)
(*                                                                         *)
(* The kernel is modelled from how the code uses usbdevfs: URBs of one     *)
(* endpoint complete in the order of submission, DISCARDURB completes one  *)
(* at once, REAPURB returns the oldest completed URB and waits when there  *)
(* is none (until the device is gone), REAPURBNDELAY does not wait.        *)
(*                                                                         *)
(* Bound: MaxTransfers caps the transfers that complete with data, and     *)
(* MaxErrors the failed transfers and submissions of a device that is      *)
(* plugged.                                                                *)
(***************************************************************************)
EXTENDS Integers, Sequences, FiniteSets, SequencesExt

CONSTANTS
    Depth,         \* arena_depth, SDRGG_STREAM_BUF_COUNT
    SharedLoop,    \* TRUE: another device keeps the event loop running
    MaxTransfers,  \* bound
    MaxErrors      \* bound

ASSUME UrbPipelineAssumption ==
    /\ Depth \in Nat \ {0}
    /\ SharedLoop \in BOOLEAN
    /\ MaxTransfers \in Nat /\ MaxErrors \in Nat

Urbs == 1..Depth

VARIABLES
    inflight,          \* kernel: URBs submitted and not completed, in order
    completed,         \* kernel: completed URBs, in order, not reaped
    plugged,           \* the device is there
    arena,             \* pipeline.arena: "none", "live" or "freed"
    flag,              \* u->submitted of each URB
    submitted,         \* pipeline.submitted
    cancel_requested,  \* stream.cancel_requested
    health,            \* dev->health
    registered,        \* the fd is in the epoll set
    running,           \* this reader has started the event loop
    reader,            \* the reader thread: pc, and the URB index it is at
    loop,              \* the event loop in process_device_urbs: pc, and its URB
    transfers,         \* history: transfers completed with data so far
    delivered,         \* history: the last transfer given to the callback
    errors             \* bound: failures so far

kernel == <<inflight, completed, plugged, transfers>>
pipeline == <<arena, flag, submitted>>
epoll == <<registered, running>>
vars == <<kernel, pipeline, cancel_requested, health, epoll, reader, loop,
          delivered, errors>>

NoTransfer == 0
Done(u, n) == [urb |-> u, transfer |-> n]

Init ==
    /\ inflight = <<>>
    /\ completed = <<>>
    /\ plugged = TRUE
    /\ arena = "none"
    /\ flag = [u \in Urbs |-> FALSE]
    /\ submitted = 0
    /\ cancel_requested = FALSE
    /\ health = "OK"
    /\ registered = FALSE
    /\ running = FALSE
    /\ reader = [pc |-> "alloc", i |-> 1]
    /\ loop = [pc |-> "wait", u |-> 1, transfer |-> NoTransfer]
    /\ transfers = 0
    /\ delivered = 0
    /\ errors = 0

-----------------------------------------------------------------------------
(* The kernel and the device.                                              *)

\* The oldest URB completes with data.
Complete ==
    /\ inflight # <<>>
    /\ transfers < MaxTransfers
    /\ transfers' = transfers + 1
    /\ completed' = Append(completed, Done(Head(inflight), transfers + 1))
    /\ inflight' = Tail(inflight)
    /\ UNCHANGED <<plugged, pipeline, cancel_requested, health, epoll, reader, loop,
                   delivered, errors>>

\* It completes with an error (a stall) or with no data.
CompleteBadly ==
    /\ inflight # <<>>
    /\ errors < MaxErrors
    /\ errors' = errors + 1
    /\ completed' = Append(completed, Done(Head(inflight), NoTransfer))
    /\ inflight' = Tail(inflight)
    /\ UNCHANGED <<plugged, transfers, pipeline, cancel_requested, health, epoll,
                   reader, loop, delivered>>

\* The device is unplugged: what is in flight completes with an error.
Unplug ==
    /\ plugged
    /\ plugged' = FALSE
    /\ completed' = completed \o [k \in DOMAIN inflight |-> Done(inflight[k], NoTransfer)]
    /\ inflight' = <<>>
    /\ UNCHANGED <<transfers, pipeline, cancel_requested, health, epoll, reader, loop,
                   delivered, errors>>

\* SUBMITURB: it may fail now and then, and always once the device is gone.
SubmitOk(u) ==
    /\ plugged
    /\ inflight' = Append(inflight, u)
    /\ UNCHANGED <<completed, plugged, transfers, errors>>

SubmitError ==
    /\ ~plugged \/ errors < MaxErrors
    /\ errors' = IF plugged THEN errors + 1 ELSE errors
    /\ UNCHANGED kernel

\* What urb_reap and urb_cancel_all do with the URB they get.
Reaped(u) ==
    /\ flag' = [flag EXCEPT ![u] = FALSE]
    /\ submitted' = IF submitted > 0 THEN submitted - 1 ELSE 0
    /\ UNCHANGED arena

\* The end of urb_submit, after the ioctl.
Submitted(u) ==
    /\ flag' = [flag EXCEPT ![u] = TRUE]
    /\ submitted' = submitted + 1
    /\ UNCHANGED arena

-----------------------------------------------------------------------------
(* The application and other threads of the library.                       *)

\* stop.
RequestCancel ==
    /\ ~cancel_requested
    /\ cancel_requested' = TRUE
    /\ UNCHANGED <<kernel, pipeline, health, epoll, reader, loop, delivered, errors>>

\* A control transfer of some call finds the device gone.
Detect ==
    /\ ~plugged
    /\ health = "OK"
    /\ health' = "DISCONNECTED"
    /\ UNCHANGED <<kernel, pipeline, cancel_requested, epoll, reader, loop,
                   delivered, errors>>

-----------------------------------------------------------------------------
(* The reader thread: the async branch of reader_thread_fn.                *)

LoopAt(pc) == loop.pc = pc
LoopGoto(pc) == loop' = [loop EXCEPT !.pc = pc]

ReaderAt(pc) == reader.pc = pc
ReaderGoto(pc, i) == reader' = [pc |-> pc, i |-> i]

\* urb_alloc; the thread ends when there is no memory or start_bulk fails.
Alloc ==
    /\ ReaderAt("alloc")
    /\ arena' = "live"
    /\ ReaderGoto("submit", 1)
    /\ UNCHANGED <<kernel, flag, submitted, cancel_requested, health, epoll, loop,
                   delivered, errors>>

AllocFails ==
    /\ ReaderAt("alloc")
    /\ ReaderGoto("ended", 1)
    /\ UNCHANGED <<kernel, pipeline, cancel_requested, health, epoll, loop, delivered,
                   errors>>

\* urb_submit_all, one URB: the ioctl, then the fields of the descriptor.
ReaderSubmits ==
    /\ ReaderAt("submit")
    /\ SubmitOk(reader.i)
    /\ ReaderGoto("mark", reader.i)
    /\ UNCHANGED <<pipeline, cancel_requested, health, epoll, loop, delivered>>

\* The thread stops the bulk transfer and frees the arena.
ReaderSubmitFails ==
    /\ ReaderAt("submit")
    /\ SubmitError
    /\ ReaderGoto("stop_bulk", 1)
    /\ UNCHANGED <<pipeline, cancel_requested, health, epoll, loop, delivered>>

\* event_loop_start and event_loop_add_dev: each may fail, which nobody looks at,
\* and the second does without a loop.
StartLoop ==
    /\ running' \in BOOLEAN
    /\ registered' \in {FALSE, running' \/ SharedLoop}

\* After the last URB the loop is started, if need be, and the fd registered.
ReaderMarks ==
    /\ ReaderAt("mark")
    /\ Submitted(reader.i)
    /\ IF reader.i < Depth
       THEN /\ ReaderGoto("submit", reader.i + 1)
            /\ UNCHANGED epoll
       ELSE /\ ReaderGoto("wait", 1)
            /\ StartLoop
    /\ UNCHANGED <<kernel, cancel_requested, health, loop, delivered, errors>>

\* The wait ends on a cancel or a disconnect; event_loop_remove_dev.
ReaderLeavesWait ==
    /\ ReaderAt("wait")
    /\ cancel_requested \/ health = "DISCONNECTED"
    /\ registered' = FALSE
    /\ ReaderGoto("discard", 1)
    /\ UNCHANGED <<kernel, pipeline, cancel_requested, health, running, loop, delivered,
                   errors>>

\* urb_cancel_all is called before stop_bulk and again by urb_free.
Cancelling(pc) == pc \in {"discard", "discard2"}
ReapOf(pc) == IF pc \in {"discard", "reap", "block"} THEN "reap" ELSE "reap2"
BlockOf(pc) == IF pc = "reap" THEN "block" ELSE "block2"

\* Its first loop: DISCARDURB of each URB with its flag set.
Discard ==
    LET u == reader.i
    IN  /\ Cancelling(reader.pc)
        /\ \/ \E k \in DOMAIN inflight :
                 /\ flag[u] /\ inflight[k] = u
                 /\ inflight' = RemoveAt(inflight, k)
                 /\ completed' = Append(completed, Done(u, NoTransfer))
           \/ /\ ~flag[u] \/ u \notin ToSet(inflight)
              /\ UNCHANGED <<inflight, completed>>
        /\ IF u < Depth THEN ReaderGoto(reader.pc, u + 1)
                        ELSE ReaderGoto(ReapOf(reader.pc), 1)
        /\ UNCHANGED <<plugged, transfers, pipeline, cancel_requested, health, epoll,
                       loop, delivered, errors>>

\* Its second loop: one REAPURB for each URB that still has its flag set.
ReapCheck ==
    LET u == reader.i
    IN  /\ reader.pc \in {"reap", "reap2"}
        /\ u <= Depth
        /\ IF flag[u] THEN ReaderGoto(BlockOf(reader.pc), u)
                      ELSE ReaderGoto(reader.pc, u + 1)
        /\ UNCHANGED <<kernel, pipeline, cancel_requested, health, epoll, loop,
                       delivered, errors>>

\* REAPURB returns some completed URB, not necessarily the one at reader.i.
ReapReturns ==
    /\ reader.pc \in {"block", "block2"}
    /\ completed # <<>>
    /\ Reaped(Head(completed).urb)
    /\ completed' = Tail(completed)
    /\ ReaderGoto(ReapOf(reader.pc), reader.i + 1)
    /\ UNCHANGED <<inflight, plugged, transfers, cancel_requested, health, epoll, loop,
                   delivered, errors>>

ReapFails ==
    /\ reader.pc \in {"block", "block2"}
    /\ completed = <<>>
    /\ ~plugged
    /\ ReaderGoto(ReapOf(reader.pc), reader.i + 1)
    /\ UNCHANGED <<kernel, pipeline, cancel_requested, health, epoll, loop, delivered,
                   errors>>

\* Its end: all flags cleared, "in case some reaps failed".
ForceClear ==
    /\ reader.pc \in {"reap", "reap2"}
    /\ reader.i > Depth
    /\ flag' = [u \in Urbs |-> FALSE]
    /\ submitted' = 0
    /\ ReaderGoto(IF ReaderAt("reap") THEN "stop_bulk" ELSE "free", 1)
    /\ UNCHANGED <<kernel, arena, cancel_requested, health, epoll, loop, delivered,
                   errors>>

\* Mutant of StopBulk: the failure of the transfer is ignored.
StopBulkUnnoticed ==
    /\ ReaderAt("stop_bulk")
    /\ ReaderGoto("discard2", 1)
    /\ UNCHANGED <<kernel, pipeline, cancel_requested, health, epoll, loop, delivered, errors>>

\* stop_bulk is a control transfer: it notices that the device is gone.
StopBulk ==
    /\ ReaderAt("stop_bulk")
    /\ health' = IF plugged THEN health ELSE "DISCONNECTED"
    /\ ReaderGoto("discard2", 1)
    /\ UNCHANGED <<kernel, pipeline, cancel_requested, epoll, loop, delivered, errors>>

\* The rest of urb_free.
Free ==
    /\ ReaderAt("free")
    /\ arena' = "freed"
    /\ submitted' = 0
    /\ ReaderGoto("stop_loop", 1)
    /\ UNCHANGED <<kernel, flag, cancel_requested, health, epoll, loop, delivered,
                   errors>>

\* event_loop_stop, unless another device needs the loop: event_running is
\* cleared, and the loop thread joined when it is out of process_device_urbs.
\* (The polling round that it may still do is one it could do just before.)  A
\* reader whose submission failed has no loop to stop and passes through.
StopLoop ==
    /\ ReaderAt("stop_loop")
    /\ running' = FALSE
    /\ ReaderGoto("join_loop", 1)
    /\ UNCHANGED <<kernel, pipeline, cancel_requested, health, registered, loop, delivered,
                   errors>>

JoinLoop ==
    /\ ReaderAt("join_loop")
    /\ SharedLoop \/ LoopAt("wait")
    /\ ReaderGoto("ended", 1)
    /\ UNCHANGED <<kernel, pipeline, cancel_requested, health, epoll, loop, delivered,
                   errors>>

Reader ==
    \/ Alloc \/ AllocFails \/ ReaderSubmits \/ ReaderSubmitFails \/ ReaderMarks
    \/ ReaderLeavesWait \/ Discard \/ ReapCheck \/ ReapReturns \/ ReapFails
    \/ ForceClear \/ StopBulk \/ Free \/ StopLoop \/ JoinLoop

-----------------------------------------------------------------------------
(* The event loop thread, as far as this device goes: process_device_urbs. *)

\* The loop thread exists: for another device, or started by this reader.
LoopRuns == SharedLoop \/ running

\* Called for a registered fd that is ready, whatever cancel_requested says, or
\* by the polling fallback, for a stream that is not being cancelled.
LoopEnters ==
    /\ LoopAt("wait")
    /\ \/ registered /\ completed # <<>>
       \/ LoopRuns /\ ~cancel_requested
    /\ LoopGoto("reap")
    /\ UNCHANGED <<kernel, pipeline, cancel_requested, health, epoll, reader,
                   delivered, errors>>

\* Mutant of LoopReaps: the URB goes back to the kernel at once, "to keep the
\* pipeline full", and is then processed.
LoopReapsEagerly ==
    /\ LoopAt("reap")
    /\ completed # <<>>
    /\ Reaped(Head(completed).urb)
    /\ completed' = Tail(completed)
    /\ inflight' = IF plugged THEN Append(inflight, Head(completed).urb) ELSE inflight
    /\ loop' = [pc |-> "check", u |-> Head(completed).urb,
                transfer |-> Head(completed).transfer]
    /\ UNCHANGED <<plugged, transfers, cancel_requested, health, epoll, reader, delivered,
                   errors>>

\* urb_reap.
LoopReaps ==
    /\ LoopAt("reap")
    /\ completed # <<>>
    /\ Reaped(Head(completed).urb)
    /\ completed' = Tail(completed)
    /\ loop' = [pc |-> "check", u |-> Head(completed).urb,
                transfer |-> Head(completed).transfer]
    /\ UNCHANGED <<inflight, plugged, transfers, cancel_requested, health, epoll,
                   reader, delivered, errors>>

LoopFindsNothing ==
    /\ LoopAt("reap")
    /\ completed = <<>>
    /\ LoopGoto("wait")
    /\ UNCHANGED <<kernel, pipeline, cancel_requested, health, epoll, reader,
                   delivered, errors>>

\* A cancelled stream is drained without callbacks and without resubmission.
LoopChecks ==
    /\ LoopAt("check")
    /\ LoopGoto(IF cancel_requested THEN "reap"
                ELSE IF loop.transfer # NoTransfer THEN "callback" ELSE "resubmit")
    /\ UNCHANGED <<kernel, pipeline, cancel_requested, health, epoll, reader,
                   delivered, errors>>

\* The callback, async_ring_cb, copies the buffer of the URB into the ring.
LoopCallsBack ==
    /\ LoopAt("callback")
    /\ delivered' = loop.transfer
    /\ LoopGoto("resubmit")
    /\ UNCHANGED <<kernel, pipeline, cancel_requested, health, epoll, reader, errors>>

\* cancel_requested is looked at once more, before urb_submit.
LoopDecides ==
    /\ LoopAt("resubmit")
    /\ LoopGoto(IF cancel_requested THEN "reap" ELSE "submit")
    /\ UNCHANGED <<kernel, pipeline, cancel_requested, health, epoll, reader, delivered,
                   errors>>

LoopResubmits ==
    /\ LoopAt("submit")
    /\ ~flag[loop.u]
    /\ SubmitOk(loop.u)
    /\ LoopGoto("mark")
    /\ UNCHANGED <<pipeline, cancel_requested, health, epoll, reader, delivered>>

\* Mutant of LoopLosesUrb: the URB is processed again.
LoopRetriesUrb ==
    /\ LoopAt("submit")
    /\ IF flag[loop.u] THEN UNCHANGED <<kernel, errors>> ELSE SubmitError
    /\ LoopGoto("check")
    /\ UNCHANGED <<pipeline, cancel_requested, health, epoll, reader, delivered>>

\* The URB is lost; with the last one the stream is cancelled.
LoopLosesUrb ==
    /\ LoopAt("submit")
    /\ IF flag[loop.u] THEN UNCHANGED <<kernel, errors>> ELSE SubmitError
    /\ cancel_requested' = (cancel_requested \/ submitted = 0)
    /\ LoopGoto("reap")
    /\ UNCHANGED <<pipeline, health, epoll, reader, delivered>>

LoopMarks ==
    /\ LoopAt("mark")
    /\ Submitted(loop.u)
    /\ LoopGoto("reap")
    /\ UNCHANGED <<kernel, cancel_requested, health, epoll, reader, delivered, errors>>

Loop ==
    \/ LoopEnters \/ LoopReaps \/ LoopFindsNothing \/ LoopChecks \/ LoopCallsBack
    \/ LoopDecides \/ LoopResubmits \/ LoopLosesUrb \/ LoopMarks

-----------------------------------------------------------------------------

Next ==
    \/ Complete \/ CompleteBadly \/ Unplug
    \/ RequestCancel \/ Detect
    \/ Reader
    \/ Loop

Spec == Init /\ [][Next]_vars

\* Both threads are scheduled.  Nothing makes the device deliver, the
\* application stop or another call notice the disconnect.
FairSpec == Spec /\ WF_vars(Reader) /\ WF_vars(Loop)

-----------------------------------------------------------------------------

ReaderPCs == {"alloc", "submit", "mark", "wait", "discard", "reap", "block", "stop_bulk",
              "discard2", "reap2", "block2", "free", "stop_loop", "join_loop", "ended"}

LoopPCs == {"wait", "reap", "check", "callback", "resubmit", "submit", "mark"}

\* The values each variable can have.
TypeOK ==
    /\ inflight \in Seq(Urbs)
    /\ completed \in Seq([urb : Urbs, transfer : 0..MaxTransfers])
    /\ plugged \in BOOLEAN
    /\ arena \in {"none", "live", "freed"}
    /\ flag \in [Urbs -> BOOLEAN]
    /\ submitted \in 0..Depth+1
    /\ cancel_requested \in BOOLEAN
    /\ health \in {"OK", "DISCONNECTED"}
    /\ registered \in BOOLEAN
    /\ running \in BOOLEAN
    /\ reader \in [pc : ReaderPCs, i : 1..Depth+1]
    /\ loop \in [pc : LoopPCs, u : Urbs, transfer : 0..MaxTransfers]
    /\ transfers \in 0..MaxTransfers
    /\ delivered \in 0..MaxTransfers
    /\ errors \in 0..MaxErrors

InKernel == inflight \o [k \in DOMAIN completed |-> completed[k].urb]

\* A descriptor is never submitted while the kernel still has it, whichever
\* thread submits it and however their steps mix.  (Every variable has its type.)
SubmittedOnce ==
    /\ TypeOK
    /\ IsInjective(InKernel)

\* Transfers reach the ring in the order in which the device completed them,
\* none twice, through resubmission, errors and lost URBs.
DeliveredInOrder ==
    LoopAt("callback") =>
        /\ loop.transfer > delivered
        /\ \A k \in DOMAIN completed :
             completed[k].transfer # NoTransfer => completed[k].transfer > loop.transfer

\* Once there is an event loop, unplugging the device during the stream ends the
\* reader thread and is noticed, also when no call but the stream uses the
\* device: the loop loses one URB after the other, cancels the stream with the
\* last one, and the reader's stop_bulk finds the device gone.
UnplugEndsStream ==
    ~plugged /\ ReaderAt("wait") /\ running
        ~> ReaderAt("ended") /\ health = "DISCONNECTED"

\* REAPURB is only called when there is an URB to wait for ("we know they
\* should return quickly after DISCARDURB", src/sdrgg_usb.cpp:344-345).
ReapNeverHangs ==
    reader.pc \in {"block", "block2"} => completed # <<>> \/ ~plugged
=============================================================================
